-------------------------- MODULE FramedReadProofs --------------------------
(***************************************************************************)
(* FramedRead proved for every framing, cap, payload, stream and chunking.  *)
(* ReadInv follows the bytes: what was drained and what is buffered is what *)
(* was read.  FramesInv follows the frames: while no read was cut off, each *)
(* recv starts at the first byte of a frame, and then decode finds what     *)
(* encode wrote (RoundTrip), however much of the stream is there.           *)
(***************************************************************************)
EXTENDS FramedRead, TLAPS, SequenceTheorems, WellFoundedInduction

-----------------------------------------------------------------------------
(* Induction on the natural numbers.  The library's induction theorems take  *)
(* a predicate as parameter, which the provers cannot instantiate; here the  *)
(* predicate is a subset of Nat, and the principle comes from the           *)
(* well-foundedness of < by WFMin.                                           *)

\* A set of numbers that is not empty has a least one.
LEMMA LeastNumber ==
    ASSUME NEW T \in SUBSET Nat, T # {}
    PROVE  \E x \in T : \A y \in T : x <= y
<1>1. \E R : IsWellFoundedOn(R, Nat) /\ \A x, y \in Nat : <<y, x>> \in R <=> y < x
  <2> DEFINE R == {p \in Nat \X Nat : p[1] < p[2]}
  <2>1. IsWellFoundedOn(R, Nat)
    BY NatLessThanWellFounded DEF OpToRel
  <2>2. \A x, y \in Nat : <<y, x>> \in R <=> y < x
    OBVIOUS
  <2> HIDE DEF R
  <2>3. QED
    BY <2>1, <2>2
<1>2. PICK R : IsWellFoundedOn(R, Nat) /\ \A x, y \in Nat : <<y, x>> \in R <=> y < x
  BY <1>1
<1>3. PICK x \in T : \A y \in T : ~(<<y, x>> \in R)
  BY <1>2, WFMin
<1>4. ASSUME NEW y \in T PROVE x <= y
  <2>1. x \in Nat /\ y \in Nat
    OBVIOUS
  <2>2. ~(<<y, x>> \in R)
    BY <1>3
  <2>3. ~(y < x)
    BY <1>2, <2>1, <2>2
  <2>4. QED
    BY <2>1, <2>3
<1>5. QED
  BY <1>4

\* Induction: a set that has 0 and the successor of each member is all of Nat.
LEMMA Induction ==
    ASSUME NEW T \in SUBSET Nat, 0 \in T, \A n \in T : n + 1 \in T
    PROVE  T = Nat
<1>1. SUFFICES ASSUME Nat \ T # {} PROVE FALSE
  OBVIOUS
<1>2. PICK m \in Nat \ T : \A y \in Nat \ T : m <= y
  BY <1>1, LeastNumber
<1>3. m - 1 \in T
  BY <1>2
<1>4. QED
  BY <1>2, <1>3

\* Recursion: a function can be iterated from a start value any number of times,
\* so that a recursive function over Nat is defined by its equation.
LEMMA Iterate ==
    \A S : \A a \in S, g \in [S -> S] :
        \E f \in [Nat -> S] : f[0] = a /\ \A n \in Nat : f[n + 1] = g[f[n]]
<1> TAKE S
<1> TAKE a \in S, g \in [S -> S]
<1> DEFINE Up(n, h) == h \in [0..n -> S] /\ h[0] = a /\ \A i \in 0..(n - 1) : h[i + 1] = g[h[i]]
<1> DEFINE T == {n \in Nat : \E h : Up(n, h)}
<1>1. 0 \in T
  <2>1. Up(0, [i \in 0..0 |-> a])
    OBVIOUS
  <2>2. QED
    BY <2>1
<1>2. ASSUME NEW n \in T PROVE n + 1 \in T
  <2>1. PICK h : Up(n, h)
    BY <1>2
  <2> DEFINE k == [i \in 0..(n + 1) |-> IF i = n + 1 THEN g[h[n]] ELSE h[i]]
  <2>2. n \in Nat /\ Up(n + 1, k)
    BY <2>1
  <2> HIDE DEF Up, k
  <2>3. QED
    BY <2>2
<1>3. T = Nat
  <2> HIDE DEF T
  <2>1. T \in SUBSET Nat
    BY DEF T
  <2>2. QED
   BY <1>1, <1>2, <2>1, Induction
<1>4. ASSUME NEW n \in Nat, NEW m \in Nat, NEW h, NEW k, Up(n, h), Up(m, k), n <= m
      PROVE  \A i \in 0..n : h[i] = k[i]
  <2> DEFINE E == {i \in Nat : i <= n => h[i] = k[i]}
  <2>1. 0 \in E
    BY <1>4
  <2>2. ASSUME NEW i \in E PROVE i + 1 \in E
    <3>1. i + 1 <= n => i \in 0..(n - 1) /\ i \in 0..(m - 1) /\ h[i] = k[i]
      BY <1>4
    <3>2. QED
      BY <1>4, <3>1
  <2> HIDE DEF E
  <2>3. E \in SUBSET Nat
    BY DEF E
  <2>4. E = Nat
    BY <2>1, <2>2, <2>3, Induction
  <2>5. QED
    BY <2>4 DEF E
<1>5. \E H : \A n \in Nat : Up(n, H[n])
  <2> HIDE DEF Up
  <2> DEFINE H == [n \in Nat |-> CHOOSE h : Up(n, h)]
  <2>1. \A n \in Nat : Up(n, H[n])
    BY <1>3
  <2> HIDE DEF H
  <2>2. QED
    BY <2>1
<1> HIDE DEF T
<1>6. PICK H : \A n \in Nat : Up(n, H[n])
  BY <1>5
<1> DEFINE f == [n \in Nat |-> H[n][n]]
<1>7. f \in [Nat -> S] /\ f[0] = a
  BY <1>6
<1>8. ASSUME NEW n \in Nat PROVE f[n + 1] = g[f[n]]
  <2>1. Up(n, H[n]) /\ Up(n + 1, H[n + 1])
    BY <1>6
  <2>2. H[n][n] = H[n + 1][n]
    <3> HIDE DEF Up
    <3>1. n + 1 \in Nat /\ n <= n + 1 /\ n \in 0..n
      OBVIOUS
    <3>2. QED
      BY <1>4, <2>1, <3>1
  <2>3. H[n + 1][n + 1] = g[H[n + 1][n]]
    <3>1. n \in 0..((n + 1) - 1)
      OBVIOUS
    <3>2. \A i \in 0..((n + 1) - 1) : H[n + 1][i + 1] = g[H[n + 1][i]]
      BY <2>1
    <3> HIDE DEF Up
    <3>3. QED
      BY <3>1, <3>2
  <2>4. QED
    BY <2>2, <2>3
<1>9. QED
  BY <1>7, <1>8

\* Course-of-values recursion: G[n][f] is what a rule makes of the function f at n;
\* if it depends only on f below n, then the rule defines a function.
Rules(S) == [Nat -> [[Nat -> S] -> S]]
LooksBack(G, S) ==
    \A n \in Nat, h, k \in [Nat -> S] :
        (\A m \in Nat : m < n => h[m] = k[m]) => G[n][h] = G[n][k]
Solves(f, G, S) == f \in [Nat -> S] /\ \A n \in Nat : f[n] = G[n][f]

\* A rule that looks back only is solved by a function.
LEMMA Recursion ==
    ASSUME NEW S, S # {}, NEW G \in Rules(S), LooksBack(G, S)
    PROVE  \E f : Solves(f, G, S)
<1> DEFINE Fs == [Nat -> S]
<1>0. /\ \A n \in Nat, h, k \in Fs :
            (\A m \in Nat : m < n => h[m] = k[m]) => G[n][h] = G[n][k]
      /\ \A n \in Nat : \A h \in Fs : G[n][h] \in S
  BY DEF Rules, LooksBack
<1> PICK a \in S : TRUE
  OBVIOUS
<1> DEFINE up == [h \in Fs |-> [n \in Nat |-> G[n][h]]]
<1>1. up \in [Fs -> Fs] /\ [n \in Nat |-> a] \in Fs
  BY <1>0
<1>2. PICK H \in [Nat -> Fs] : \A k \in Nat : H[k + 1] = up[H[k]]
  <2> HIDE DEF up
  <2> DEFINE B == Fs
  <2> HIDE DEF B
  <2>1. \A b \in B, g \in [B -> B] :
          \E H \in [Nat -> B] : H[0] = b /\ \A k \in Nat : H[k + 1] = g[H[k]]
    BY SMTT(30), Iterate
  <2>2. up \in [B -> B] /\ \E b : b \in B
    BY <1>1 DEF B
  <2> HIDE DEF Fs, up
  <2>3. PICK b \in B : TRUE
    BY <2>2
  <2>4. \A g \in [B -> B] :
          \E H \in [Nat -> B] : H[0] = b /\ \A k \in Nat : H[k + 1] = g[H[k]]
    BY <2>1, <2>3
  <2>5. PICK H \in [Nat -> B] : H[0] = b /\ \A k \in Nat : H[k + 1] = up[H[k]]
    BY <2>2, <2>4
  <2>6. QED
    BY <2>5 DEF B
<1>3. \A k \in Nat : H[k] \in Fs
  BY <1>2
<1>4. \A k, n \in Nat : H[k + 1][n] = G[n][H[k]]
  <2>1. ASSUME NEW k \in Nat, NEW n \in Nat PROVE H[k + 1][n] = G[n][H[k]]
    <3>1. H[k + 1] = up[H[k]] /\ H[k] \in Fs
      BY <1>2, <1>3
    <3>2. QED
      BY <3>1
  <2>2. QED
    BY <2>1
<1> HIDE DEF Fs, up
\* After k rounds the values below k no longer change.
<1> DEFINE Stable(k) == \A n \in Nat : n < k => H[k + 1][n] = H[k][n]
           T == {k \in Nat : Stable(k)}
<1>5. T = Nat
  <2>1. 0 \in T
    OBVIOUS
  <2>2. ASSUME NEW k \in T PROVE k + 1 \in T
    <3>1. ASSUME NEW n \in Nat, n < k + 1 PROVE H[(k + 1) + 1][n] = H[k + 1][n]
      <4>1. k \in Nat /\ k + 1 \in Nat /\ \A m \in Nat : m < n => H[k + 1][m] = H[k][m]
        BY <3>1
      <4>2. G[n][H[k + 1]] = G[n][H[k]]
        BY <1>0, <1>3, <4>1
      <4>3. QED
        BY <1>4, <4>1, <4>2
    <3>2. QED
      BY <3>1
  <2> HIDE DEF T
  <2>3. T \in SUBSET Nat
    BY DEF T
  <2>4. QED
    BY <2>1, <2>2, <2>3, Induction
<1>6. ASSUME NEW n \in Nat PROVE \A j \in Nat : H[n + 1 + j][n] = H[n + 1][n]
  <2> DEFINE U == {j \in Nat : H[n + 1 + j][n] = H[n + 1][n]}
  <2>1. 0 \in U
    OBVIOUS
  <2>2. ASSUME NEW j \in U PROVE j + 1 \in U
    <3> j \in Nat
      OBVIOUS
    <3>1. n + 1 + j \in Nat /\ n < n + 1 + j
      OBVIOUS
    <3>2. H[(n + 1 + j) + 1][n] = H[n + 1 + j][n]
      <4>1. n + 1 + j \in T
        BY <1>5, <3>1
      <4>2. QED
        BY <3>1, <4>1
    <3>3. (n + 1 + j) + 1 = n + 1 + (j + 1)
      BY <3>1
    <3>4. QED
      BY <3>1, <3>2, <3>3
  <2> HIDE DEF U, T
  <2>3. U \in SUBSET Nat
    BY DEF U
  <2>4. U = Nat
    BY <2>1, <2>2, <2>3, Induction
  <2>5. QED
    BY <2>4 DEF U
<1> HIDE DEF T
<1> DEFINE f == [n \in Nat |-> H[n + 1][n]]
<1>7. f \in Fs
  BY <1>3 DEF Fs
<1>8. ASSUME NEW n \in Nat PROVE f[n] = G[n][f]
  <2>1. ASSUME NEW m \in Nat, m < n PROVE f[m] = H[n][m]
    <3>1. n - (m + 1) \in Nat /\ m + 1 + (n - (m + 1)) = n
      BY <2>1
    <3>2. H[m + 1 + (n - (m + 1))][m] = H[m + 1][m]
      BY <1>6, <3>1
    <3>3. QED
      BY <3>1, <3>2
  <2> HIDE DEF f
  <2>2. H[n] \in Fs
    BY <1>3
  <2>3. G[n][f] = G[n][H[n]]
    BY <1>0, <1>7, <2>1, <2>2
  <2>4. f[n] = H[n + 1][n]
    BY DEF f
  <2>5. QED
    BY <1>4, <2>3, <2>4
<1>9. QED
  BY <1>7, <1>8 DEF Solves, Fs

\* Sequences over a set are sequences over every larger set.
LEMMA SeqOfMore == \A S, T : S \subseteq T => Seq(S) \subseteq Seq(T)
OBVIOUS

-----------------------------------------------------------------------------
(* Numbers and sequences.                                                  *)

\* A finite set of numbers that is not empty has a greatest one.
LEMMA GreatestNumber ==
    ASSUME NEW T \in SUBSET Nat, T # {}, NEW bound \in Nat, \A x \in T : x <= bound
    PROVE  \E x \in T : \A y \in T : y <= x
<1> DEFINE U == {n \in Nat : \E x \in T : n = bound - x}
<1>1. U # {}
  <2>1. PICK x \in T : TRUE
    OBVIOUS
  <2>2. bound - x \in U
    OBVIOUS
  <2>3. QED
    BY <2>2
<1>2. PICK n \in U : \A m \in U : n <= m
  <2> HIDE DEF U
  <2>1. U \in SUBSET Nat
    BY DEF U
  <2>2. QED
    BY <1>1, <2>1, LeastNumber
<1>3. PICK x \in T : n = bound - x
  OBVIOUS
<1>4. ASSUME NEW y \in T PROVE y <= x
  <2>1. bound - y \in U
    OBVIOUS
  <2>2. n <= bound - y
    BY <1>2, <2>1
  <2>3. x \in Nat /\ y \in Nat
    OBVIOUS
  <2>4. QED
    BY <1>3, <2>2, <2>3
<1>5. QED
  BY <1>4

\* Min and Max are what their names say.
LEMMA MinIsLeast ==
    ASSUME NEW T \in SUBSET Nat, T # {}
    PROVE  Min(T) \in T /\ \A y \in T : Min(T) <= y
BY LeastNumber DEF Min

\* The greatest number of a bounded set.
LEMMA MaxIsGreatest ==
    ASSUME NEW T \in SUBSET Nat, T # {}, NEW bound \in Nat, \A x \in T : x <= bound
    PROVE  Max(T) \in T /\ \A y \in T : y <= Max(T)
BY GreatestNumber DEF Max

\* Of one number.
LEMMA MinOfOne == \A x \in Nat : Min({x}) = x
<1> SUFFICES ASSUME NEW x \in Nat PROVE Min({x}) = x
  OBVIOUS
<1>1. {x} \in SUBSET Nat /\ {x} # {}
  OBVIOUS
<1>2. Min({x}) \in {x}
  BY <1>1, MinIsLeast
<1>3. QED
  BY <1>2

\* What is cut out of a sequence.
LEMMA CutOut ==
    ASSUME NEW S, NEW b \in Seq(S), NEW m \in 1..(Len(b) + 1), NEW n \in (m - 1)..Len(b)
    PROVE  SubSeq(b, m, n) \in Seq(S) /\ Len(SubSeq(b, m, n)) = n + 1 - m
OBVIOUS

\* A sequence in two parts.
LEMMA Parts ==
    ASSUME NEW S, NEW s \in Seq(S)
    PROVE  /\ \A n \in 0..Len(s) :
                 /\ SubSeq(s, 1, n) \in Seq(S) /\ Len(SubSeq(s, 1, n)) = n
                 /\ SubSeq(s, n + 1, Len(s)) \in Seq(S)
                 /\ SubSeq(s, 1, n) \o SubSeq(s, n + 1, Len(s)) = s
           /\ \A p \in 0..Len(s), n \in Nat : p + n <= Len(s) =>
                 /\ SubSeq(s, p + 1, p + n) \in Seq(S) /\ Len(SubSeq(s, p + 1, p + n)) = n
                 /\ SubSeq(s, 1, p) \o SubSeq(s, p + 1, p + n) = SubSeq(s, 1, p + n)
           /\ SubSeq(s, 1, Len(s)) = s
<1>1. ASSUME NEW p \in 0..Len(s), NEW n \in Nat, p + n <= Len(s)
      PROVE  /\ SubSeq(s, p + 1, p + n) \in Seq(S) /\ Len(SubSeq(s, p + 1, p + n)) = n
             /\ SubSeq(s, 1, p) \o SubSeq(s, p + 1, p + n) = SubSeq(s, 1, p + n)
  <2>1. SubSeq(s, p + 1, p + n) \in Seq(S) /\ Len(SubSeq(s, p + 1, p + n)) = n
    BY <1>1
  <2>2. 1 \in 1..(Len(s) + 1) /\ p \in (1 - 1)..Len(s) /\ p + n \in p..Len(s)
    BY <1>1
  <2>3. QED
    BY <2>1, <2>2, ConcatAdjacentSubSeq
<1>2. SubSeq(s, 1, Len(s)) = s
  BY SubSeqFull
<1>3. ASSUME NEW n \in 0..Len(s)
      PROVE  /\ SubSeq(s, 1, n) \in Seq(S) /\ Len(SubSeq(s, 1, n)) = n
             /\ SubSeq(s, n + 1, Len(s)) \in Seq(S)
             /\ SubSeq(s, 1, n) \o SubSeq(s, n + 1, Len(s)) = s
  <2>1. Len(s) - n \in Nat /\ n + (Len(s) - n) = Len(s)
    OBVIOUS
  <2>2. SubSeq(s, 1, n) \in Seq(S) /\ Len(SubSeq(s, 1, n)) = n
    OBVIOUS
  <2>3. n + (Len(s) - n) <= Len(s)
    BY <2>1
  <2>4. QED
    BY <1>1, <1>2, <2>1, <2>2, <2>3
<1>4. QED
  BY <1>1, <1>2, <1>3

\* The first of two parts.
LEMMA FirstPart ==
    ASSUME NEW S, NEW s \in Seq(S), NEW t \in Seq(S)
    PROVE  SubSeq(s \o t, 1, Len(s)) = s
<1>1. CASE s = <<>>
  BY <1>1
<1>2. CASE s # <<>>
  <2>1. 1 \in 1..Len(s) /\ Len(s) \in 1..Len(s)
    BY <1>2
  <2>2. SubSeq(s \o t, 1, Len(s)) = SubSeq(s, 1, Len(s))
    BY <2>1, SubSeqOfConcat1
  <2>3. QED
    BY <2>2, SubSeqFull
<1>3. QED
  BY <1>1, <1>2

\* Three sequences of bytes, one after the other.
LEMMA Regroup == \A s, t, u \in Seq(Byte) : (s \o t) \o u = s \o (t \o u)
BY ConcatAssociative

\* Two sequences of bytes, one after the other.
LEMMA Joined == \A s, t \in Seq(Byte) : s \o t \in Seq(Byte) /\ Len(s \o t) = Len(s) + Len(t)
BY ConcatProperties

\* The same bytes cut out of the same places.
LEMMA SameCut ==
    ASSUME NEW b \in Seq(Byte), NEW p \in Seq(Byte), NEW m \in Nat, m + Len(p) <= Len(b),
           \A k \in 1..Len(p) : b[m + k] = p[k]
    PROVE  SubSeq(b, m + 1, m + Len(p)) = p
<1> DEFINE s == SubSeq(b, m + 1, m + Len(p))
<1>1. m + 1 \in Int /\ m + Len(p) \in Int /\ Len(p) \in Nat /\ \A k \in (m + 1)..(m + Len(p)) : b[k] \in Byte
  OBVIOUS
<1>2. s \in Seq(Byte) /\ Len(s) = Len(p)
  BY <1>1
<1>3. ASSUME NEW k \in 1..Len(p) PROVE s[k] = p[k]
  <2>1. k \in 1..(m + Len(p)) - (m + 1) + 1 /\ (m + 1) + k - 1 = m + k
    BY <1>1
  <2>2. s[k] = b[(m + 1) + k - 1]
    BY <1>1, <2>1
  <2>3. QED
    BY <2>1, <2>2
<1>4. QED
  <2> HIDE DEF s
  <2>1. s = p
    BY <1>2, <1>3, SeqEqual
  <2>2. QED
    BY <2>1 DEF s

\* What stands at the places of two sequences, one after the other.
LEMMA PlacesOfConcat ==
    \A s, t \in Seq(Byte) :
        /\ Len(s \o t) = Len(s) + Len(t)
        /\ \A k \in 1..Len(s) : (s \o t)[k] = s[k]
        /\ \A k \in 1..Len(t) : (s \o t)[Len(s) + k] = t[k]
<1> SUFFICES ASSUME NEW s \in Seq(Byte), NEW t \in Seq(Byte)
             PROVE  /\ Len(s \o t) = Len(s) + Len(t)
                    /\ \A k \in 1..Len(s) : (s \o t)[k] = s[k]
                    /\ \A k \in 1..Len(t) : (s \o t)[Len(s) + k] = t[k]
  OBVIOUS
<1>1. QED
  OBVIOUS

\* What FlattenSeq makes of no sequences, and of one more.
LEMMA FlattenDef ==
    ASSUME NEW S, NEW s \in Seq(Seq(S)), s # <<>>
    PROVE  \E f \in [1..Len(s) -> Seq(S)] :
              /\ f[1] = s[1]
              /\ \A i \in 1..Len(s) : i # 1 => f[i] = f[i - 1] \o s[i]
              /\ FlattenSeq(s) = f[Len(s)]
<1> DEFINE L == Len(s)
           B == Seq(S)
           F(d) == [i \in 1..L |-> IF i = 1 THEN s[i] ELSE d[i - 1] \o s[i]]
           G == [n \in Nat |-> [h \in [Nat -> B] |->
                    IF n = 0 \/ n > L THEN <<>> ELSE IF n = 1 THEN s[1] ELSE h[n - 1] \o s[n]]]
<1>1. L \in Nat /\ L # 0 /\ <<>> \in B /\ \A i \in 1..L : s[i] \in B
  OBVIOUS
<1>2. \A t, u \in B : t \o u \in B
  OBVIOUS
<1>3. FlattenSeq(s) = (CHOOSE d : d = F(d))[L]
  BY <1>1 DEF FlattenSeq
<1> HIDE DEF B, L
<1>4. \A n \in Nat, h \in [Nat -> B] : n # 0 => n - 1 \in Nat /\ h[n - 1] \in B
  OBVIOUS
<1>5. G \in Rules(B)
  <2>1. ASSUME NEW n \in Nat, NEW h \in [Nat -> B]
        PROVE  (IF n = 0 \/ n > L THEN <<>> ELSE IF n = 1 THEN s[1] ELSE h[n - 1] \o s[n]) \in B
    <3>1. CASE n = 0 \/ n > L
      BY <1>1, <3>1
    <3>2. CASE ~(n = 0 \/ n > L)
      <4>1. n \in 1..L
        BY <1>1, <3>2
      <4>2. QED
        BY <1>1, <1>2, <1>4, <3>2, <4>1
    <3>3. QED
      BY <3>1, <3>2
  <2>2. QED
    BY <2>1 DEF Rules
<1>6. LooksBack(G, B)
  <2>1. ASSUME NEW n \in Nat, NEW h \in [Nat -> B], NEW k \in [Nat -> B],
               \A m \in Nat : m < n => h[m] = k[m]
        PROVE  G[n][h] = G[n][k]
    <3>1. n # 0 => n - 1 \in Nat /\ n - 1 < n
      OBVIOUS
    <3>2. n # 0 => h[n - 1] = k[n - 1]
      BY <2>1, <3>1
    <3>3. QED
      BY <3>2
  <2>2. QED
    BY <2>1 DEF LooksBack
<1>7. PICK f : f \in [Nat -> B] /\ \A n \in Nat : f[n] = G[n][f]
  <2> HIDE DEF G
  <2>1. PICK f : Solves(f, G, B)
    BY <1>1, <1>5, <1>6, Recursion
  <2>2. QED
    BY <2>1 DEF Solves
<1> DEFINE e == [i \in 1..L |-> f[i]]
<1>8. e = F(e)
  <2>1. ASSUME NEW i \in 1..L PROVE e[i] = F(e)[i]
    <3>1. i \in Nat /\ ~(i = 0 \/ i > L) /\ (i # 1 => i - 1 \in 1..L)
      BY <1>1
    <3>2. f[i] = IF i = 1 THEN s[1] ELSE f[i - 1] \o s[i]
      BY <1>7, <3>1
    <3>3. QED
      BY <3>1, <3>2
  <2>2. QED
    BY <2>1
<1> DEFINE d == CHOOSE d : d = F(d)
<1> HIDE DEF e, G
<1>9. d = F(d)
  <2> HIDE DEF F
  <2>1. QED
    BY <1>8
<1> HIDE DEF d
<1>10. d[1] = s[1] /\ \A i \in 1..L : i # 1 => d[i] = d[i - 1] \o s[i]
  <2>1. 1 \in 1..L
    BY <1>1
  <2>2. \A i \in 1..L : d[i] = IF i = 1 THEN s[i] ELSE d[i - 1] \o s[i]
    BY <1>9
  <2>3. QED
    BY <2>1, <2>2
<1> DEFINE T == {n \in Nat : n + 1 <= L => d[n + 1] \in B}
<1>11. 0 \in T
  BY <1>1, <1>10
<1>12. ASSUME NEW n \in T PROVE n + 1 \in T
  <2>1. n \in Nat /\ (n + 1 <= L => d[n + 1] \in B)
    OBVIOUS
  <2>2. SUFFICES ASSUME (n + 1) + 1 <= L PROVE d[(n + 1) + 1] \in B
    BY <2>1
  <2>3. (n + 1) + 1 \in 1..L /\ (n + 1) + 1 # 1 /\ ((n + 1) + 1) - 1 = n + 1 /\ n + 1 <= L
    BY <1>1, <2>1, <2>2
  <2>4. d[(n + 1) + 1] = d[n + 1] \o s[(n + 1) + 1]
    BY <1>10, <2>3
  <2>5. QED
    BY <1>1, <1>2, <2>1, <2>3, <2>4
<1>13. T = Nat
  <2> HIDE DEF T
  <2>1. T \in SUBSET Nat
    BY DEF T
  <2>2. QED
    BY <1>11, <1>12, <2>1, Induction
<1>14. \A i \in 1..L : d[i] \in B
  <2>1. ASSUME NEW i \in 1..L PROVE d[i] \in B
    <3>1. i - 1 \in Nat /\ (i - 1) + 1 = i /\ i <= L
      BY <1>1
    <3>2. i - 1 \in T
      BY <1>13, <3>1
    <3>3. QED
      BY <3>1, <3>2
  <2>2. QED
    BY <2>1
<1>15. d = [i \in 1..L |-> d[i]]
  BY <1>9
<1>16. d \in [1..L -> B]
  BY <1>14, <1>15
<1>17. QED
  BY <1>3, <1>10, <1>16 DEF d, B, L

-----------------------------------------------------------------------------
(* What Decode finds in any buffer.                                        *)

\* A frame in b, as large as its bytes.
Fits(found, b) ==
    /\ found.consumed \in 1..Len(b)
    /\ found.msg \in Seq(Byte)
    /\ Len(found.msg) <= found.consumed

\* decode for a delimiter framing: what stands before the delimiter.
LEMMA DelimitedFits ==
    ASSUME NEW delimiter, NEW b \in Seq(Byte), DecodeDelimited(delimiter, b).found = "frame"
    PROVE  Fits(DecodeDelimited(delimiter, b), b)
<1> DEFINE P == Places(delimiter, b)
<1>1. P # {}
  BY DEF DecodeDelimited, NeedsMore
<1>2. P \in SUBSET Nat /\ P \subseteq 1..Len(b)
  BY DEF Places
<1>3. Min(P) \in 1..Len(b)
  <2> HIDE DEF P
  <2>1. QED
    BY <1>1, <1>2, MinIsLeast
<1>4. DecodeDelimited(delimiter, b) = Frame(SubSeq(b, 1, Min(P) - 1), Min(P))
  BY <1>1 DEF DecodeDelimited
<1> HIDE DEF P
<1>5. SubSeq(b, 1, Min(P) - 1) \in Seq(Byte) /\ Len(SubSeq(b, 1, Min(P) - 1)) = Min(P) - 1
  BY <1>3, CutOut
<1>6. QED
  BY <1>3, <1>4, <1>5 DEF Fits, Frame

\* What Parse yields are numbers.
LEMMA ParsedIsNumber == \A s : Parse(s) \subseteq Nat
BY FramingBounds DEF Parse

\* decode for netstrings: as many bytes as the length prefix says.
LEMMA NetstringFits ==
    ASSUME NEW b \in Seq(Byte), DecodeNetstring(b).found = "frame"
    PROVE  Fits(DecodeNetstring(b), b)
<1> DEFINE P == Places(COLON, b)
           colon == Min(P)
           length == Parse(SubSeq(b, 1, colon - 1))
           n == CHOOSE n \in length : TRUE
           end == colon + n
<1>1. /\ P # {} /\ length # {} /\ ~(Len(b) <= end)
      /\ DecodeNetstring(b) = Frame(SubSeq(b, colon + 1, end), end + 1)
  <2>1. NeedsMore.found = "more" /\ FrameError.found = "error"
    BY DEF NeedsMore, FrameError
  <2>2. QED
    BY <2>1 DEF DecodeNetstring
<1>2. P \in SUBSET Nat /\ P \subseteq 1..Len(b)
  BY DEF Places
<1>3. n \in Nat
  <2>1. length \subseteq Nat
    BY ParsedIsNumber
  <2> HIDE DEF length
  <2>2. QED
    BY <1>1, <2>1
<1>4. colon \in 1..Len(b)
  <2> HIDE DEF P
  <2>1. QED
    BY <1>1, <1>2, MinIsLeast
<1> HIDE DEF colon, n
<1>5. end \in colon..(Len(b) - 1)
  BY <1>1, <1>3, <1>4
<1>6. SubSeq(b, colon + 1, end) \in Seq(Byte) /\ Len(SubSeq(b, colon + 1, end)) = end - colon
  BY <1>4, <1>5, CutOut
<1>7. QED
  BY <1>1, <1>4, <1>5, <1>6 DEF Fits, Frame

\* What a header announces are numbers.
LEMMA AnnouncedIsNumber == \A lines : Announced(lines) \subseteq Nat
<1> SUFFICES ASSUME NEW lines, NEW n \in Announced(lines) PROVE n \in Nat
  OBVIOUS
<1> DEFINE lengths == {<<l[1], ParseTrimmed(ValueOf(l[2]))>> :
                           l \in {m \in lines : NameOf(m[2]) = Name}}
<1>1. \A s : ParseTrimmed(s) \subseteq Nat
  <2> SUFFICES ASSUME NEW s, NEW x \in ParseTrimmed(s) PROVE x \in Nat
    OBVIOUS
  <2>1. PICK t : x \in Parse(t)
    BY DEF ParseTrimmed
  <2>2. QED
    BY <2>1, ParsedIsNumber
<1>2. \E l \in lengths : n \in l[2]
  BY DEF Announced
<1>3. PICK l \in lines : n \in ParseTrimmed(ValueOf(l[2]))
  BY <1>2
<1>4. QED
  BY <1>1, <1>3

\* decode for Content-Length: as many bytes as the header announces.
LEMMA ContentLengthFits ==
    ASSUME NEW b \in Seq(Byte), DecodeContentLength(b).found = "frame"
    PROVE  Fits(DecodeContentLength(b), b)
<1> DEFINE H == FindHeaderEnd(b)
           headerEnd == Min(H) + 3
           ends == {headerEnd + n : n \in Announced(SplitCrlf(SubSeq(b, 1, headerEnd - 4)))}
<1>1. /\ H # {} /\ ends # {} /\ \A end \in ends : ~(Len(b) < end)
      /\ DecodeContentLength(b) = Frame(SubSeq(b, headerEnd + 1, Max(ends)), Max(ends))
  <2>1. NeedsMore.found = "more" /\ FrameError.found = "error"
    BY DEF NeedsMore, FrameError
  <2>2. QED
    BY <2>1 DEF DecodeContentLength
<1>2. H \in SUBSET Nat /\ H \subseteq 1..(Len(b) - 3)
  BY DEF FindHeaderEnd
<1>3. headerEnd \in 4..Len(b)
  <2> HIDE DEF H
  <2>1. Min(H) \in 1..(Len(b) - 3)
    BY <1>1, <1>2, MinIsLeast
  <2>2. QED
    BY <2>1
<1> HIDE DEF headerEnd
<1>4. ends \in SUBSET Nat /\ \A end \in ends : headerEnd <= end
  <2>1. \A n \in Announced(SplitCrlf(SubSeq(b, 1, headerEnd - 4))) : n \in Nat
    BY AnnouncedIsNumber
  <2>2. QED
    BY <1>3, <2>1
<1> HIDE DEF ends
<1>5. \A end \in ends : end <= Len(b)
  BY <1>1, <1>4
<1>6. Max(ends) \in headerEnd..Len(b)
  <2>1. Len(b) \in Nat
    OBVIOUS
  <2> DEFINE top == Max(ends)
  <2>2. top \in ends
    BY <1>1, <1>4, <1>5, <2>1, MaxIsGreatest
  <2> HIDE DEF top
  <2>3. top \in Nat /\ headerEnd <= top /\ top <= Len(b) /\ headerEnd \in Nat
    BY <1>3, <1>4, <1>5, <2>2
  <2>4. top \in headerEnd..Len(b)
    BY <2>1, <2>3
  <2>5. QED
    BY <2>4 DEF top
<1>7. /\ SubSeq(b, headerEnd + 1, Max(ends)) \in Seq(Byte)
      /\ Len(SubSeq(b, headerEnd + 1, Max(ends))) = Max(ends) - headerEnd
  BY <1>3, <1>6, CutOut
<1>8. QED
  BY <1>1, <1>3, <1>6, <1>7 DEF Fits, Frame

\* Whatever the framing and whatever the bytes, a frame that decode finds is
\* cut out of the buffer: DecodeFrame drains no more bytes than there are.
LEMMA DecodeFits ==
    ASSUME NEW framing \in Framings, NEW b \in Seq(Byte), Decode(framing, b).found = "frame"
    PROVE  Fits(Decode(framing, b), b)
<1>1. CASE framing \in DOMAIN Delimiter
  <2>1. Decode(framing, b) = DecodeDelimited(Delimiter[framing], b)
    BY <1>1 DEF Decode, Delimiter
  <2>2. QED
    BY <2>1, DelimitedFits
<1>2. CASE framing = "netstring"
  <2>1. framing \notin DOMAIN Delimiter
    BY <1>2 DEF Delimiter
  <2>2. Decode(framing, b) = DecodeNetstring(b)
    BY <1>2, <2>1 DEF Decode
  <2>3. QED
    BY <2>2, NetstringFits
<1>3. CASE framing = "content_length"
  <2>1. framing \notin DOMAIN Delimiter
    BY <1>3 DEF Delimiter
  <2>2. Decode(framing, b) = DecodeContentLength(b)
    BY <1>3, <2>1 DEF Decode
  <2>3. QED
    BY <2>2, ContentLengthFits
<1>4. QED
  BY <1>1, <1>2, <1>3 DEF Framings

-----------------------------------------------------------------------------
(* The bytes of a buffer that are data.                                    *)

\* The recursion of Data has a solution.
LEMMA DataDef ==
    ASSUME NEW b \in Seq(Byte)
    PROVE  \E d \in [0..Len(b) -> Seq(Byte)] :
              /\ d[0] = <<>>
              /\ \A k \in 1..Len(b) : d[k] = IF b[k] = NUL THEN d[k - 1] ELSE Append(d[k - 1], b[k])
              /\ Data(b) = d[Len(b)]
<1> DEFINE L == Len(b)
           S == Seq(Byte)
           F(d) == [k \in 0..L |-> IF k = 0 THEN <<>>
                                   ELSE IF b[k] = NUL THEN d[k - 1] ELSE Append(d[k - 1], b[k])]
           G == [n \in Nat |-> [h \in [Nat -> S] |->
                    IF n = 0 \/ n > L THEN <<>>
                    ELSE IF b[n] = NUL THEN h[n - 1] ELSE Append(h[n - 1], b[n])]]
<1>1. L \in Nat /\ <<>> \in S /\ \A k \in 1..L : b[k] \in Byte
  OBVIOUS
<1>2. \A s \in S, x \in Byte : Append(s, x) \in S
  OBVIOUS
<1>3. Data(b) = (CHOOSE d : d = F(d))[L]
  BY DEF Data
<1> HIDE DEF S, L
<1>4. \A n \in Nat, h \in [Nat -> S] : n # 0 => n - 1 \in Nat /\ h[n - 1] \in S
  OBVIOUS
<1>5. G \in Rules(S)
  BY <1>1, <1>2, <1>4 DEF Rules
<1>6. LooksBack(G, S)
  <2>1. ASSUME NEW n \in Nat, NEW h \in [Nat -> S], NEW k \in [Nat -> S],
               \A m \in Nat : m < n => h[m] = k[m]
        PROVE  G[n][h] = G[n][k]
    <3>1. n # 0 => n - 1 \in Nat /\ n - 1 < n
      OBVIOUS
    <3>2. n # 0 => h[n - 1] = k[n - 1]
      BY <2>1, <3>1
    <3>3. QED
      BY <3>2
  <2>2. QED
    BY <2>1 DEF LooksBack
<1>7. PICK f : f \in [Nat -> S] /\ \A n \in Nat : f[n] = G[n][f]
  <2> HIDE DEF G
  <2>1. PICK f : Solves(f, G, S)
    BY <1>1, <1>5, <1>6, Recursion
  <2>2. QED
    BY <2>1 DEF Solves
<1> DEFINE e == [k \in 0..L |-> f[k]]
<1>8. e = F(e)
  <2>1. ASSUME NEW k \in 0..L PROVE e[k] = F(e)[k]
    <3>1. k \in Nat /\ ~(k > L)
      BY <1>1
    <3>2. f[k] = IF k = 0 THEN <<>> ELSE IF b[k] = NUL THEN f[k - 1] ELSE Append(f[k - 1], b[k])
      BY <1>7, <3>1
    <3>3. k # 0 => k - 1 \in 0..L
      BY <1>1
    <3>4. QED
      BY <3>1, <3>2, <3>3
  <2>2. QED
    BY <2>1
<1> DEFINE d == CHOOSE d : d = F(d)
<1> HIDE DEF e, G
<1>9. d = F(d)
  <2> HIDE DEF F
  <2>1. QED
    BY <1>8
<1> HIDE DEF d
<1>10. d[0] = <<>> /\ \A k \in 1..L : d[k] = IF b[k] = NUL THEN d[k - 1] ELSE Append(d[k - 1], b[k])
  <2>1. 0 \in 0..L /\ \A k \in 1..L : k \in 0..L /\ k # 0
    BY <1>1
  <2>2. QED
    BY <1>9, <2>1
<1> DEFINE T == {n \in Nat : n <= L => d[n] \in S}
<1>11. 0 \in T
  BY <1>1, <1>10
<1>12. ASSUME NEW n \in T PROVE n + 1 \in T
  <2>1. n \in Nat /\ (n + 1) - 1 = n /\ (n <= L => d[n] \in S)
    OBVIOUS
  <2>2. SUFFICES ASSUME n + 1 <= L PROVE d[n + 1] \in S
    BY <2>1
  <2>3. n + 1 \in 1..L /\ n <= L
    BY <1>1, <2>1, <2>2
  <2>4. QED
    BY <1>1, <1>2, <1>10, <2>1, <2>3
<1>13. T = Nat
  <2> HIDE DEF T
  <2>1. T \in SUBSET Nat
    BY DEF T
  <2>2. QED
    BY <1>11, <1>12, <2>1, Induction
<1>14. d = [k \in 0..L |-> d[k]]
  BY <1>9
<1>15. \A k \in 0..L : d[k] \in S
  BY <1>1, <1>13
<1>16. d \in [0..L -> S]
  BY <1>14, <1>15
<1>17. QED
  BY <1>3, <1>10, <1>16 DEF d, S, L

\* Data are bytes.
LEMMA DataIsData == \A b \in Seq(Byte) : Data(b) \in Seq(Byte)
<1> SUFFICES ASSUME NEW b \in Seq(Byte) PROVE Data(b) \in Seq(Byte)
  OBVIOUS
<1>1. PICK d \in [0..Len(b) -> Seq(Byte)] : Data(b) = d[Len(b)]
  BY DataDef
<1>2. Len(b) \in 0..Len(b)
  OBVIOUS
<1>3. QED
  BY <1>1, <1>2

\* The data of two sequences one after the other.
LEMMA DataOfConcat ==
    ASSUME NEW b \in Seq(Byte), NEW c \in Seq(Byte)
    PROVE  Data(b \o c) = Data(b) \o Data(c)
<1> DEFINE S == Seq(Byte)
           bc == b \o c
           L == Len(b)
           M == Len(c)
<1>1. /\ bc \in Seq(Byte) /\ Len(bc) = L + M /\ L \in Nat /\ M \in Nat
      /\ \A k \in 1..L : bc[k] = b[k] /\ b[k] \in Byte
      /\ \A k \in 1..M : bc[L + k] = c[k] /\ c[k] \in Byte
  OBVIOUS
<1>2. PICK d \in [0..L -> S] :
          /\ d[0] = <<>>
          /\ \A k \in 1..L : d[k] = IF b[k] = NUL THEN d[k - 1] ELSE Append(d[k - 1], b[k])
          /\ Data(b) = d[L]
  BY DataDef
<1>3. PICK e \in [0..M -> S] :
          /\ e[0] = <<>>
          /\ \A k \in 1..M : e[k] = IF c[k] = NUL THEN e[k - 1] ELSE Append(e[k - 1], c[k])
          /\ Data(c) = e[M]
  BY DataDef
<1>4. PICK f \in [0..(L + M) -> S] :
          /\ f[0] = <<>>
          /\ \A k \in 1..(L + M) : f[k] = IF bc[k] = NUL THEN f[k - 1] ELSE Append(f[k - 1], bc[k])
          /\ Data(bc) = f[L + M]
  <2> HIDE DEF bc
  <2>1. QED
    BY <1>1, DataDef
<1>5. \A s \in S, t \in S, x \in Byte : s \o Append(t, x) = Append(s \o t, x)
  OBVIOUS
<1>6. \A s \in S : s \o <<>> = s
  OBVIOUS
<1> HIDE DEF S, L, M, bc
<1> DEFINE T == {k \in Nat : k <= L => f[k] = d[k]}
           Q(k) == f[L + k] = d[L] \o e[k]
           U == {k \in Nat : k <= M => Q(k)}
<1>7. L \in T
  <2>1. 0 \in T
    BY <1>2, <1>4
  <2>2. ASSUME NEW k \in T PROVE k + 1 \in T
    <3>1. k \in Nat /\ (k + 1) - 1 = k /\ (k <= L => f[k] = d[k])
      OBVIOUS
    <3>2. SUFFICES ASSUME k + 1 <= L PROVE f[k + 1] = d[k + 1]
      BY <3>1
    <3>3. k + 1 \in 1..L /\ k + 1 \in 1..(L + M) /\ k <= L
      BY <1>1, <3>1, <3>2
    <3>4. d[k + 1] = IF b[k + 1] = NUL THEN d[k] ELSE Append(d[k], b[k + 1])
      BY <1>2, <3>1, <3>3
    <3>5. f[k + 1] = IF bc[k + 1] = NUL THEN f[k] ELSE Append(f[k], bc[k + 1])
      BY <1>4, <3>1, <3>3
    <3>6. f[k] = d[k] /\ bc[k + 1] = b[k + 1]
      BY <1>1, <3>1, <3>3
    <3>7. QED
      BY <3>4, <3>5, <3>6
  <2> HIDE DEF T
  <2>3. T \in SUBSET Nat
    BY DEF T
  <2>4. QED
    BY <1>1, <2>1, <2>2, <2>3, Induction
<1>8. f[L] = d[L] /\ d[L] \in S
  BY <1>1, <1>7
<1>9. M \in U
  <2>1. 0 \in U
    <3>1. L + 0 = L
      BY <1>1
    <3>2. Q(0)
      BY <1>3, <1>6, <1>8, <3>1
    <3> HIDE DEF Q
    <3>3. QED
      BY <3>2
  <2>2. ASSUME NEW k \in U PROVE k + 1 \in U
    <3> HIDE DEF Q
    <3>1. k \in Nat /\ (k + 1) - 1 = k /\ (k <= M => Q(k))
      OBVIOUS
    <3>2. SUFFICES ASSUME k + 1 <= M PROVE Q(k + 1)
      BY <3>1
    <3>3. /\ k + 1 \in 1..M /\ L + (k + 1) \in 1..(L + M) /\ k <= M /\ k \in 0..M
          /\ (L + (k + 1)) - 1 = L + k
      BY <1>1, <3>1, <3>2
    <3>4. e[k] \in S /\ e[k + 1] = IF c[k + 1] = NUL THEN e[k] ELSE Append(e[k], c[k + 1])
      BY <1>3, <3>1, <3>3
    <3>5. f[L + (k + 1)] = IF c[k + 1] = NUL THEN f[L + k] ELSE Append(f[L + k], c[k + 1])
      BY <1>1, <1>4, <3>3
    <3>6. f[L + k] = d[L] \o e[k] /\ c[k + 1] \in Byte
      BY <1>1, <3>1, <3>3 DEF Q
    <3>7. QED
      BY <1>5, <1>8, <3>4, <3>5, <3>6 DEF Q
  <2> HIDE DEF U, Q
  <2>3. U \in SUBSET Nat
    BY DEF U
  <2>4. QED
    BY <1>1, <2>1, <2>2, <2>3, Induction
<1>10. f[L + M] = d[L] \o e[M]
  BY <1>1, <1>9
<1>11. QED
  BY <1>2, <1>3, <1>4, <1>10 DEF bc

\* Bytes that are zero are no data.
LEMMA DataOfZeros ==
    ASSUME NEW n \in Nat
    PROVE  Zeros(n) \in Seq(Byte) /\ Len(Zeros(n)) = n /\ Data(Zeros(n)) = <<>>
<1> DEFINE z == Zeros(n)
<1>1. z \in Seq(Byte) /\ Len(z) = n /\ \A k \in 1..n : z[k] = NUL
  BY DEF Zeros, NUL, Byte
<1> HIDE DEF z
<1>2. PICK d \in [0..n -> Seq(Byte)] :
          d[0] = <<>> /\ (\A k \in 1..n : d[k] = d[k - 1]) /\ Data(z) = d[n]
  BY <1>1, DataDef
<1> DEFINE T == {k \in Nat : k <= n => d[k] = <<>>}
<1>3. 0 \in T
  BY <1>2
<1>4. ASSUME NEW k \in T PROVE k + 1 \in T
  <2>1. k \in Nat /\ (k + 1) - 1 = k /\ (k <= n => d[k] = <<>>) /\ (k + 1 <= n => k + 1 \in 1..n /\ k <= n)
    OBVIOUS
  <2>2. QED
    BY <1>2, <2>1
<1>5. n \in T
  <2> HIDE DEF T
  <2>1. T \in SUBSET Nat
    BY DEF T
  <2>2. QED
    BY <1>3, <1>4, <2>1, Induction
<1>6. QED
  BY <1>1, <1>2, <1>5 DEF z

-----------------------------------------------------------------------------
(* What the peer writes.                                                   *)

\* The bytes that are decimal digits.
Digits == 48..57

\* The recursion of Decimal has a solution, made of digits.
LEMMA DecimalDef ==
    /\ \A n \in Nat : Decimal[n] \in Seq(Digits)
    /\ \A n \in Nat : Decimal[n] = IF n < 10 THEN <<48 + n>>
                                   ELSE Append(Decimal[n \div 10], 48 + (n % 10))
<1> DEFINE S == Seq(Digits)
           F(d) == [n \in Nat |-> IF n < 10 THEN <<48 + n>> ELSE Append(d[n \div 10], 48 + (n % 10))]
           G == [n \in Nat |-> [h \in [Nat -> S] |->
                    IF n < 10 THEN <<48 + n>> ELSE Append(h[n \div 10], 48 + (n % 10))]]
<1>1. S # {} /\ \A n \in Nat : n < 10 => <<48 + n>> \in S
  <2>1. \A n \in Nat : n < 10 => 48 + n \in Digits
    BY DEF Digits
  <2>2. \A x \in Digits : <<x>> \in S
    OBVIOUS
  <2>3. <<>> \in S
    OBVIOUS
  <2>4. QED
    BY <2>1, <2>2, <2>3
<1>2. \A s \in S, x \in Digits : Append(s, x) \in S
  OBVIOUS
<1>3. \A n \in Nat : n \div 10 \in Nat /\ 48 + (n % 10) \in Digits /\ (n >= 10 => n \div 10 < n)
  BY DEF Digits
<1> HIDE DEF S
<1>4. G \in Rules(S)
  <2>1. ASSUME NEW n \in Nat, NEW h \in [Nat -> S]
        PROVE  (IF n < 10 THEN <<48 + n>> ELSE Append(h[n \div 10], 48 + (n % 10))) \in S
    <3>1. h[n \div 10] \in S
      BY <1>3
    <3>2. QED
      BY <1>1, <1>2, <1>3, <3>1
  <2>2. QED
    BY <2>1 DEF Rules
<1>5. LooksBack(G, S)
  <2>1. ASSUME NEW n \in Nat, NEW h \in [Nat -> S], NEW k \in [Nat -> S],
               \A m \in Nat : m < n => h[m] = k[m]
        PROVE  G[n][h] = G[n][k]
    <3>1. n >= 10 => h[n \div 10] = k[n \div 10]
      BY <1>3, <2>1
    <3>2. n < 10 \/ n >= 10
      OBVIOUS
    <3>3. QED
      BY <3>1, <3>2
  <2>2. QED
    BY <2>1 DEF LooksBack
<1>6. PICK f : f \in [Nat -> S] /\ \A n \in Nat : f[n] = G[n][f]
  <2> HIDE DEF G
  <2>1. PICK f : Solves(f, G, S)
    BY <1>1, <1>4, <1>5, Recursion
  <2>2. QED
    BY <2>1 DEF Solves
<1>7. f = F(f)
  <2>1. \A n \in Nat : f[n] = F(f)[n]
    BY <1>6
  <2>2. QED
    BY <1>6, <2>1
<1>8. Decimal = F(Decimal)
  <2>1. Decimal = CHOOSE d : d = F(d)
    BY DEF Decimal
  <2> HIDE DEF F
  <2>2. QED
    BY <1>7, <2>1
<1>9. \A n \in Nat : Decimal[n] = IF n < 10 THEN <<48 + n>>
                                  ELSE Append(Decimal[n \div 10], 48 + (n % 10))
  BY <1>8
<1> DEFINE T == {n \in Nat : \A m \in Nat : m <= n => Decimal[m] \in S}
<1>10. 0 \in T
  <2>1. \A m \in Nat : m <= 0 => m < 10
    OBVIOUS
  <2>2. \A m \in Nat : m <= 0 => Decimal[m] \in S
    BY <1>1, <1>9, <2>1
  <2>3. QED
    BY <2>2
<1>11. ASSUME NEW n \in T PROVE n + 1 \in T
  <2>1. n \in Nat /\ \A m \in Nat : m <= n => Decimal[m] \in S
    OBVIOUS
  <2>2. ASSUME NEW m \in Nat, m = n + 1 PROVE Decimal[m] \in S
    <3>1. CASE m < 10
      BY <1>1, <1>9, <3>1
    <3>2. CASE ~(m < 10)
      <4>1. m \div 10 \in Nat /\ m \div 10 <= n
        BY <1>3, <2>1, <2>2, <3>2
      <4>2. Decimal[m \div 10] \in S
        BY <2>1, <4>1
      <4>3. QED
        BY <1>2, <1>3, <1>9, <3>2, <4>2
    <3>3. QED
      BY <3>1, <3>2
  <2>3. \A m \in Nat : m <= n + 1 => m <= n \/ m = n + 1
    BY <2>1
  <2>4. QED
    BY <2>1, <2>2, <2>3
<1>12. T = Nat
  <2> HIDE DEF T
  <2>1. T \in SUBSET Nat
    BY DEF T
  <2>2. QED
    BY <1>10, <1>11, <2>1, Induction
<1>13. \A n \in Nat : Decimal[n] \in S
  BY <1>12
<1>14. QED
  BY <1>9, <1>13 DEF S

\* An encoded payload is bytes.
LEMMA EncodeIsBytes ==
    ASSUME NEW framing \in Framings, NEW p \in Seq(Byte)
    PROVE  Encode(framing, p) \in Seq(Byte)
<1>1. \A n \in Nat : Decimal[n] \in Seq(Byte)
  <2>1. Digits \subseteq Byte
    BY DEF Digits, Byte
  <2>2. QED
    BY <2>1, DecimalDef, SeqOfMore
<1>2. {NUL, LF, CR, SPACE, COMMA, COLON, CONTENT_LENGTH} \subseteq Byte
  BY DEF NUL, LF, CR, SPACE, COMMA, COLON, CONTENT_LENGTH, Byte
<1>3. CASE framing \in DOMAIN Delimiter
  <2>1. Encode(framing, p) = Append(p, Delimiter[framing]) /\ Delimiter[framing] \in Byte
    BY <1>2, <1>3 DEF Encode, Delimiter, EncodeDelimited
  <2>2. QED
    BY <2>1
<1>4. CASE framing = "netstring"
  <2>1. framing \notin DOMAIN Delimiter
    BY <1>4 DEF Delimiter
  <2>2. Encode(framing, p) = Decimal[Len(p)] \o <<COLON>> \o p \o <<COMMA>>
    BY <1>4, <2>1 DEF Encode, EncodeNetstring
  <2>3. <<COLON>> \in Seq(Byte) /\ <<COMMA>> \in Seq(Byte) /\ Decimal[Len(p)] \in Seq(Byte)
    BY <1>1, <1>2
  <2>4. QED
    BY <2>2, <2>3
<1>5. CASE framing = "content_length"
  <2>1. framing \notin DOMAIN Delimiter
    BY <1>5 DEF Delimiter
  <2>2. Encode(framing, p) = Name \o <<COLON, SPACE>> \o Decimal[Len(p)] \o BlankLine \o p
    BY <1>5, <2>1 DEF Encode, EncodeContentLength
  <2>3. /\ Name \in Seq(Byte) /\ <<COLON, SPACE>> \in Seq(Byte) /\ Decimal[Len(p)] \in Seq(Byte)
        /\ BlankLine \in Seq(Byte)
    BY <1>1, <1>2 DEF Name, BlankLine
  <2>4. QED
    BY <2>2, <2>3
<1>6. QED
  BY <1>3, <1>4, <1>5 DEF Framings

\* No payload is encoded as nothing.
LEMMA EncodeIsLong ==
    ASSUME NEW framing \in Framings, NEW p \in Seq(Byte)
    PROVE  Len(Encode(framing, p)) > 0
<1>1. CASE framing \in DOMAIN Delimiter
  <2>1. Encode(framing, p) = Append(p, Delimiter[framing])
    BY <1>1 DEF Encode, EncodeDelimited, Delimiter
  <2>2. QED
    BY <2>1
<1>2. CASE framing \notin DOMAIN Delimiter
  <2>1. Decimal[Len(p)] \in Seq(Byte)
    <3>1. Digits \subseteq Byte /\ Len(p) \in Nat
      BY DEF Digits, Byte
    <3>2. QED
      BY <3>1, DecimalDef, SeqOfMore
  <2>2. <<COLON>> \in Seq(Byte) /\ <<COMMA>> \in Seq(Byte) /\ Name \in Seq(Byte) /\ BlankLine \in Seq(Byte)
        /\ <<COLON, SPACE>> \in Seq(Byte)
    BY DEF Name, BlankLine, COLON, COMMA, SPACE, CONTENT_LENGTH, CR, LF, Byte
  <2>3. CASE framing = "netstring"
    <3> DEFINE s == (Decimal[Len(p)] \o <<COLON>>) \o p
    <3>1. s \in Seq(Byte)
      BY <2>1, <2>2, Joined
    <3>2. Encode(framing, p) = s \o <<COMMA>>
      BY <1>2, <2>3 DEF Encode, EncodeNetstring
    <3> HIDE DEF s
    <3>3. QED
      BY <2>2, <3>1, <3>2
  <2>4. CASE framing = "content_length"
    <3> DEFINE s == ((Name \o <<COLON, SPACE>>) \o Decimal[Len(p)]) \o BlankLine
               r == (Name \o <<COLON, SPACE>>) \o Decimal[Len(p)]
    <3>1. r \in Seq(Byte)
      BY <2>1, <2>2, Joined
    <3>2. s = r \o BlankLine /\ Encode(framing, p) = s \o p
      BY <1>2, <2>4 DEF Encode, EncodeContentLength
    <3>3. Len(BlankLine) = 4
      BY DEF BlankLine
    <3> HIDE DEF s, r
    <3>4. s \in Seq(Byte) /\ Len(s) >= 4
      <4>1. s \in Seq(Byte) /\ Len(s) = Len(r) + 4
        BY <2>2, <3>1, <3>2, <3>3, Joined
      <4>2. Len(r) \in Nat
        BY <3>1
      <4>3. QED
        BY <4>1, <4>2
    <3>5. QED
      BY <3>2, <3>4, Joined
  <2>5. QED
    BY <1>2, <2>3, <2>4 DEF Framings
<1>3. QED
  BY <1>1, <1>2

\* The first n frames of a connection's stream.
Frames(c, n) == FlattenSeq([k \in 1..n |-> Encode(c.framing, c.sent[k])])

\* The frames of a connection, one after the other, and all of them.
LEMMA FramesDef ==
    ASSUME NEW c \in Connections
    PROVE  /\ Frames(c, 0) = <<>>
           /\ \A n \in 0..(Len(c.sent) - 1) :
                 Frames(c, n + 1) = Frames(c, n) \o Encode(c.framing, c.sent[n + 1])
           /\ \A n \in 0..Len(c.sent) : Frames(c, n) \in Seq(Byte)
           /\ Written(c) = Frames(c, Len(c.sent))
<1> DEFINE m == Len(c.sent)
           e(k) == Encode(c.framing, c.sent[k])
           s(n) == [k \in 1..n |-> e(k)]
<1>1. m \in Nat /\ DOMAIN c.sent = 1..m /\ \A k \in 1..m : e(k) \in Seq(Byte)
  <2>1. c.sent \in Seq(Seq(Byte)) /\ c.framing \in Framings
    BY ConnectionAssumption
  <2>2. QED
    BY <2>1, EncodeIsBytes
<1> HIDE DEF m, e
<1>2. Written(c) = Frames(c, m)
  BY <1>1 DEF Written, Frames, e
<1>3. Frames(c, 0) = <<>>
  <2>1. s(0) = <<>>
    OBVIOUS
  <2>2. QED
    BY <2>1 DEF Frames, e, FlattenSeq
<1>4. \A n \in 0..m : s(n) \in Seq(Seq(Byte)) /\ Len(s(n)) = n
  BY <1>1
<1>5. ASSUME NEW n \in 0..m, n # 0
      PROVE  \E f \in [1..n -> Seq(Byte)] :
                 /\ f[1] = e(1) /\ FlattenSeq(s(n)) = f[n]
                 /\ \A i \in 1..n : i # 1 => f[i] = f[i - 1] \o e(i)
  <2>1. s(n) # <<>> /\ s(n) \in Seq(Seq(Byte)) /\ Len(s(n)) = n /\ \A i \in 1..n : s(n)[i] = e(i)
    BY <1>4, <1>5
  <2> HIDE DEF s
  <2>2. PICK f \in [1..n -> Seq(Byte)] :
          /\ f[1] = s(n)[1]
          /\ \A i \in 1..n : i # 1 => f[i] = f[i - 1] \o s(n)[i]
          /\ FlattenSeq(s(n)) = f[n]
    <3> DEFINE q == s(n)
    <3> HIDE DEF q
    <3>1. q \in Seq(Seq(Byte)) /\ q # <<>> /\ Len(q) = n
      BY <2>1 DEF q
    <3>2. \E f \in [1..Len(q) -> Seq(Byte)] :
            /\ f[1] = q[1]
            /\ \A i \in 1..Len(q) : i # 1 => f[i] = f[i - 1] \o q[i]
            /\ FlattenSeq(q) = f[Len(q)]
      BY <3>1, FlattenDef
    <3>3. QED
      BY <3>1, <3>2 DEF q
  <2>3. 1 \in 1..n
    BY <1>1, <1>5
  <2>4. QED
    BY <2>1, <2>2, <2>3
<1>6. \A n \in 0..m : Frames(c, n) = FlattenSeq(s(n))
  BY DEF Frames, e
<1> HIDE DEF s
<1>7. ASSUME NEW n \in 0..m PROVE Frames(c, n) \in Seq(Byte)
  <2>1. CASE n = 0
    <3>1. <<>> \in Seq(Byte)
      OBVIOUS
    <3>2. QED
      BY <1>3, <2>1, <3>1
  <2>2. CASE n # 0
    <3>1. n \in 1..n
      BY <1>1, <2>2
    <3>2. QED
      BY <1>5, <1>6, <2>2, <3>1
  <2>3. QED
    BY <2>1, <2>2
<1>8. ASSUME NEW n \in 0..(m - 1) PROVE Frames(c, n + 1) = Frames(c, n) \o e(n + 1)
  <2>1. n + 1 \in 0..m /\ n + 1 # 0 /\ n \in 0..m /\ (n + 1) - 1 = n
    BY <1>1
  <2>2. PICK g \in [1..(n + 1) -> Seq(Byte)] :
          /\ g[1] = e(1) /\ FlattenSeq(s(n + 1)) = g[n + 1]
          /\ \A i \in 1..(n + 1) : i # 1 => g[i] = g[i - 1] \o e(i)
    BY <1>5, <2>1
  <2>3. CASE n = 0
    <3>1. Frames(c, 1) = e(1) /\ e(1) \in Seq(Byte)
      BY <1>1, <1>6, <2>1, <2>2, <2>3
    <3>2. <<>> \o e(1) = e(1)
      BY <3>1
    <3>3. QED
      BY <1>3, <2>3, <3>1, <3>2
  <2>4. CASE n # 0
    <3>1. PICK f \in [1..n -> Seq(Byte)] :
            /\ f[1] = e(1) /\ FlattenSeq(s(n)) = f[n]
            /\ \A i \in 1..n : i # 1 => f[i] = f[i - 1] \o e(i)
      BY <1>5, <2>1, <2>4
    <3> DEFINE T == {i \in Nat : i + 1 <= n => g[i + 1] = f[i + 1]}
    <3>2. 0 \in T
      BY <2>2, <3>1
    <3>3. ASSUME NEW i \in T PROVE i + 1 \in T
      <4>1. i \in Nat /\ (i + 1 <= n => g[i + 1] = f[i + 1])
        OBVIOUS
      <4>2. SUFFICES ASSUME (i + 1) + 1 <= n PROVE g[(i + 1) + 1] = f[(i + 1) + 1]
        BY <4>1
      <4>3. /\ (i + 1) + 1 \in 1..n /\ (i + 1) + 1 \in 1..(n + 1) /\ (i + 1) + 1 # 1
            /\ ((i + 1) + 1) - 1 = i + 1 /\ i + 1 <= n
        BY <2>1, <4>1, <4>2
      <4>4. g[(i + 1) + 1] = g[i + 1] \o e((i + 1) + 1)
        BY <2>2, <4>3
      <4>5. f[(i + 1) + 1] = f[i + 1] \o e((i + 1) + 1)
        BY <3>1, <4>3
      <4>6. QED
        BY <4>1, <4>3, <4>4, <4>5
    <3>4. T = Nat
      <4> HIDE DEF T
      <4>1. T \in SUBSET Nat
        BY DEF T
      <4>2. QED
        BY <3>2, <3>3, <4>1, Induction
    <3>5. g[n] = f[n]
      <4>1. n - 1 \in Nat /\ (n - 1) + 1 = n
        BY <2>1, <2>4
      <4>2. n - 1 \in T
        BY <3>4, <4>1
      <4>3. QED
        BY <4>1, <4>2
    <3>6. g[n + 1] = g[n] \o e(n + 1)
      <4>1. n + 1 \in 1..(n + 1) /\ n + 1 # 1
        BY <2>1, <2>4
      <4>2. QED
        BY <2>1, <2>2, <4>1
    <3>7. QED
      BY <1>6, <2>1, <2>2, <3>1, <3>5, <3>6
  <2>5. QED
    BY <2>3, <2>4
<1>9. QED
  BY <1>2, <1>3, <1>7, <1>8 DEF m, e

\* The stream of a connection is bytes.
LEMMA StreamIsBytes == \A c \in Connections : Written(c) \o c.rest \in Seq(Byte)
<1> SUFFICES ASSUME NEW c \in Connections PROVE Written(c) \o c.rest \in Seq(Byte)
  OBVIOUS
<1>1. c.rest \in Seq(Byte) /\ Len(c.sent) \in 0..Len(c.sent)
  BY ConnectionAssumption
<1>2. Written(c) \in Seq(Byte)
  BY <1>1, FramesDef
<1>3. QED
  BY <1>1, <1>2

\* After the first n frames the stream goes on with the next one.
LEMMA StreamFrom ==
    ASSUME NEW c \in Connections, NEW n \in 0..(Len(c.sent) - 1)
    PROVE  \E t \in Seq(Byte) :
              Written(c) \o c.rest = Frames(c, n) \o (Encode(c.framing, c.sent[n + 1]) \o t)
<1> DEFINE m == Len(c.sent)
           W == Written(c)
           From(k) == \E t \in Seq(Byte) : W = Frames(c, k) \o t
           T == {j \in Nat : j <= m => From(m - j)}
<1>1. /\ m \in Nat /\ c.rest \in Seq(Byte) /\ c.framing \in Framings
      /\ \A k \in 1..m : Encode(c.framing, c.sent[k]) \in Seq(Byte)
  <2>1. c.sent \in Seq(Seq(Byte)) /\ c.rest \in Seq(Byte) /\ c.framing \in Framings
    BY ConnectionAssumption
  <2>2. QED
    BY <2>1, EncodeIsBytes
<1> HIDE DEF m, W
<1>2. /\ W = Frames(c, m) /\ \A k \in 0..m : Frames(c, k) \in Seq(Byte)
      /\ \A k \in 0..(m - 1) : Frames(c, k + 1) = Frames(c, k) \o Encode(c.framing, c.sent[k + 1])
  BY FramesDef DEF m, W
<1>3. From(m)
  <2>1. Frames(c, m) \o <<>> = Frames(c, m) /\ <<>> \in Seq(Byte)
    BY <1>1, <1>2
  <2>2. QED
    BY <1>2, <2>1
<1>4. ASSUME NEW k \in 0..(m - 1), From(k + 1)
      PROVE  \E t \in Seq(Byte) : W = Frames(c, k) \o (Encode(c.framing, c.sent[k + 1]) \o t)
  <2>1. PICK t \in Seq(Byte) : W = Frames(c, k + 1) \o t
    BY <1>4
  <2>2. k \in 0..m /\ k + 1 \in 1..m
    BY <1>1
  <2>3. Frames(c, k) \in Seq(Byte) /\ Encode(c.framing, c.sent[k + 1]) \in Seq(Byte)
    BY <1>1, <1>2, <2>2
  <2>4. W = (Frames(c, k) \o Encode(c.framing, c.sent[k + 1])) \o t
    BY <1>2, <2>1
  <2>5. W = Frames(c, k) \o (Encode(c.framing, c.sent[k + 1]) \o t)
    BY <2>3, <2>4, Regroup
  <2>6. QED
    BY <2>5
<1>5. ASSUME NEW k \in 0..(m - 1), From(k + 1) PROVE From(k)
  <2>1. PICK t \in Seq(Byte) : W = Frames(c, k) \o (Encode(c.framing, c.sent[k + 1]) \o t)
    BY <1>4, <1>5
  <2>2. k + 1 \in 1..m
    BY <1>1
  <2>3. Encode(c.framing, c.sent[k + 1]) \o t \in Seq(Byte)
    BY <1>1, <2>2, Joined
  <2>4. QED
    BY <2>1, <2>3
<1> HIDE DEF From
<1>6. 0 \in T
  BY <1>1, <1>3
<1>7. ASSUME NEW j \in T PROVE j + 1 \in T
  <2>1. j \in Nat /\ (j <= m => From(m - j))
    OBVIOUS
  <2>2. SUFFICES ASSUME j + 1 <= m PROVE From(m - (j + 1))
    BY <2>1
  <2>3. m - (j + 1) \in 0..(m - 1) /\ (m - (j + 1)) + 1 = m - j /\ j <= m
    BY <1>1, <2>1, <2>2
  <2>4. QED
    BY <1>5, <2>1, <2>3
<1>8. T = Nat
  <2> HIDE DEF T
  <2>1. T \in SUBSET Nat
    BY DEF T
  <2>2. QED
    BY <1>6, <1>7, <2>1, Induction
<1>9. n \in 0..(m - 1)
  BY DEF m
<1>10. From(n + 1)
  <2>1. m - (n + 1) \in Nat /\ m - (n + 1) <= m /\ m - (m - (n + 1)) = n + 1
    BY <1>1, <1>9
  <2> HIDE DEF T
  <2>2. m - (n + 1) \in T
    BY <1>8, <2>1
  <2>3. From(m - (m - (n + 1)))
    BY <2>1, <2>2 DEF T
  <2>4. QED
    BY <2>1, <2>3
<1>11. PICK t \in Seq(Byte) : W = Frames(c, n) \o (Encode(c.framing, c.sent[n + 1]) \o t)
  BY <1>4, <1>9, <1>10
<1>12. n \in 0..m /\ n + 1 \in 1..m
  BY <1>1, <1>9
<1>13. Frames(c, n) \in Seq(Byte) /\ Encode(c.framing, c.sent[n + 1]) \in Seq(Byte)
  BY <1>1, <1>2, <1>12
<1>14. (Frames(c, n) \o (Encode(c.framing, c.sent[n + 1]) \o t)) \o c.rest
         = Frames(c, n) \o (Encode(c.framing, c.sent[n + 1]) \o (t \o c.rest))
  <2>1. Encode(c.framing, c.sent[n + 1]) \o t \in Seq(Byte)
    BY <1>13, Joined
  <2> DEFINE f == Frames(c, n)
             e == Encode(c.framing, c.sent[n + 1])
  <2>2. f \in Seq(Byte) /\ e \in Seq(Byte) /\ e \o t \in Seq(Byte) /\ c.rest \in Seq(Byte)
    BY <1>1, <1>13, <2>1
  <2> HIDE DEF f, e
  <2>3. (f \o (e \o t)) \o c.rest = f \o ((e \o t) \o c.rest)
    BY ZenonT(30), <2>2, Regroup
  <2>4. (e \o t) \o c.rest = e \o (t \o c.rest)
    BY ZenonT(30), <2>2, Regroup
  <2>5. QED
    BY <2>3, <2>4 DEF f, e
<1>15. t \o c.rest \in Seq(Byte)
  BY <1>1, Joined
<1>16. QED
  BY <1>11, <1>14, <1>15 DEF W

-----------------------------------------------------------------------------
(* The bytes read, whatever the reads, the interruptions and the errors.   *)

\* The stream is the peer's; a pending read has grown the buffer by zero bytes.
Growing ==
    /\ stream = Written(conn) \o conn.rest
    /\ pc = "reading" => start \in 0..Len(buf) /\ buf = Kept \o Zeros(ChunkSize)

\* What the cap allows: a full buffer is not grown, and one that is decoded was
\* not rejected.
Bounded ==
    conn.cap > 0 =>
        /\ Len(buf) < conn.cap + ChunkSize
        /\ pc = "reading" => start < conn.cap
        /\ "too_big" \notin Tolerated /\ broken \subseteq {"io"} =>
               /\ pc = "recv" => Len(buf) <= conn.cap
               /\ \A k \in DOMAIN out : Len(out[k]) <= conn.cap

\* The inductive invariant of the buffer and the stream.
ReadInv == TypeOK /\ Growing /\ Bounded /\ NothingLostOrAdded

\* It holds before the first recv.
LEMMA ReadInit == Init => ReadInv
<1> SUFFICES ASSUME Init PROVE ReadInv
  OBVIOUS
<1>1. conn \in Connections /\ stream \in Seq(Byte) /\ stream = Written(conn) \o conn.rest
  BY StreamIsBytes DEF Init
<1>2. <<>> \in Seq(Byte) /\ <<>> \in Seq(Seq(Byte)) /\ Len(<<>>) = 0 /\ SubSeq(stream, 1, 0) = <<>>
      /\ <<>> \o <<>> = <<>> /\ DOMAIN <<>> = {}
  BY <1>1
<1>3. TypeOK
  BY <1>1, <1>2, CallerAssumption DEF Init, TypeOK, Errors
<1>4. Growing
  BY <1>1 DEF Init, Growing
<1>5. Bounded
  BY <1>1, <1>2, ConnectionAssumption, SizeAssumption DEF Init, Bounded
<1>6. NothingLostOrAdded
  BY <1>2 DEF Init, NothingLostOrAdded, Kept
<1>7. QED
  BY <1>3, <1>4, <1>5, <1>6 DEF ReadInv

\* The variables' ranges, but for where recv is.
LEMMA Ranges ==
    ASSUME ReadInv
    PROVE  /\ conn \in Connections /\ conn.framing \in Framings /\ conn.cap \in Nat
           /\ stream \in Seq(Byte) /\ buf \in Seq(Byte) /\ taken \in Seq(Byte) /\ Kept \in Seq(Byte)
           /\ ChunkSize \in Nat \ {0} /\ pos \in 0..Len(stream)
           /\ out \in Seq(Seq(Byte)) /\ broken \subseteq Interrupts
           /\ Zeros(ChunkSize) \in Seq(Byte) /\ Len(Zeros(ChunkSize)) = ChunkSize
           /\ pc = "recv" => Kept = buf
           /\ pc = "reading" => /\ start \in 0..Len(buf) /\ start \in Nat
                                /\ Kept = SubSeq(buf, 1, start) /\ Len(Kept) = start
                                /\ buf = Kept \o Zeros(ChunkSize) /\ Len(buf) = start + ChunkSize
<1>1. /\ conn \in Connections /\ conn.framing \in Framings /\ conn.cap \in Nat
      /\ stream \in Seq(Byte) /\ buf \in Seq(Byte) /\ taken \in Seq(Byte)
      /\ pos \in 0..Len(stream) /\ out \in Seq(Seq(Byte)) /\ broken \subseteq Interrupts
  BY StreamIsBytes, ConnectionAssumption DEF ReadInv, TypeOK, Growing
<1>2. /\ ChunkSize \in Nat \ {0}
      /\ Zeros(ChunkSize) \in Seq(Byte) /\ Len(Zeros(ChunkSize)) = ChunkSize
  BY SizeAssumption, DataOfZeros
<1>3. pc # "reading" => Kept = buf
  BY DEF Kept
<1>4. ASSUME pc = "reading"
      PROVE  /\ start \in 0..Len(buf) /\ start \in Nat /\ Kept \in Seq(Byte)
             /\ Kept = SubSeq(buf, 1, start) /\ Len(Kept) = start
             /\ buf = Kept \o Zeros(ChunkSize) /\ Len(buf) = start + ChunkSize
  <2>1. start \in 0..Len(buf) /\ buf = Kept \o Zeros(ChunkSize) /\ Kept = SubSeq(buf, 1, start)
    BY <1>4 DEF ReadInv, Growing, Kept
  <2>2. start \in Nat /\ Kept \in Seq(Byte) /\ Len(Kept) = start
    <3>1. start \in Nat
      BY <1>1, <2>1
    <3>2. SubSeq(buf, 1, start) \in Seq(Byte) /\ Len(SubSeq(buf, 1, start)) = start
      <4>1. \A b \in Seq(Byte) : \A n \in 0..Len(b) :
               SubSeq(b, 1, n) \in Seq(Byte) /\ Len(SubSeq(b, 1, n)) = n
        BY Parts
      <4>2. QED
        BY <1>1, <2>1, <4>1
    <3>3. QED
      BY <2>1, <3>1, <3>2
  <2>3. Len(Kept \o Zeros(ChunkSize)) = start + ChunkSize
    BY <1>2, <2>2
  <2>4. QED
    BY <2>1, <2>2, <2>3
<1>5. QED
  BY <1>1, <1>2, <1>3, <1>4

\* A frame is drained: what is taken and what is left are the buffer.
LEMMA DecodeFrameStep ==
    ASSUME ReadInv, pc = "recv", DecodeFrame(Decode(conn.framing, buf))
    PROVE  ReadInv'
<1> DEFINE found == Decode(conn.framing, buf)
           n == found.consumed
           front == SubSeq(buf, 1, n)
           back == SubSeq(buf, n + 1, Len(buf))
<1>1. conn \in Connections /\ conn.framing \in Framings /\ conn.cap \in Nat
      /\ buf \in Seq(Byte) /\ taken \in Seq(Byte) /\ out \in Seq(Seq(Byte)) /\ Kept = buf
  BY Ranges
<1>2. n \in 1..Len(buf) /\ found.msg \in Seq(Byte) /\ Len(found.msg) <= n
  BY <1>1, DecodeFits DEF DecodeFrame, Fits
<1>3. /\ front \in Seq(Byte) /\ back \in Seq(Byte) /\ front \o back = buf
      /\ Len(back) = Len(buf) - n
  <2>1. n \in 0..Len(buf) /\ n \in Nat
    BY <1>1, <1>2
  <2>2. front \in Seq(Byte) /\ back \in Seq(Byte) /\ front \o back = buf /\ Len(front) = n
    <3>1. \A k \in 0..Len(buf) :
             /\ SubSeq(buf, 1, k) \in Seq(Byte) /\ Len(SubSeq(buf, 1, k)) = k
             /\ SubSeq(buf, k + 1, Len(buf)) \in Seq(Byte)
             /\ SubSeq(buf, 1, k) \o SubSeq(buf, k + 1, Len(buf)) = buf
      BY <1>1, Parts
    <3> HIDE DEF n
    <3>2. QED
      BY <2>1, <3>1
  <2> HIDE DEF front, back, n
  <2>3. Len(front \o back) = Len(front) + Len(back)
    BY <2>2
  <2>4. QED
    BY <1>1, <2>1, <2>2, <2>3
<1>4. /\ out' = Append(out, found.msg) /\ taken' = taken \o front /\ buf' = back
      /\ Return("msg")
      /\ UNCHANGED <<conn, stream, pos, start, broken>>
  BY DEF DecodeFrame
<1> HIDE DEF found, n, front, back
<1>5. /\ pc' = "recv" /\ last' = "msg"
  BY <1>4 DEF Return, Errors
<1>6. TypeOK'
  <2>1. out' \in Seq(Seq(Byte)) /\ taken' \in Seq(Byte)
    BY <1>1, <1>2, <1>3, <1>4
  <2>2. QED
    BY <1>3, <1>4, <1>5, <2>1 DEF ReadInv, TypeOK, Errors
<1>7. Growing'
  BY <1>4, <1>5 DEF ReadInv, Growing
<1>8. Bounded'
  <2>1. conn.cap > 0 => Len(back) < conn.cap + ChunkSize /\ Len(back) <= Len(buf)
    BY <1>1, <1>2, <1>3, SizeAssumption DEF ReadInv, Bounded
  <2>2. ASSUME conn.cap > 0, "too_big" \notin Tolerated, broken \subseteq {"io"}
        PROVE  Len(buf) <= conn.cap /\ \A k \in DOMAIN out : Len(out[k]) <= conn.cap
    BY <2>2 DEF ReadInv, Bounded
  <2>3. ASSUME conn.cap > 0, "too_big" \notin Tolerated, broken \subseteq {"io"}
        PROVE  Len(back) <= conn.cap /\ \A k \in DOMAIN out' : Len(out'[k]) <= conn.cap
    <3>1. Len(found.msg) <= conn.cap /\ Len(back) <= conn.cap
      BY <1>1, <1>2, <1>3, <2>2, <2>3
    <3>2. ASSUME NEW k \in DOMAIN out' PROVE Len(out'[k]) <= conn.cap
      <4>1. (k \in DOMAIN out /\ out'[k] = out[k]) \/ out'[k] = found.msg
        BY <1>1, <1>2, <1>4
      <4>2. QED
        BY <2>2, <2>3, <3>1, <4>1
    <3>3. QED
      BY <3>1, <3>2
  <2>4. QED
    BY <1>4, <1>5, <2>1, <2>3 DEF Bounded
<1>9. NothingLostOrAdded'
  <2>1. Kept' = back
    BY <1>4, <1>5 DEF Kept
  <2>2. (taken \o front) \o back = taken \o buf
    BY <1>1, <1>3, Regroup
  <2>3. QED
    BY <1>1, <1>4, <2>1, <2>2 DEF ReadInv, NothingLostOrAdded
<1>10. QED
  BY <1>6, <1>7, <1>8, <1>9 DEF ReadInv

\* recv returns an error of decode's or fill's, and nothing moves.
LEMMA ErrorStep ==
    ASSUME ReadInv, pc = "recv", NEW found, DecodeError(found) \/ FillRefused(found)
    PROVE  ReadInv'
<1>1. /\ \E result \in {"frame", "too_big"} : Return(result)
      /\ UNCHANGED <<conn, stream, pos, buf, start, out, taken, broken>>
  BY DEF DecodeError, FillRefused
<1>2. PICK result \in {"frame", "too_big"} : Return(result)
  BY <1>1
<1>3. /\ last' \in {"none", "msg", "eof"} \cup Errors
      /\ pc' \in {"recv", "stopped"}
      /\ pc' = "stopped" <=> last' \in {"eof"} \cup (Errors \ Tolerated)
  BY <1>2 DEF Return, Errors
<1>4. TypeOK'
  BY <1>1, <1>3 DEF ReadInv, TypeOK
<1>5. Growing' /\ NothingLostOrAdded'
  BY <1>1, <1>3 DEF ReadInv, Growing, NothingLostOrAdded, Kept
<1>6. Bounded'
  BY <1>1, <1>3 DEF ReadInv, Bounded
<1>7. QED
  BY <1>4, <1>5, <1>6 DEF ReadInv

\* The buffer is grown by a chunk of zero bytes.
LEMMA BeginReadStep ==
    ASSUME ReadInv, pc = "recv", NEW found, BeginRead(found)
    PROVE  ReadInv'
<1>1. /\ start' = Len(buf) /\ buf' = buf \o Zeros(ChunkSize) /\ pc' = "reading" /\ ~AtCap
      /\ UNCHANGED <<conn, stream, pos, out, taken, last, broken>>
  BY DEF BeginRead
<1>2. /\ buf \in Seq(Byte) /\ taken \in Seq(Byte) /\ Kept = buf /\ conn.cap \in Nat
      /\ Zeros(ChunkSize) \in Seq(Byte) /\ Len(Zeros(ChunkSize)) = ChunkSize
      /\ ChunkSize \in Nat \ {0}
  BY Ranges
<1>3. buf' \in Seq(Byte) /\ Len(buf') = Len(buf) + ChunkSize /\ Len(buf) \in Nat
  <2>1. Len(buf) \in Nat
    BY <1>2
  <2>2. buf \o Zeros(ChunkSize) \in Seq(Byte) /\ Len(buf \o Zeros(ChunkSize)) = Len(buf) + ChunkSize
    BY <1>2, Joined
  <2>3. QED
    BY <1>1, <2>1, <2>2
<1>4. Kept' = buf
  BY <1>1, <1>2, FirstPart DEF Kept
<1>5. TypeOK'
  <2>1. start' \in 0..Len(buf')
    BY <1>1, <1>2, <1>3
  <2>2. pc' # "stopped" /\ last' \notin {"eof"} \cup (Errors \ Tolerated)
    BY <1>1 DEF ReadInv, TypeOK
  <2>3. QED
    BY <1>1, <1>3, <2>1, <2>2 DEF ReadInv, TypeOK
<1>6. Growing'
  <2>1. start' \in 0..Len(buf')
    BY <1>1, <1>2, <1>3
  <2>2. QED
    BY <1>1, <1>4, <2>1 DEF ReadInv, Growing
<1>7. NothingLostOrAdded'
  BY <1>1, <1>2, <1>4 DEF ReadInv, NothingLostOrAdded
<1>8. Bounded'
  <2>1. conn.cap > 0 => Len(buf) < conn.cap
    BY <1>1, <1>2, <1>3 DEF AtCap
  <2>2. conn.cap > 0 => Len(buf') < conn.cap + ChunkSize
    BY <1>2, <1>3, <2>1
  <2>3. QED
    BY <1>1, <2>1, <2>2 DEF ReadInv, Bounded
<1>9. QED
  BY <1>5, <1>6, <1>7, <1>8 DEF ReadInv

\* What arrived follows what was kept.
LEMMA ReadSomeStep ==
    ASSUME ReadInv, ReadSome
    PROVE  ReadInv'
<1>1. PICK n \in 1..ChunkSize :
          /\ pos + n <= Len(stream)
          /\ pos' = pos + n
          /\ buf' = SubSeq(buf, 1, start) \o SubSeq(stream, pos + 1, pos + n)
          /\ IF conn.cap > 0 /\ start + n > conn.cap
             THEN Return("too_big")
             ELSE pc' = "recv" /\ UNCHANGED last
  BY DEF ReadSome
<1>2. pc = "reading" /\ UNCHANGED <<conn, stream, start, out, taken, broken>>
  BY DEF ReadSome
<1>3. /\ stream \in Seq(Byte) /\ taken \in Seq(Byte) /\ Kept \in Seq(Byte) /\ conn.cap \in Nat
      /\ start \in Nat /\ Kept = SubSeq(buf, 1, start) /\ Len(Kept) = start
      /\ ChunkSize \in Nat \ {0} /\ pos \in 0..Len(stream)
  BY <1>2, Ranges
<1> DEFINE new == SubSeq(stream, pos + 1, pos + n)
           read == SubSeq(stream, 1, pos)
<1>4. /\ new \in Seq(Byte) /\ Len(new) = n /\ read \in Seq(Byte)
      /\ read \o new = SubSeq(stream, 1, pos + n)
  BY <1>1, <1>3, Parts
<1>5. buf' = Kept \o new
  BY <1>1, <1>3
<1> HIDE DEF new, read
<1>6. buf' \in Seq(Byte) /\ Len(buf') = start + n
  BY <1>3, <1>4, <1>5, Joined
<1>7. pc' \in {"recv", "stopped"}
  BY <1>1 DEF Return
<1>8. TypeOK'
  <2>1. pos' \in 0..Len(stream')
    BY <1>1, <1>2, <1>3
  <2>2. last' \in {"none", "msg", "eof"} \cup Errors
    BY <1>1 DEF Return, ReadInv, TypeOK, Errors
  <2>3. pc' = "stopped" <=> last' \in {"eof"} \cup (Errors \ Tolerated)
    BY <1>1, <1>2 DEF Return, ReadInv, TypeOK, Errors
  <2>4. QED
    BY <1>2, <1>6, <1>7, <2>1, <2>2, <2>3 DEF ReadInv, TypeOK
<1>9. Growing'
  BY <1>2, <1>7 DEF ReadInv, Growing
<1>10. Bounded'
  <2>1. conn.cap > 0 => start + n < conn.cap + ChunkSize
    BY <1>1, <1>2, <1>3 DEF ReadInv, Bounded
  <2>2. conn.cap > 0 /\ "too_big" \notin Tolerated /\ pc' = "recv" => start + n <= conn.cap
    BY <1>1, <1>3 DEF Return, Errors
  <2>3. QED
    BY <1>2, <1>6, <1>7, <2>1, <2>2 DEF ReadInv, Bounded
<1>11. NothingLostOrAdded'
  <2>1. Kept' = Kept \o new
    BY <1>5, <1>7 DEF Kept
  <2>2. taken \o (Kept \o new) = (taken \o Kept) \o new
    BY <1>3, <1>4, Regroup
  <2>3. taken \o Kept \in Seq(Byte)
    BY <1>3
  <2>4. /\ Data((taken \o Kept) \o new) = Data(taken \o Kept) \o Data(new)
        /\ Data(read \o new) = Data(read) \o Data(new)
    BY <1>4, <2>3, DataOfConcat
  <2>5. SubSeq(stream', 1, pos') = read \o new
    BY <1>1, <1>2, <1>4
  <2>6. Data(taken \o Kept) = Data(read) /\ (broken \subseteq {"io"} => taken \o Kept = read)
    BY DEF ReadInv, NothingLostOrAdded, read
  <2>7. Data(taken' \o Kept') = Data(SubSeq(stream', 1, pos'))
    BY <1>2, <2>1, <2>2, <2>4, <2>5, <2>6
  <2>8. broken' \subseteq {"io"} => taken' \o Kept' = SubSeq(stream', 1, pos')
    BY <1>2, <2>1, <2>2, <2>5, <2>6
  <2>9. QED
    BY <2>7, <2>8 DEF NothingLostOrAdded
<1>12. QED
  BY <1>8, <1>9, <1>10, <1>11 DEF ReadInv

\* At the end of the stream what is left over is taken, or it stays.
LEMMA ReadEofStep ==
    ASSUME ReadInv, ReadEof
    PROVE  ReadInv'
<1>1. pc = "reading" /\ pos = Len(stream) /\ UNCHANGED <<conn, stream, pos, start, broken>>
  BY DEF ReadEof
<1>2. /\ taken \in Seq(Byte) /\ Kept \in Seq(Byte) /\ conn.cap \in Nat /\ out \in Seq(Seq(Byte))
      /\ start \in Nat /\ Kept = SubSeq(buf, 1, start) /\ Len(Kept) = start
      /\ ChunkSize \in Nat \ {0}
  BY <1>1, Ranges
<1>3. /\ conn.cap > 0 => start < conn.cap
      /\ conn.cap > 0 /\ "too_big" \notin Tolerated /\ broken \subseteq {"io"} =>
             \A k \in DOMAIN out : Len(out[k]) <= conn.cap
  BY <1>1 DEF ReadInv, Bounded
<1>4. PICK result \in {"msg", "eof", "mid_frame"} : Return(result)
  BY DEF ReadEof
<1>5. /\ last' \in {"none", "msg", "eof"} \cup Errors
      /\ pc' \in {"recv", "stopped"}
      /\ pc' = "stopped" <=> last' \in {"eof"} \cup (Errors \ Tolerated)
  BY <1>4 DEF Return, Errors
<1>6. \/ out' = Append(out, Kept) /\ taken' = taken \o Kept /\ buf' = <<>>
      \/ out' = out /\ taken' = taken /\ buf' = Kept
  BY <1>2 DEF ReadEof
<1>7. <<>> \in Seq(Byte) /\ Len(<<>>) = 0 /\ taken \o Kept \in Seq(Byte)
      /\ (taken \o Kept) \o <<>> = taken \o Kept
  BY <1>2
<1>8. TypeOK'
  <2>1. out' \in Seq(Seq(Byte)) /\ taken' \in Seq(Byte) /\ buf' \in Seq(Byte)
    <3>1. Append(out, Kept) \in Seq(Seq(Byte))
      BY <1>2
    <3>2. QED
      BY <1>2, <1>6, <1>7, <3>1
  <2>2. QED
    BY <1>1, <1>5, <2>1 DEF ReadInv, TypeOK
<1>9. Growing'
  BY <1>1, <1>5 DEF ReadInv, Growing
<1>10. Bounded'
  <2>1. conn.cap > 0 => Len(buf') < conn.cap /\ Len(buf') < conn.cap + ChunkSize
    BY <1>2, <1>3, <1>6, <1>7
  <2>2. conn.cap > 0 /\ "too_big" \notin Tolerated /\ broken \subseteq {"io"} =>
             \A k \in DOMAIN out' : Len(out'[k]) <= conn.cap
    <3>1. \A k \in DOMAIN out' : (k \in DOMAIN out /\ out'[k] = out[k]) \/ out'[k] = Kept
      <4> DEFINE more == Append(out, Kept)
      <4>1. \A k \in DOMAIN more : (k \in DOMAIN out /\ more[k] = out[k]) \/ more[k] = Kept
        BY <1>2
      <4> HIDE DEF more
      <4>2. out' = more \/ out' = out
        BY <1>6 DEF more
      <4>3. QED
        BY <4>1, <4>2
    <3>2. QED
      BY <1>2, <1>3, <3>1
  <2>3. conn.cap > 0 => Len(buf') <= conn.cap
    <3>1. Len(buf') \in Nat
      BY <1>2, <1>6, <1>7
    <3>2. QED
      BY <1>2, <2>1, <3>1
  <2>4. QED
    BY <1>1, <1>5, <2>1, <2>2, <2>3 DEF Bounded
<1>11. NothingLostOrAdded'
  <2>1. Kept' = buf'
    BY <1>5 DEF Kept
  <2>2. taken' \o Kept' = taken \o Kept
    BY <1>6, <1>7, <2>1
  <2>3. QED
    BY <1>1, <2>2 DEF ReadInv, NothingLostOrAdded
<1>12. QED
  BY <1>8, <1>9, <1>10, <1>11 DEF ReadInv

\* A timeout or a dropped recv leaves the zero bytes of the grown buffer.
LEMMA InterruptStep ==
    ASSUME ReadInv, ReadTimeout \/ CancelRecv
    PROVE  ReadInv'
<1>1. /\ pc = "reading" /\ pc' \in {"recv", "stopped"}
      /\ UNCHANGED <<conn, stream, pos, buf, start, out, taken>>
  BY DEF ReadTimeout, CancelRecv, Return
<1>2. broken' \subseteq Interrupts /\ ~(broken' \subseteq {"io"})
  BY DEF ReadTimeout, CancelRecv, ReadInv, TypeOK
<1>3. /\ last' \in {"none", "msg", "eof"} \cup Errors
      /\ pc' = "stopped" <=> last' \in {"eof"} \cup (Errors \ Tolerated)
  BY DEF ReadTimeout, CancelRecv, Return, ReadInv, TypeOK, Errors
<1>4. /\ taken \in Seq(Byte) /\ Kept \in Seq(Byte) /\ buf = Kept \o Zeros(ChunkSize)
      /\ Zeros(ChunkSize) \in Seq(Byte) /\ ChunkSize \in Nat \ {0}
  BY <1>1, Ranges
<1>5. TypeOK'
  BY <1>1, <1>2, <1>3 DEF ReadInv, TypeOK
<1>6. Growing'
  BY <1>1 DEF ReadInv, Growing
<1>7. Bounded'
  BY <1>1, <1>2 DEF ReadInv, Bounded
<1>8. NothingLostOrAdded'
  <2>1. Kept' = buf
    BY <1>1 DEF Kept
  <2>2. taken \o buf = (taken \o Kept) \o Zeros(ChunkSize)
    BY <1>4, Regroup
  <2>3. taken \o Kept \in Seq(Byte)
    BY <1>4
  <2>4. Data((taken \o Kept) \o Zeros(ChunkSize)) = Data(taken \o Kept) \o <<>>
    BY <1>4, <2>3, DataOfConcat, DataOfZeros
  <2>5. Data(taken \o Kept) \in Seq(Byte)
    BY <2>3, DataIsData
  <2>6. Data(taken \o Kept) \o <<>> = Data(taken \o Kept)
    BY <2>5
  <2>7. Data(taken' \o Kept') = Data(taken \o Kept)
    BY <1>1, <2>1, <2>2, <2>4, <2>6
  <2>8. QED
    BY <1>1, <1>2, <2>7 DEF ReadInv, NothingLostOrAdded
<1>9. QED
  BY <1>5, <1>6, <1>7, <1>8 DEF ReadInv

\* A failed read leaves the buffer as it was.
LEMMA ReadFailStep ==
    ASSUME ReadInv, ReadFail
    PROVE  ReadInv'
<1>1. /\ pc = "reading" /\ buf' = SubSeq(buf, 1, start) /\ Return("io")
      /\ broken' = broken \cup {"io"} /\ "io" \in Interrupts
      /\ UNCHANGED <<conn, stream, pos, start, out, taken>>
  BY DEF ReadFail
<1>2. /\ last' = "io" /\ pc' \in {"recv", "stopped"}
      /\ pc' = "stopped" <=> last' \in {"eof"} \cup (Errors \ Tolerated)
  BY <1>1 DEF Return, Errors
<1>3. /\ Kept \in Seq(Byte) /\ Kept = SubSeq(buf, 1, start) /\ Len(Kept) = start /\ start \in Nat
      /\ ChunkSize \in Nat \ {0} /\ conn.cap \in Nat
  BY <1>1, Ranges
<1>4. TypeOK'
  BY <1>1, <1>2, <1>3 DEF ReadInv, TypeOK, Errors
<1>5. Growing'
  BY <1>1, <1>2 DEF ReadInv, Growing
<1>6. broken' \subseteq {"io"} <=> broken \subseteq {"io"}
  BY <1>1
<1>7. Bounded'
  <2>1. Len(buf') = start
    BY <1>1, <1>3
  <2>2. conn.cap > 0 => start < conn.cap /\ start < conn.cap + ChunkSize /\ start <= conn.cap
    BY <1>1, <1>3 DEF ReadInv, Bounded
  <2>3. QED
    BY <1>1, <1>2, <1>6, <2>1, <2>2 DEF ReadInv, Bounded
<1>8. NothingLostOrAdded'
  <2>1. Kept' = Kept
    BY <1>1, <1>2, <1>3 DEF Kept
  <2>2. QED
    BY <1>1, <1>6, <2>1 DEF ReadInv, NothingLostOrAdded
<1>9. QED
  BY <1>4, <1>5, <1>7, <1>8 DEF ReadInv

\* Every step keeps the invariant.
LEMMA ReadStep ==
    ASSUME ReadInv, [Next]_vars
    PROVE  ReadInv'
<1>1. CASE Recv
  BY <1>1, DecodeFrameStep, ErrorStep, BeginReadStep DEF Recv
<1>2. CASE Reading
  BY <1>2, ReadSomeStep, ReadEofStep DEF Reading
<1>3. CASE ReadTimeout \/ CancelRecv
  BY <1>3, InterruptStep
<1>4. CASE ReadFail
  BY <1>4, ReadFailStep
<1>5. CASE UNCHANGED vars
  BY <1>5 DEF vars, ReadInv, TypeOK, Growing, Bounded, NothingLostOrAdded, Kept
<1>6. QED
  BY <1>1, <1>2, <1>3, <1>4, <1>5 DEF Next, Stopped

\* What recv keeps invariant, whatever the sizes of the reads, the interruptions
\* and the errors that its caller tolerates.
THEOREM ReadInvariant == Spec => []ReadInv
BY ReadInit, ReadStep, PTL DEF Spec

\* recv stays in its ranges, and the caller stops at the end or at an error
\* that it does not tolerate.
THEOREM ReadTypes == Spec => []TypeOK
<1>1. ReadInv => TypeOK
  BY DEF ReadInv
<1>2. QED
  BY <1>1, ReadInvariant, PTL

\* fill, decode and the drain of recv neither lose nor add nor move a byte,
\* whatever the reads; an interrupted read adds zero bytes only.
THEOREM BytesNeitherLostNorAdded == Spec => []NothingLostOrAdded
<1>1. ReadInv => NothingLostOrAdded
  BY DEF ReadInv
<1>2. QED
  BY <1>1, ReadInvariant, PTL

\* with_max_frame_size bounds the frames, and the buffer.
THEOREM CapBoundsFrames == Spec => []CapHolds
<1>1. ReadInv => CapHolds
  BY DEF ReadInv, Bounded, CapHolds
<1>2. QED
  BY <1>1, ReadInvariant, PTL

-----------------------------------------------------------------------------
(* What Decode finds of what Encode wrote.                                 *)

\* The numbers that Parse makes of the digits of s, from the front.
Values(s, v) ==
    /\ v \in [0..Len(s) -> Int]
    /\ v[0] = 0
    /\ \A k \in 1..Len(s) : v[k] = 10 * v[k - 1] + s[k] - 48

\* The recursion of Parse has a solution.
LEMMA ParseDef ==
    ASSUME NEW s \in Seq(Digits), s # <<>>
    PROVE  \E v : Values(s, v) /\ Parse(s) = {v[Len(s)]} \cap (0..MaxUsize)
<1> DEFINE L == Len(s)
           F(v) == [k \in 0..L |-> IF k = 0 THEN 0 ELSE 10 * v[k - 1] + s[k] - 48]
           G == [n \in Nat |-> [h \in [Nat -> Int] |->
                    IF n = 0 \/ n > L THEN 0 ELSE 10 * h[n - 1] + s[n] - 48]]
           v == CHOOSE v : v = F(v)
<1>1. L \in Nat /\ L # 0 /\ DOMAIN s = 1..L /\ \A k \in 1..L : s[k] \in Digits /\ s[k] \in Int
  BY DEF Digits
<1>2. Parse(s) = {v[L]} \cap (0..MaxUsize)
  <2>1. s[1] # PLUS /\ \A k \in DOMAIN s : s[k] \in 48..57
    BY <1>1 DEF Digits, PLUS
  <2>2. QED
    BY <2>1 DEF Parse
<1> HIDE DEF L, v
<1>3. G \in Rules(Int)
  <2>1. ASSUME NEW n \in Nat, NEW h \in [Nat -> Int]
        PROVE  (IF n = 0 \/ n > L THEN 0 ELSE 10 * h[n - 1] + s[n] - 48) \in Int
    <3>1. CASE n = 0 \/ n > L
      BY <3>1
    <3>2. CASE ~(n = 0 \/ n > L)
      <4>1. n \in 1..L /\ n - 1 \in Nat
        BY <1>1, <3>2
      <4>2. QED
        BY <1>1, <3>2, <4>1
    <3>3. QED
      BY <3>1, <3>2
  <2>2. QED
    BY <2>1 DEF Rules
<1>4. LooksBack(G, Int)
  <2>1. ASSUME NEW n \in Nat, NEW h \in [Nat -> Int], NEW k \in [Nat -> Int],
               \A m \in Nat : m < n => h[m] = k[m]
        PROVE  G[n][h] = G[n][k]
    <3>1. n # 0 => n - 1 \in Nat /\ n - 1 < n
      OBVIOUS
    <3>2. n # 0 => h[n - 1] = k[n - 1]
      BY <2>1, <3>1
    <3>3. QED
      BY <3>2
  <2>2. QED
    BY <2>1 DEF LooksBack
<1>5. PICK f : f \in [Nat -> Int] /\ \A n \in Nat : f[n] = G[n][f]
  <2> HIDE DEF G
  <2>1. PICK f : Solves(f, G, Int)
    BY <1>3, <1>4, Recursion
  <2>2. QED
    BY <2>1 DEF Solves
<1> DEFINE e == [k \in 0..L |-> f[k]]
<1>6. e = F(e)
  <2>1. ASSUME NEW k \in 0..L PROVE e[k] = F(e)[k]
    <3>1. k \in Nat /\ ~(k > L) /\ (k # 0 => k - 1 \in 0..L)
      BY <1>1
    <3>2. f[k] = IF k = 0 THEN 0 ELSE 10 * f[k - 1] + s[k] - 48
      BY <1>5, <3>1
    <3>3. QED
      BY <3>1, <3>2
  <2>2. QED
    BY <2>1
<1> HIDE DEF e, G
<1>7. v = F(v)
  <2> HIDE DEF F
  <2>1. QED
    BY <1>6 DEF v
<1>8. v[0] = 0 /\ \A k \in 1..L : v[k] = 10 * v[k - 1] + s[k] - 48
  <2>1. 0 \in 0..L /\ \A k \in 1..L : k \in 0..L /\ k # 0
    BY <1>1
  <2>2. QED
    BY <1>7, <2>1
<1> DEFINE T == {n \in Nat : n <= L => v[n] \in Int}
<1>9. 0 \in T
  BY <1>8
<1>10. ASSUME NEW n \in T PROVE n + 1 \in T
  <2>1. n \in Nat /\ (n + 1) - 1 = n /\ (n <= L => v[n] \in Int)
    OBVIOUS
  <2>2. SUFFICES ASSUME n + 1 <= L PROVE v[n + 1] \in Int
    BY <2>1
  <2>3. n + 1 \in 1..L /\ n <= L
    BY <1>1, <2>1, <2>2
  <2>4. v[n + 1] = 10 * v[n] + s[n + 1] - 48
    BY <1>8, <2>1, <2>3
  <2>5. QED
    BY <1>1, <2>1, <2>3, <2>4
<1>11. T = Nat
  <2> HIDE DEF T
  <2>1. T \in SUBSET Nat
    BY DEF T
  <2>2. QED
    BY <1>9, <1>10, <2>1, Induction
<1>12. \A k \in 0..L : v[k] \in Int
  BY <1>1, <1>11
<1>13. v = [k \in 0..L |-> v[k]]
  BY <1>7
<1>14. v \in [0..L -> Int]
  BY <1>12, <1>13
<1>15. Values(s, v)
  BY <1>8, <1>14 DEF Values, L
<1>16. QED
  BY <1>2, <1>15 DEF L

\* A number's digits have its value.
LEMMA ValueOfDecimal ==
    \A n \in Nat : \A v : Values(Decimal[n], v) => v[Len(Decimal[n])] = n
<1> DEFINE Right(n) == \A v : Values(Decimal[n], v) => v[Len(Decimal[n])] = n
           T == {n \in Nat : \A m \in Nat : m <= n => Right(m)}
<1>1. ASSUME NEW n \in Nat, n < 10 PROVE Right(n)
  <2>1. Decimal[n] = <<48 + n>>
    BY <1>1, DecimalDef
  <2>2. SUFFICES ASSUME NEW v, Values(<<48 + n>>, v) PROVE v[1] = n
    BY <2>1
  <2>3. v[1] = 10 * v[0] + (48 + n) - 48 /\ v[0] = 0
    BY <2>2 DEF Values
  <2>4. QED
    BY <2>3
<1>2. ASSUME NEW n \in Nat, n >= 10, Right(n \div 10) PROVE Right(n)
  <2> DEFINE q == Decimal[n \div 10]
             x == 48 + (n % 10)
             L == Len(q)
  <2>1. n \div 10 \in Nat /\ n % 10 \in 0..9 /\ n = 10 * (n \div 10) + (n % 10)
    OBVIOUS
  <2>2. Decimal[n] = Append(q, x) /\ q \in Seq(Digits)
    <3>1. ~(n < 10)
      BY <1>2
    <3>2. Decimal[n \div 10] \in Seq(Digits)
      BY <2>1, DecimalDef
    <3>3. QED
      BY <3>1, <3>2, DecimalDef
  <2>3. x \in Int /\ L \in Nat
    BY <2>1, <2>2
  <2> HIDE DEF q, x
  <2>4. SUFFICES ASSUME NEW v, Values(Append(q, x), v) PROVE v[L + 1] = n
    BY <2>2
  <2>5. /\ Len(Append(q, x)) = L + 1 /\ Append(q, x)[L + 1] = x
        /\ \A k \in 1..L : Append(q, x)[k] = q[k]
    BY <2>2
  <2>6. /\ v \in [0..(L + 1) -> Int] /\ v[0] = 0
        /\ \A k \in 1..(L + 1) : v[k] = 10 * v[k - 1] + Append(q, x)[k] - 48
    BY <2>4, <2>5 DEF Values
  <2> HIDE DEF L
  <2> DEFINE w == [k \in 0..L |-> v[k]]
  <2>7. Values(q, w)
    <3>1. w \in [0..L -> Int] /\ w[0] = 0
      BY <2>3, <2>6
    <3>2. ASSUME NEW k \in 1..L PROVE w[k] = 10 * w[k - 1] + q[k] - 48
      <4>1. k \in 1..(L + 1) /\ k \in 0..L /\ k - 1 \in 0..L
        BY <2>3
      <4>2. v[k] = 10 * v[k - 1] + q[k] - 48
        BY <2>5, <2>6, <4>1
      <4>3. QED
        BY <4>1, <4>2
    <3>3. QED
      BY <3>1, <3>2 DEF Values, L
  <2>8. w[L] = n \div 10
    BY <1>2, <2>7 DEF q, L
  <2>9. L + 1 \in 1..(L + 1) /\ (L + 1) - 1 = L /\ w[L] = v[L]
    BY <2>3
  <2>10. v[L + 1] = 10 * v[L] + x - 48
    BY <2>5, <2>6, <2>9
  <2>11. v[L + 1] = 10 * (n \div 10) + (48 + (n % 10)) - 48
    BY <2>8, <2>9, <2>10 DEF x
  <2>12. QED
    BY <2>1, <2>11
<1> HIDE DEF Right
<1>3. 0 \in T
  BY <1>1
<1>4. ASSUME NEW n \in T PROVE n + 1 \in T
  <2>1. n \in Nat /\ \A m \in Nat : m <= n => Right(m)
    OBVIOUS
  <2>2. Right(n + 1)
    <3>1. CASE n + 1 < 10
      BY <1>1, <2>1, <3>1
    <3>2. CASE n + 1 >= 10
      <4>1. (n + 1) \div 10 \in Nat /\ (n + 1) \div 10 <= n
        BY <2>1, <3>2
      <4>2. QED
        BY <1>2, <2>1, <3>2, <4>1
    <3>3. QED
      BY <2>1, <3>1, <3>2
  <2>3. \A m \in Nat : m <= n + 1 => m <= n \/ m = n + 1
    BY <2>1
  <2>4. QED
    BY <2>1, <2>2, <2>3
<1>5. T = Nat
  <2> HIDE DEF T
  <2>1. T \in SUBSET Nat
    BY DEF T
  <2>2. QED
    BY <1>3, <1>4, <2>1, Induction
<1>6. QED
  <2>1. ASSUME NEW n \in Nat PROVE Right(n)
    <3> HIDE DEF T
    <3>1. n \in T
      BY <1>5
    <3>2. QED
      BY <3>1 DEF T
  <2>2. QED
    BY <2>1 DEF Right

\* What is written as a number is read as that number, if it is a usize.
LEMMA DecimalRoundTrip == \A n \in Nat : Parse(Decimal[n]) = {n} \cap (0..MaxUsize)
<1> SUFFICES ASSUME NEW n \in Nat PROVE Parse(Decimal[n]) = {n} \cap (0..MaxUsize)
  OBVIOUS
<1>1. Decimal[n] \in Seq(Digits) /\ Decimal[n] # <<>>
  <2>1. n \div 10 \in Nat
    OBVIOUS
  <2>2. Decimal[n \div 10] \in Seq(Digits) /\ Decimal[n] \in Seq(Digits)
    BY <2>1, DecimalDef
  <2>3. <<48 + n>> # <<>> /\ Append(Decimal[n \div 10], 48 + (n % 10)) # <<>>
    BY <2>2
  <2>4. QED
    BY <2>2, <2>3, DecimalDef
<1>2. PICK v : Values(Decimal[n], v) /\ Parse(Decimal[n]) = {v[Len(Decimal[n])]} \cap (0..MaxUsize)
  BY <1>1, ParseDef
<1>3. QED
  BY <1>2, ValueOfDecimal

\* b is the beginning of the stream w.
Begins(b, w) == Len(b) <= Len(w) /\ \A k \in 1..Len(b) : b[k] = w[k]

\* Where a byte first occurs behind a sequence without it.
LEMMA FirstPlace ==
    ASSUME NEW b \in Seq(Byte), NEW d \in Byte, NEW m \in 1..Len(b), b[m] = d,
           \A k \in 1..(m - 1) : b[k] # d
    PROVE  Places(d, b) # {} /\ Min(Places(d, b)) = m
<1> DEFINE P == Places(d, b)
<1>1. P \in SUBSET Nat /\ m \in P /\ \A k \in P : k \in 1..Len(b) /\ b[k] = d
  BY DEF Places
<1> HIDE DEF P
<1>2. Min(P) \in P /\ Min(P) <= m
  BY <1>1, MinIsLeast
<1>3. Min(P) \in Nat /\ Min(P) >= 1 /\ m \in Nat
  <2>1. Min(P) \in 1..Len(b)
    BY <1>1, <1>2
  <2>2. QED
    BY <2>1
<1>4. ~(Min(P) \in 1..(m - 1))
  BY <1>1, <1>2
<1>5. Min(P) = m
  BY <1>2, <1>3, <1>4
<1>6. QED
  BY <1>1, <1>5 DEF P

\* A frame is found as soon as its delimiter is there, and it is the payload.
LEMMA DelimitedRoundTrip ==
    ASSUME NEW p \in Seq(Byte), NEW d \in Byte, NEW t \in Seq(Byte), NEW b \in Seq(Byte),
           Places(d, p) = {}, Begins(b, EncodeDelimited(d, p) \o t)
    PROVE  DecodeDelimited(d, b) = IF Len(b) > Len(p) THEN Frame(p, Len(p) + 1) ELSE NeedsMore
<1> DEFINE n == Len(p)
           w == EncodeDelimited(d, p) \o t
<1>1. n \in Nat /\ Len(b) \in Nat /\ \A k \in 1..n : p[k] # d
  BY DEF Places
<1>2. \A k \in 1..n : w[k] = p[k]
  <2>1. EncodeDelimited(d, p) \in Seq(Byte) /\ Len(EncodeDelimited(d, p)) = n + 1
        /\ \A k \in 1..n : EncodeDelimited(d, p)[k] = p[k]
    BY DEF EncodeDelimited
  <2>2. 1..n \subseteq 1..(n + 1)
    BY <1>1
  <2>3. QED
    BY <2>1, <2>2, PlacesOfConcat
<1>3. w[n + 1] = d
  <2>1. EncodeDelimited(d, p) \in Seq(Byte) /\ Len(EncodeDelimited(d, p)) = n + 1
        /\ EncodeDelimited(d, p)[n + 1] = d
    BY DEF EncodeDelimited
  <2>2. n + 1 \in 1..(n + 1)
    BY <1>1
  <2>3. QED
    BY <2>1, <2>2, PlacesOfConcat
<1>4. Len(b) <= Len(w) /\ \A k \in 1..Len(b) : b[k] = w[k]
  BY DEF Begins
<1> HIDE DEF w
<1>5. CASE Len(b) > n
  <2>1. n + 1 \in 1..Len(b) /\ \A k \in 1..n : k \in 1..Len(b)
    BY <1>1, <1>5
  <2>2. b[n + 1] = d /\ \A k \in 1..((n + 1) - 1) : b[k] # d
    BY <1>1, <1>2, <1>3, <1>4, <2>1
  <2>3. Places(d, b) # {} /\ Min(Places(d, b)) = n + 1
    <3> DEFINE m == n + 1
    <3>1. m \in 1..Len(b) /\ b[m] = d /\ \A k \in 1..(m - 1) : b[k] # d
      BY <2>1, <2>2
    <3> HIDE DEF m
    <3>2. Places(d, b) # {} /\ Min(Places(d, b)) = m
      BY <3>1, FirstPlace
    <3>3. QED
      BY <3>2 DEF m
  <2>4. SubSeq(b, 1, n) = p
    <3>1. \A k \in 1..Len(p) : b[0 + k] = p[k]
      BY <1>1, <1>2, <1>4, <2>1
    <3>2. SubSeq(b, 0 + 1, 0 + Len(p)) = p
      BY <1>1, <1>5, <3>1, SameCut
    <3>3. 0 + 1 = 1 /\ 0 + Len(p) = n
      BY <1>1
    <3>4. QED
      BY <3>2, <3>3
  <2>5. (n + 1) - 1 = n
    BY <1>1
  <2>6. QED
    BY <1>5, <2>3, <2>4, <2>5 DEF DecodeDelimited
<1>6. CASE ~(Len(b) > n)
  <2>1. \A k \in 1..Len(b) : k \in 1..n
    BY <1>1, <1>6
  <2>2. Places(d, b) = {}
    BY <1>1, <1>2, <1>4, <2>1 DEF Places
  <2>3. QED
    BY <1>6, <2>2 DEF DecodeDelimited
<1>7. QED
  BY <1>5, <1>6

\* A netstring is found when it is complete, and it is the payload.
LEMMA NetstringRoundTrip ==
    ASSUME NEW p \in Seq(Byte), NEW t \in Seq(Byte), NEW b \in Seq(Byte),
           Begins(b, EncodeNetstring(p) \o t), DecodeNetstring(b).found = "frame"
    PROVE  DecodeNetstring(b) = Frame(p, Len(EncodeNetstring(p)))
<1> DEFINE n == Len(p)
           D == Decimal[n]
           L == Len(D)
           w == EncodeNetstring(p) \o t
           P == Places(COLON, b)
           length == Parse(SubSeq(b, 1, Min(P) - 1))
           end == Min(P) + (CHOOSE x \in length : TRUE)
<1>1. n \in Nat /\ L \in Nat /\ D \in Seq(Byte) /\ \A k \in 1..L : D[k] # COLON
  <2>1. D \in Seq(Digits) /\ Digits \subseteq Byte /\ COLON \notin Digits
    BY DecimalDef DEF Digits, Byte, COLON
  <2>2. QED
    BY <2>1, SeqOfMore
<1>2. COLON \in Byte /\ <<COLON>> \in Seq(Byte) /\ <<COMMA>> \in Seq(Byte)
  BY DEF COLON, COMMA, Byte
<1> HIDE DEF D, L
<1>3. /\ \A k \in 1..L : w[k] = D[k]
      /\ w[L + 1] = COLON
      /\ \A k \in 1..n : w[L + 1 + k] = p[k]
      /\ Len(EncodeNetstring(p)) = L + n + 2
  <2> DEFINE head == D \o <<COLON>>
             body == head \o p
             whole == body \o <<COMMA>>
  <2>1. head \in Seq(Byte) /\ body \in Seq(Byte) /\ whole \in Seq(Byte) /\ w = whole \o t
        /\ EncodeNetstring(p) = whole
    <3>1. head \in Seq(Byte)
      BY <1>1, <1>2, Joined
    <3>2. body \in Seq(Byte)
      BY <3>1, Joined
    <3>3. whole \in Seq(Byte)
      BY <1>2, <3>2, Joined
    <3>4. QED
      BY <3>1, <3>2, <3>3 DEF EncodeNetstring, D
  <2>2. /\ Len(head) = L + 1 /\ head[L + 1] = COLON
        /\ \A k \in 1..L : head[k] = D[k]
    BY <1>1, <1>2, PlacesOfConcat DEF L
  <2> HIDE DEF head
  <2>3. /\ Len(body) = L + 1 + n
        /\ \A k \in 1..(L + 1) : body[k] = head[k]
        /\ \A k \in 1..n : body[L + 1 + k] = p[k]
    <3>1. /\ Len(body) = Len(head) + n
          /\ \A k \in 1..Len(head) : body[k] = head[k]
          /\ \A k \in 1..n : body[Len(head) + k] = p[k]
      BY <2>1, PlacesOfConcat
    <3>2. QED
      BY <2>2, <3>1
  <2> HIDE DEF body
  <2>4. /\ Len(whole) = L + n + 2
        /\ \A k \in 1..(L + 1 + n) : whole[k] = body[k]
    <3>1. Len(whole) = Len(body) + Len(<<COMMA>>) /\ \A k \in 1..Len(body) : whole[k] = body[k]
      BY <1>2, <2>1, PlacesOfConcat
    <3>2. Len(<<COMMA>>) = 1 /\ L + 1 + n + 1 = L + n + 2
      BY <1>1
    <3>3. QED
      BY <2>3, <3>1, <3>2
  <2> HIDE DEF whole
  <2>5. \A k \in 1..(L + n + 2) : w[k] = whole[k]
    BY <2>1, <2>4, PlacesOfConcat
  <2>6. /\ \A k \in 1..L : k \in 1..(L + 1) /\ k \in 1..(L + 1 + n) /\ k \in 1..(L + n + 2)
        /\ L + 1 \in 1..(L + 1) /\ L + 1 \in 1..(L + 1 + n) /\ L + 1 \in 1..(L + n + 2)
        /\ \A k \in 1..n : L + 1 + k \in 1..(L + 1 + n) /\ L + 1 + k \in 1..(L + n + 2)
    BY <1>1
  <2>7. QED
    BY <2>1, <2>2, <2>3, <2>4, <2>5, <2>6
<1>4. Len(b) <= Len(w) /\ \A k \in 1..Len(b) : b[k] = w[k]
  BY DEF Begins
<1> HIDE DEF w
<1>5. /\ P # {} /\ length # {} /\ ~(Len(b) <= end)
      /\ DecodeNetstring(b) = Frame(SubSeq(b, Min(P) + 1, end), end + 1)
  <2>1. NeedsMore.found = "more" /\ FrameError.found = "error"
    BY DEF NeedsMore, FrameError
  <2>2. QED
    BY <2>1 DEF DecodeNetstring
<1>6. Len(b) > L
  <2>1. SUFFICES ASSUME Len(b) <= L PROVE FALSE
    BY <1>1
  <2>2. \A k \in 1..Len(b) : k \in 1..L
    BY <1>1, <2>1
  <2>3. P = {}
    BY <1>1, <1>3, <1>4, <2>2 DEF Places
  <2>4. QED
    BY <1>5, <2>3
<1>7. Min(P) = L + 1
  <2> DEFINE m == L + 1
  <2>1. m \in 1..Len(b) /\ b[m] = COLON /\ \A k \in 1..(m - 1) : b[k] # COLON
    <3>1. m \in 1..Len(b) /\ \A k \in 1..(m - 1) : k \in 1..L /\ k \in 1..Len(b)
      BY <1>1, <1>6
    <3>2. QED
      BY <1>1, <1>3, <1>4, <3>1
  <2> HIDE DEF m
  <2>2. Min(Places(COLON, b)) = m
    BY <1>2, <2>1, FirstPlace
  <2>3. QED
    BY <2>2 DEF m
<1>8. SubSeq(b, 1, Min(P) - 1) = D
  <2>1. \A k \in 1..L : b[0 + k] = D[k]
    BY <1>1, <1>3, <1>4, <1>6
  <2>2. 0 + L <= Len(b)
    BY <1>1, <1>6
  <2>3. SubSeq(b, 0 + 1, 0 + L) = D
    BY <1>1, <2>1, <2>2, SameCut DEF L
  <2>4. 0 + 1 = 1 /\ 0 + L = L /\ (L + 1) - 1 = L
    BY <1>1
  <2>5. QED
    BY <1>7, <2>3, <2>4
<1>9. (CHOOSE x \in length : TRUE) = n
  <2>1. length \subseteq {n}
    BY <1>1, <1>8, DecimalRoundTrip DEF D
  <2> HIDE DEF length
  <2>2. QED
    BY <1>5, <2>1
<1>10. end = L + 1 + n
  BY <1>7, <1>9
<1>11. SubSeq(b, (L + 1) + 1, (L + 1) + n) = p
  <2>1. (L + 1) + n <= Len(b)
    BY <1>1, <1>5, <1>10
  <2>2. \A k \in 1..n : (L + 1) + k \in 1..Len(b)
    BY <1>1, <2>1
  <2>3. \A k \in 1..n : b[(L + 1) + k] = p[k]
    BY <1>1, <1>3, <1>4, <2>2
  <2>4. L + 1 \in Nat
    BY <1>1
  <2>5. QED
    BY <2>1, <2>3, <2>4, SameCut
<1>12. QED
  <2>1. end + 1 = L + n + 2
    BY <1>1, <1>10
  <2>2. SubSeq(b, Min(P) + 1, end) = p
    BY <1>7, <1>10, <1>11
  <2>3. QED
    BY <1>3, <1>5, <2>1, <2>2

\* The header that Encode writes, of a name and a number, is one line, and
\* announces the number.
LEMMA HeaderAnnounces ==
    ASSUME NEW n \in Nat, NEW h \in Seq(Byte), Len(h) = 3 + Len(Decimal[n]),
           h[1] = CONTENT_LENGTH, h[2] = COLON, h[3] = SPACE,
           \A k \in 1..Len(Decimal[n]) : h[3 + k] = Decimal[n][k]
    PROVE  Announced(SplitCrlf(h)) \subseteq {n}
<1> DEFINE D == Decimal[n]
           L == Len(D)
<1>1. L \in Nat /\ D \in Seq(Byte) /\ \A k \in 1..L : D[k] \in Digits
  <2>1. D \in Seq(Digits) /\ Digits \subseteq Byte
    BY DecimalDef DEF Digits, Byte
  <2>2. QED
    BY <2>1, SeqOfMore
<1>2. Len(h) = 3 + L /\ \A k \in 1..L : h[3 + k] = D[k]
  OBVIOUS
<1>3. Parse(D) \subseteq {n}
  BY DecimalRoundTrip
<1> HIDE DEF D, L
<1>4. \A k \in 1..Len(h) : k = 1 \/ k = 2 \/ k = 3 \/ (k - 3 \in 1..L /\ h[k] = D[k - 3])
  <2>1. ASSUME NEW k \in 1..Len(h), k > 3 PROVE k - 3 \in 1..L /\ h[k] = D[k - 3]
    <3>1. k - 3 \in 1..L /\ 3 + (k - 3) = k
      BY <1>1, <1>2, <2>1
    <3>2. QED
      BY <1>2, <3>1
  <2>2. QED
    BY <2>1
<1>5. \A k \in 1..Len(h) : h[k] # LF /\ h[k] # CR /\ (k # 2 => h[k] # COLON)
  <2>1. \A x \in Digits : x # LF /\ x # CR /\ x # COLON
    BY DEF Digits, LF, CR, COLON
  <2>2. \A x \in {CONTENT_LENGTH, COLON, SPACE} : x # LF /\ x # CR
    BY DEF LF, CR, COLON, SPACE, CONTENT_LENGTH
  <2>3. CONTENT_LENGTH # COLON /\ SPACE # COLON
    BY DEF COLON, SPACE, CONTENT_LENGTH
  <2>4. QED
    BY <1>1, <1>4, <2>1, <2>2, <2>3
<1>6. SplitCrlf(h) = {<<1, h>>}
  <2>1. Places(LF, h) = {}
    BY <1>5 DEF Places
  <2>2. {1} \cup {k + 1 : k \in Places(LF, h)} = {1}
    BY <2>1
  <2>3. Min({k \in Places(LF, h) : k >= 1} \cup {Len(h) + 1}) = Len(h) + 1
    <3>1. {k \in Places(LF, h) : k >= 1} \cup {Len(h) + 1} = {Len(h) + 1}
      BY <2>1
    <3>2. Len(h) + 1 \in Nat
      BY <1>1, <1>2
    <3>3. QED
      BY <3>1, <3>2, MinOfOne
  <2>4. /\ h[(Len(h) + 1) - 1] # CR /\ (Len(h) + 1) - 1 = Len(h) /\ SubSeq(h, 1, Len(h)) = h
        /\ h # <<>>
    <3>1. Len(h) \in 1..Len(h) /\ (Len(h) + 1) - 1 = Len(h)
      BY <1>1, <1>2
    <3>2. QED
      BY <1>5, <3>1, SubSeqFull
  <2> DEFINE starts == {1} \cup {k + 1 : k \in Places(LF, h)}
             stop(s) == Min({k \in Places(LF, h) : k >= s} \cup {Len(h) + 1})
             line(s) == IF stop(s) > s /\ h[stop(s) - 1] = CR THEN SubSeq(h, s, stop(s) - 2)
                        ELSE SubSeq(h, s, stop(s) - 1)
  <2>5. SplitCrlf(h) = {l \in {<<s, line(s)>> : s \in starts} : l[2] # <<>>}
    BY DEF SplitCrlf
  <2>6. starts = {1} /\ stop(1) = Len(h) + 1
    BY <2>2, <2>3
  <2> HIDE DEF starts, stop
  <2>7. line(1) = h
    BY <2>4, <2>6
  <2> HIDE DEF line
  <2>8. {<<s, line(s)>> : s \in starts} = {<<1, h>>}
    BY <2>6, <2>7
  <2>9. QED
    BY <2>4, <2>5, <2>8
<1>7. Places(COLON, h) # {} /\ Min(Places(COLON, h)) = 2
  <2>1. 2 \in 1..Len(h) /\ \A k \in 1..(2 - 1) : k \in 1..Len(h) /\ k # 2
    BY <1>1, <1>2
  <2>2. \A k \in 1..(2 - 1) : h[k] # COLON
    BY <1>5, <2>1
  <2>3. COLON \in Byte
    BY DEF COLON, Byte
  <2>4. QED
    BY <2>1, <2>2, <2>3, FirstPlace
<1>8. ParseTrimmed(ValueOf(h)) \subseteq {n}
  <2> DEFINE s == SubSeq(h, 3, Len(h))
             kept == DOMAIN s \ Places(SPACE, s)
  <2>1. s \in Seq(Byte) /\ Len(s) = L + 1 /\ \A k \in 1..(L + 1) : s[k] = h[k + 2]
    <3>1. 3 \in 1..(Len(h) + 1) /\ Len(h) \in (3 - 1)..Len(h) /\ Len(h) + 1 - 3 = L + 1
      BY <1>1, <1>2
    <3>2. s \in Seq(Byte) /\ Len(s) = L + 1
      BY <3>1, CutOut
    <3>3. ASSUME NEW k \in 1..(L + 1) PROVE s[k] = h[k + 2]
      <4>1. k \in 1..(Len(h) - 3 + 1) /\ 3 + k - 1 = k + 2
        BY <1>1, <1>2
      <4>2. \A i \in 3..Len(h) : h[i] \in Byte
        BY <1>1, <1>2
      <4>3. s[k] = h[3 + k - 1]
        BY <1>2, <4>1
      <4>4. QED
        BY <4>1, <4>3
    <3>4. QED
      BY <3>2, <3>3
  <2>2. ValueOf(h) = s
    <3>1. 2 + 1 = 3
      OBVIOUS
    <3>2. QED
      BY <1>7, <3>1 DEF ValueOf
  <2> HIDE DEF s
  <2>3. s[1] = SPACE /\ \A k \in 1..L : s[k + 1] = D[k]
    <3>1. 1 \in 1..(L + 1) /\ 1 + 2 = 3
      BY <1>1
    <3>2. \A k \in 1..L : k + 1 \in 1..(L + 1) /\ (k + 1) + 2 = 3 + k
      BY <1>1
    <3>3. QED
      BY <1>2, <2>1, <3>1, <3>2
  <2>4. kept = 2..(L + 1)
    <3>1. ASSUME NEW k \in 2..(L + 1) PROVE s[k] # SPACE
      <4>1. k - 1 \in 1..L /\ (k - 1) + 1 = k
        BY <1>1
      <4>2. s[k] = D[k - 1]
        BY <2>3, <4>1
      <4>3. QED
        <5>1. \A x \in Digits : x # SPACE
          BY DEF Digits, SPACE
        <5>2. QED
          BY <1>1, <4>1, <4>2, <5>1
    <3>2. DOMAIN s = 1..(L + 1)
      BY <2>1
    <3>3. QED
      BY <1>1, <2>3, <3>1, <3>2 DEF Places
  <2>5. CASE kept = {}
    BY <2>2, <2>5 DEF ParseTrimmed
  <2>6. CASE kept # {}
    <3>1. L >= 1 /\ kept \in SUBSET Nat /\ \A x \in kept : x <= L + 1
      BY <1>1, <2>4, <2>6
    <3>2. 2 \in kept /\ L + 1 \in kept /\ L + 1 \in Nat
      BY <1>1, <2>4, <3>1
    <3> DEFINE first == Min(kept)
               final == Max(kept)
    <3>3. first \in kept /\ \A y \in kept : first <= y
      <4> HIDE DEF kept
      <4>1. QED
        BY <2>6, <3>1, MinIsLeast
    <3>4. final \in kept /\ \A y \in kept : y <= final
      <4> HIDE DEF kept
      <4>1. QED
        BY <2>6, <3>1, <3>2, MaxIsGreatest
    <3> HIDE DEF first, final, kept
    <3>5. first = 2 /\ final = L + 1
      <4>1. first \in 2..(L + 1) /\ first <= 2
        BY <2>4, <3>2, <3>3
      <4>2. final \in 2..(L + 1) /\ L + 1 <= final
        BY <2>4, <3>2, <3>4
      <4>3. QED
        BY <1>1, <4>1, <4>2
    <3>6. SubSeq(s, 2, L + 1) = D
      <4>1. 1 + Len(D) <= Len(s)
        BY <1>1, <2>1 DEF L
      <4>2. \A k \in 1..Len(D) : s[1 + k] = D[k]
        <5>1. \A k \in 1..L : k + 1 = 1 + k
          BY <1>1
        <5>2. QED
          BY <2>3, <5>1 DEF L
      <4>3. SubSeq(s, 1 + 1, 1 + Len(D)) = D
        BY <1>1, <2>1, <4>1, <4>2, SameCut
      <4>4. 1 + 1 = 2 /\ 1 + Len(D) = L + 1
        BY <1>1 DEF L
      <4>5. QED
        BY <4>3, <4>4
    <3>7. ParseTrimmed(s) = Parse(D)
      <4>1. ParseTrimmed(s) = UNION {Parse(x) : x \in {SubSeq(s, first, final)}}
        BY <2>6 DEF ParseTrimmed, first, final, kept
      <4>2. QED
        BY <3>5, <3>6, <4>1
    <3>8. QED
      BY <1>3, <2>2, <3>7
  <2>7. QED
    BY <2>5, <2>6
<1>9. Announced({<<1, h>>}) \subseteq ParseTrimmed(ValueOf(h))
  <2> SUFFICES ASSUME NEW x \in Announced({<<1, h>>}) PROVE x \in ParseTrimmed(ValueOf(h))
    OBVIOUS
  <2> DEFINE lines == {<<1, h>>}
             lengths == {<<l[1], ParseTrimmed(ValueOf(l[2]))>> :
                            l \in {m \in lines : NameOf(m[2]) = Name}}
  <2>1. \E l \in lengths : x \in l[2]
    BY DEF Announced
  <2>2. PICK l \in lines : x \in ParseTrimmed(ValueOf(l[2]))
    BY <2>1
  <2>3. QED
    BY <2>2
<1>10. QED
  BY <1>6, <1>8, <1>9

\* A Content-Length frame is found when it is complete, and it is the payload.
LEMMA ContentLengthRoundTrip ==
    ASSUME NEW p \in Seq(Byte), NEW t \in Seq(Byte), NEW b \in Seq(Byte),
           Begins(b, EncodeContentLength(p) \o t), DecodeContentLength(b).found = "frame"
    PROVE  DecodeContentLength(b) = Frame(p, Len(EncodeContentLength(p)))
<1> DEFINE n == Len(p)
           D == Decimal[n]
           L == Len(D)
           h == 3 + L
           w == EncodeContentLength(p) \o t
           H == FindHeaderEnd(b)
           headerEnd == Min(H) + 3
           ends == {headerEnd + x : x \in Announced(SplitCrlf(SubSeq(b, 1, headerEnd - 4)))}
<1>1. n \in Nat /\ L \in Nat /\ D \in Seq(Byte) /\ \A k \in 1..L : D[k] \in Digits
  <2>1. D \in Seq(Digits) /\ Digits \subseteq Byte
    BY DecimalDef DEF Digits, Byte
  <2>2. QED
    BY <2>1, SeqOfMore
<1>2. /\ Name \in Seq(Byte) /\ <<COLON, SPACE>> \in Seq(Byte) /\ BlankLine \in Seq(Byte)
      /\ Len(Name) = 1 /\ Len(<<COLON, SPACE>>) = 2 /\ Len(BlankLine) = 4
      /\ Name[1] = CONTENT_LENGTH /\ <<COLON, SPACE>>[1] = COLON /\ <<COLON, SPACE>>[2] = SPACE
  <2>1. {CONTENT_LENGTH, COLON, SPACE, CR, LF} \subseteq Byte
    BY DEF CONTENT_LENGTH, COLON, SPACE, CR, LF, Byte
  <2>2. QED
    BY <2>1 DEF Name, BlankLine
<1> HIDE DEF D, L
<1>3. /\ w[1] = CONTENT_LENGTH /\ w[2] = COLON /\ w[3] = SPACE
      /\ \A k \in 1..L : w[3 + k] = D[k]
      /\ \A k \in 1..4 : w[h + k] = BlankLine[k]
      /\ \A k \in 1..n : w[h + 4 + k] = p[k]
      /\ Len(EncodeContentLength(p)) = h + 4 + n
  <2> DEFINE s1 == Name \o <<COLON, SPACE>>
             s2 == s1 \o D
             s3 == s2 \o BlankLine
             s4 == s3 \o p
  <2>1. /\ s1 \in Seq(Byte) /\ s2 \in Seq(Byte) /\ s3 \in Seq(Byte) /\ s4 \in Seq(Byte)
        /\ w = s4 \o t /\ EncodeContentLength(p) = s4
    <3>1. s1 \in Seq(Byte)
      BY <1>2, Joined
    <3>2. s2 \in Seq(Byte)
      BY <1>1, <3>1, Joined
    <3>3. s3 \in Seq(Byte)
      BY <1>2, <3>2, Joined
    <3>4. s4 \in Seq(Byte)
      BY <3>3, Joined
    <3>5. QED
      BY <3>1, <3>2, <3>3, <3>4 DEF EncodeContentLength, D
  <2>2. Len(s1) = 3 /\ s1[1] = CONTENT_LENGTH /\ s1[2] = COLON /\ s1[3] = SPACE
    BY DEF Name
  <2> HIDE DEF s1
  <2>3. Len(s2) = h /\ (\A k \in 1..3 : s2[k] = s1[k]) /\ \A k \in 1..L : s2[3 + k] = D[k]
    <3>1. /\ Len(s2) = Len(s1) + Len(D)
          /\ \A k \in 1..Len(s1) : s2[k] = s1[k]
          /\ \A k \in 1..Len(D) : s2[Len(s1) + k] = D[k]
      BY <1>1, <2>1, PlacesOfConcat
    <3>2. QED
      BY <2>2, <3>1 DEF L
  <2> HIDE DEF s2
  <2>4. /\ Len(s3) = h + 4 /\ \A k \in 1..h : s3[k] = s2[k]
        /\ \A k \in 1..4 : s3[h + k] = BlankLine[k]
    <3>1. /\ Len(s3) = Len(s2) + Len(BlankLine)
          /\ \A k \in 1..Len(s2) : s3[k] = s2[k]
          /\ \A k \in 1..Len(BlankLine) : s3[Len(s2) + k] = BlankLine[k]
      BY <1>2, <2>1, PlacesOfConcat
    <3>2. QED
      BY <1>2, <2>3, <3>1
  <2> HIDE DEF s3
  <2>5. /\ Len(s4) = h + 4 + n /\ \A k \in 1..(h + 4) : s4[k] = s3[k]
        /\ \A k \in 1..n : s4[h + 4 + k] = p[k]
    <3>1. /\ Len(s4) = Len(s3) + n
          /\ \A k \in 1..Len(s3) : s4[k] = s3[k]
          /\ \A k \in 1..n : s4[Len(s3) + k] = p[k]
      BY <2>1, PlacesOfConcat
    <3>2. QED
      BY <2>4, <3>1
  <2> HIDE DEF s4
  <2>6. \A k \in 1..(h + 4 + n) : w[k] = s4[k]
    BY <2>1, <2>5, PlacesOfConcat
  <2> HIDE DEF w
  <2>7. ASSUME NEW k \in 1..(h + 4) PROVE w[k] = s3[k]
    <3>1. k \in 1..(h + 4 + n)
      BY <1>1
    <3>2. QED
      BY <2>5, <2>6, <3>1
  <2>8. ASSUME NEW k \in 1..h PROVE w[k] = s2[k]
    <3>1. k \in 1..(h + 4)
      BY <1>1
    <3>2. QED
      BY <2>4, <2>7, <3>1
  <2>9. w[1] = CONTENT_LENGTH /\ w[2] = COLON /\ w[3] = SPACE
    <3>1. 1 \in 1..h /\ 2 \in 1..h /\ 3 \in 1..h
      BY <1>1
    <3>2. QED
      BY <2>2, <2>3, <2>8, <3>1
  <2>10. ASSUME NEW k \in 1..L PROVE w[3 + k] = D[k]
    <3>1. 3 + k \in 1..h
      BY <1>1
    <3>2. QED
      BY <2>3, <2>8, <3>1
  <2>11. ASSUME NEW k \in 1..4 PROVE w[h + k] = BlankLine[k]
    <3>1. h + k \in 1..(h + 4)
      BY <1>1
    <3>2. QED
      BY <2>4, <2>7, <3>1
  <2>12. ASSUME NEW k \in 1..n PROVE w[h + 4 + k] = p[k]
    <3>1. h + 4 + k \in 1..(h + 4 + n)
      BY <1>1
    <3>2. QED
      BY <2>5, <2>6, <3>1
  <2>13. QED
    BY <2>1, <2>5, <2>9, <2>10, <2>11, <2>12
<1>4. Len(b) <= Len(w) /\ Len(b) \in Nat /\ \A k \in 1..Len(b) : b[k] = w[k]
  BY DEF Begins
<1> HIDE DEF w
<1>5. /\ H # {} /\ ends # {} /\ \A end \in ends : ~(Len(b) < end)
      /\ DecodeContentLength(b) = Frame(SubSeq(b, headerEnd + 1, Max(ends)), Max(ends))
  <2>1. NeedsMore.found = "more" /\ FrameError.found = "error"
    BY DEF NeedsMore, FrameError
  <2>2. QED
    BY <2>1 DEF DecodeContentLength
<1>6. \A k \in 1..h : w[k] # CR
  <2>1. \A x \in Digits : x # CR
    BY DEF Digits, CR
  <2>2. CONTENT_LENGTH # CR /\ COLON # CR /\ SPACE # CR
    BY DEF CONTENT_LENGTH, COLON, SPACE, CR
  <2>3. ASSUME NEW k \in 1..h, k > 3 PROVE w[k] # CR
    <3>1. k - 3 \in 1..L /\ 3 + (k - 3) = k
      BY <1>1, <2>3
    <3>2. w[k] = D[k - 3]
      BY <1>3, <3>1
    <3>3. QED
      BY <1>1, <2>1, <3>1, <3>2
  <2>4. \A k \in 1..h : k = 1 \/ k = 2 \/ k = 3 \/ k > 3
    BY <1>1
  <2>5. QED
    BY <1>3, <2>2, <2>3, <2>4
<1> HIDE DEF h
<1>7. h \in Nat /\ h = 3 + L
  BY <1>1 DEF h
<1>8. \A k \in H : k \in 1..(Len(b) - 3) /\ k > h
  <2>1. SUFFICES ASSUME NEW k \in H PROVE k \in 1..(Len(b) - 3) /\ k > h
    OBVIOUS
  <2>2. k \in 1..(Len(b) - 3) /\ SubSeq(b, k, k + 3) = BlankLine
    BY DEF FindHeaderEnd
  <2>3. BlankLine[1] = CR
    BY DEF BlankLine
  <2>4. SubSeq(b, k, k + 3)[1] = b[k] /\ k \in 1..Len(b)
    BY <1>4, <2>2
  <2>5. w[k] = CR
    BY <1>4, <2>2, <2>3, <2>4
  <2>6. QED
    BY <1>6, <1>7, <2>2, <2>5
<1>9. h + 1 \in H /\ h + 4 <= Len(b)
  <2>1. h + 4 <= Len(b)
    <3>1. PICK k \in H : k \in 1..(Len(b) - 3) /\ k > h
      BY <1>5, <1>8
    <3>2. k \in Nat
      BY <3>1
    <3>3. QED
      BY <1>4, <1>7, <3>1, <3>2
  <2>2. \A k \in 1..4 : h + k \in 1..Len(b)
    BY <1>4, <1>7, <2>1
  <2>3. \A k \in 1..Len(BlankLine) : b[h + k] = BlankLine[k]
    BY <1>2, <1>3, <1>4, <2>2
  <2>4. SubSeq(b, h + 1, h + Len(BlankLine)) = BlankLine
    BY <1>2, <1>7, <2>1, <2>3, SameCut
  <2>5. h + Len(BlankLine) = (h + 1) + 3 /\ h + 1 \in 1..(Len(b) - 3)
    BY <1>2, <1>4, <1>7, <2>1
  <2>6. QED
    BY <2>1, <2>4, <2>5 DEF FindHeaderEnd
<1>10. headerEnd = h + 4
  <2>1. H \in SUBSET Nat
    BY DEF FindHeaderEnd
  <2> HIDE DEF H
  <2> DEFINE m == Min(H)
  <2>2. m \in H /\ m <= h + 1
    BY <1>9, <2>1, MinIsLeast
  <2>3. m \in Nat /\ m > h
    BY <1>8, <2>1, <2>2
  <2> HIDE DEF m
  <2>4. m = h + 1
    BY <1>7, <2>2, <2>3
  <2>5. QED
    BY <1>7, <2>4 DEF m
<1>11. Announced(SplitCrlf(SubSeq(b, 1, headerEnd - 4))) \subseteq {n}
  <2> DEFINE hd == SubSeq(b, 1, h)
  <2>1. headerEnd - 4 = h
    BY <1>7, <1>10
  <2>2. hd \in Seq(Byte) /\ Len(hd) = h
    <3>1. 1 \in 1..(Len(b) + 1) /\ h \in (1 - 1)..Len(b) /\ h + 1 - 1 = h
      BY <1>4, <1>7, <1>9
    <3>2. QED
      BY <3>1, CutOut
  <2>3. \A k \in 1..h : hd[k] = w[k]
    <3>1. ASSUME NEW k \in 1..h PROVE hd[k] = w[k]
      <4>1. k \in 1..(h - 1 + 1) /\ 1 + k - 1 = k /\ k \in 1..Len(b)
        BY <1>4, <1>7, <1>9
      <4>2. hd[k] = b[k]
        BY <1>7, <1>9, <4>1
      <4>3. QED
        BY <1>4, <4>1, <4>2
    <3>2. QED
      BY <3>1
  <2> HIDE DEF hd
  <2>4. 1 \in 1..h /\ 2 \in 1..h /\ 3 \in 1..h /\ \A k \in 1..L : 3 + k \in 1..h
    BY <1>1, <1>7
  <2>5. /\ hd[1] = CONTENT_LENGTH /\ hd[2] = COLON /\ hd[3] = SPACE
        /\ \A k \in 1..L : hd[3 + k] = D[k]
    BY <1>3, <2>3, <2>4
  <2>6. Announced(SplitCrlf(hd)) \subseteq {n}
    BY <1>1, <1>7, <2>2, <2>5, HeaderAnnounces DEF D, L
  <2>7. QED
    BY <2>1, <2>6 DEF hd
<1>12. ends = {h + 4 + n}
  <2> HIDE DEF headerEnd
  <2>1. \A end \in ends : end = h + 4 + n
    BY <1>10, <1>11
  <2> HIDE DEF ends
  <2>2. QED
    BY <1>5, <2>1
<1>13. Max(ends) = h + 4 + n /\ h + 4 + n <= Len(b)
  <2> DEFINE x == h + 4 + n
  <2>1. x \in Nat
    BY <1>1, <1>7
  <2> HIDE DEF x
  <2>2. {x} \in SUBSET Nat /\ {x} # {} /\ \A y \in {x} : y <= x
    BY <2>1
  <2>3. Max({x}) \in {x}
    BY <2>1, <2>2, MaxIsGreatest
  <2>4. ~(Len(b) < x)
    BY <1>5, <1>12 DEF x
  <2>5. x <= Len(b)
    BY <1>4, <2>1, <2>4
  <2>6. QED
    BY <1>12, <2>3, <2>5 DEF x
<1>14. SubSeq(b, headerEnd + 1, Max(ends)) = p
  <2>1. \A k \in 1..n : (h + 4) + k \in 1..Len(b)
    BY <1>1, <1>4, <1>7, <1>13
  <2>2. \A k \in 1..n : b[(h + 4) + k] = p[k]
    BY <1>3, <1>4, <2>1
  <2>3. h + 4 \in Nat /\ (h + 4) + n <= Len(b)
    BY <1>7, <1>13
  <2>4. SubSeq(b, (h + 4) + 1, (h + 4) + n) = p
    BY <2>2, <2>3, SameCut
  <2>5. QED
    BY <1>10, <1>13, <2>4
<1>15. QED
  BY <1>3, <1>5, <1>13, <1>14

\* What Decode finds at the front of a stream that begins with an encoded payload
\* is that payload, however much of the stream is there.
LEMMA RoundTrip ==
    ASSUME NEW framing \in Framings, NEW p \in Seq(Byte), NEW t \in Seq(Byte), NEW b \in Seq(Byte),
           framing \in DOMAIN Delimiter => Places(Delimiter[framing], p) = {},
           Begins(b, Encode(framing, p) \o t), Decode(framing, b).found = "frame"
    PROVE  Decode(framing, b) = Frame(p, Len(Encode(framing, p)))
<1>1. CASE framing \in DOMAIN Delimiter
  <2> DEFINE d == Delimiter[framing]
  <2>1. /\ Decode(framing, b) = DecodeDelimited(d, b)
        /\ Encode(framing, p) = EncodeDelimited(d, p) /\ d \in Byte
    BY <1>1 DEF Decode, Encode, Delimiter, NUL, LF, Byte
  <2> HIDE DEF d
  <2>2. Places(d, p) = {}
    BY <1>1 DEF d
  <2>3. DecodeDelimited(d, b) = IF Len(b) > Len(p) THEN Frame(p, Len(p) + 1) ELSE NeedsMore
    BY <2>1, <2>2, DelimitedRoundTrip
  <2>4. NeedsMore.found # "frame" /\ Len(EncodeDelimited(d, p)) = Len(p) + 1
    BY <2>1 DEF NeedsMore, EncodeDelimited
  <2>5. QED
    BY <2>1, <2>3, <2>4
<1>2. CASE framing = "netstring"
  <2>1. framing \notin DOMAIN Delimiter
    BY <1>2 DEF Delimiter
  <2>2. Decode(framing, b) = DecodeNetstring(b) /\ Encode(framing, p) = EncodeNetstring(p)
    BY <1>2, <2>1 DEF Decode, Encode
  <2>3. QED
    BY <2>2, NetstringRoundTrip
<1>3. CASE framing = "content_length"
  <2>1. framing \notin DOMAIN Delimiter
    BY <1>3 DEF Delimiter
  <2>2. Decode(framing, b) = DecodeContentLength(b) /\ Encode(framing, p) = EncodeContentLength(p)
    BY <1>3, <2>1 DEF Decode, Encode
  <2>3. QED
    BY <2>2, ContentLengthRoundTrip
<1>4. QED
  BY <1>1, <1>2, <1>3 DEF Framings

\* A delimited frame that is all there is found.
LEMMA WholeIsFound ==
    ASSUME NEW fr \in DOMAIN Delimiter, NEW p \in Seq(Byte), NEW t \in Seq(Byte), NEW b \in Seq(Byte),
           Places(Delimiter[fr], p) = {}, b = Encode(fr, p) \o t, Begins(b, b)
    PROVE  Decode(fr, b) # NeedsMore
<1> DEFINE d == Delimiter[fr]
           e == EncodeDelimited(d, p)
<1>1. Decode(fr, b) = DecodeDelimited(d, b) /\ Encode(fr, p) = e /\ d \in Byte
  BY DEF Decode, Encode, Delimiter, NUL, LF, Byte
<1> HIDE DEF d
<1>2. e \in Seq(Byte) /\ Len(e) = Len(p) + 1 /\ Len(p) \in Nat
  BY <1>1 DEF EncodeDelimited
<1>3. b = e \o t /\ Places(d, p) = {}
  BY <1>1 DEF d
<1>4. Begins(b, e \o t)
  BY <1>3
<1>5. Len(b) > Len(p)
  <2> HIDE DEF e
  <2>1. Len(e \o t) = Len(e) + Len(t) /\ Len(t) \in Nat
    BY <1>2, Joined
  <2>2. Len(b) = Len(e) + Len(t)
    BY <1>3, <2>1
  <2>3. QED
    BY <1>2, <2>1, <2>2
<1>6. DecodeDelimited(d, b) = Frame(p, Len(p) + 1)
  BY <1>1, <1>3, <1>4, <1>5, DelimitedRoundTrip
<1>7. NeedsMore.found = "more" /\ Frame(p, Len(p) + 1).found = "frame"
  BY DEF NeedsMore, Frame
<1>8. QED
  BY <1>1, <1>6, <1>7

-----------------------------------------------------------------------------
(* The frames received.                                                    *)

\* Frames in the order sent, and then, of a delimiter framing, the rest.
Received ==
    LET n == Len(out)
        m == Len(conn.sent)
    IN  /\ \A k \in 1..n : k <= m => out[k] = conn.sent[k]
        /\ \/ n <= m /\ taken = Frames(conn, n)
           \/ n = m + 1 /\ TakeOnEof(conn.framing) /\ taken = stream /\ out[n] = conn.rest
        /\ last = "eof" => n >= m

\* A read is pending only when there is no frame in what has been kept.
Waiting == pc = "reading" => Decode(conn.framing, Kept) = NeedsMore

\* The inductive invariant of the frames: between them no byte is out of place,
\* so that each recv starts at the first byte of a frame.
FramesInv == ReadInv /\ Waiting /\ (broken \subseteq {"io"} => Received)

\* Bytes that a stream has after x, when some of them have been read.
LEMMA AfterTaken ==
    ASSUME NEW x \in Seq(Byte), NEW y \in Seq(Byte), NEW r \in Seq(Byte), NEW q \in 0..Len(x \o r),
           x \o y = SubSeq(x \o r, 1, q)
    PROVE  /\ Begins(y, r) /\ y = SubSeq(r, 1, Len(y)) /\ Len(y) \in 0..Len(r)
           /\ q = Len(x \o r) => y = r
<1> DEFINE X == Len(x)
           Y == Len(y)
           R == Len(r)
<1>1. X \in Nat /\ Y \in Nat /\ R \in Nat /\ Len(x \o r) = X + R /\ x \o r \in Seq(Byte)
      /\ Len(x \o y) = X + Y
  BY Joined
<1>2. Len(SubSeq(x \o r, 1, q)) = q /\ \A i \in 1..q : SubSeq(x \o r, 1, q)[i] = (x \o r)[i]
  <2> DEFINE w == x \o r
  <2> HIDE DEF w
  <2>1. w \in Seq(Byte) /\ q \in 0..Len(w)
    BY <1>1 DEF w
  <2>2. Len(SubSeq(w, 1, q)) = q /\ \A i \in 1..q : SubSeq(w, 1, q)[i] = w[i]
    BY <2>1
  <2>3. QED
    BY <2>2 DEF w
<1>3. q = X + Y /\ Y <= R
  BY <1>1, <1>2
<1>4. \A k \in 1..Y : (x \o y)[X + k] = y[k]
  BY PlacesOfConcat
<1>5. \A k \in 1..R : (x \o r)[X + k] = r[k]
  BY PlacesOfConcat
<1>6. \A k \in 1..Y : y[k] = r[k]
  <2>1. SUFFICES ASSUME NEW k \in 1..Y PROVE y[k] = r[k]
    OBVIOUS
  <2>2. X + k \in 1..q /\ k \in 1..R
    BY <1>1, <1>3
  <2>3. (x \o y)[X + k] = (x \o r)[X + k]
    BY <1>2, <2>2
  <2>4. QED
    BY <1>4, <1>5, <2>2, <2>3
<1>7. Begins(y, r)
  BY <1>3, <1>6 DEF Begins
<1>8. y = SubSeq(r, 1, Y)
  <2>1. SubSeq(r, 1, Y) \in Seq(Byte) /\ Len(SubSeq(r, 1, Y)) = Y
    BY <1>1, <1>3
  <2>2. \A k \in 1..Y : SubSeq(r, 1, Y)[k] = r[k]
    BY <1>1, <1>3
  <2> DEFINE s == SubSeq(r, 1, Y)
  <2> HIDE DEF s
  <2>3. y = s
    <3>1. s \in Seq(Byte) /\ Len(s) = Len(y) /\ \A k \in 1..Len(y) : y[k] = s[k]
      BY <1>6, <2>1, <2>2 DEF s
    <3>2. QED
      BY <3>1, SeqEqual
  <2>4. QED
    BY <2>3 DEF s
<1>9. q = Len(x \o r) => y = r
  <2>1. SUFFICES ASSUME q = Len(x \o r) PROVE y = r
    OBVIOUS
  <2>2. Y = R
    BY <1>1, <1>3, <2>1
  <2>3. QED
    BY <1>6, <2>2, SeqEqual
<1>10. QED
  BY <1>1, <1>3, <1>7, <1>8, <1>9

\* Where recv stands in the stream: before a frame, or at the rest.
LEMMA InStream ==
    ASSUME FramesInv, broken \subseteq {"io"}
    PROVE  \/ /\ Len(out) < Len(conn.sent) /\ taken = Frames(conn, Len(out))
              /\ \E t \in Seq(Byte) :
                    LET r == Encode(conn.framing, conn.sent[Len(out) + 1]) \o t
                    IN  Begins(Kept, r) /\ (pos = Len(stream) => Kept = r)
           \/ /\ Len(out) = Len(conn.sent) /\ taken = Frames(conn, Len(out))
              /\ Kept = SubSeq(conn.rest, 1, Len(Kept)) /\ Len(Kept) \in 0..Len(conn.rest)
              /\ pos = Len(stream) => Kept = conn.rest
           \/ /\ Len(out) = Len(conn.sent) + 1 /\ Kept = <<>>
<1> DEFINE n == Len(out)
           m == Len(conn.sent)
<1>1. /\ conn \in Connections /\ conn.rest \in Seq(Byte) /\ conn.framing \in Framings
      /\ stream \in Seq(Byte) /\ taken \in Seq(Byte) /\ Kept \in Seq(Byte) /\ pos \in 0..Len(stream)
      /\ stream = Written(conn) \o conn.rest /\ taken \o Kept = SubSeq(stream, 1, pos)
  BY Ranges, ConnectionAssumption DEF FramesInv, ReadInv, Growing, NothingLostOrAdded
<1>2. n \in Nat /\ m \in Nat /\ \A k \in 1..m : conn.sent[k] \in Seq(Byte)
  <2>1. out \in Seq(Seq(Byte)) /\ conn.sent \in Seq(Seq(Byte))
    BY <1>1, Ranges, ConnectionAssumption DEF FramesInv
  <2>2. QED
    BY <2>1
<1>3. \/ n <= m /\ taken = Frames(conn, n)
      \/ n = m + 1 /\ taken = stream
  BY DEF FramesInv, Received
<1> HIDE DEF n, m
<1>4. CASE n < m /\ taken = Frames(conn, n)
  <2>1. n \in 0..(m - 1) /\ n + 1 \in 1..m
    BY <1>2, <1>4
  <2>2. PICK t \in Seq(Byte) :
          stream = Frames(conn, n) \o (Encode(conn.framing, conn.sent[n + 1]) \o t)
    BY <1>1, <2>1, StreamFrom DEF m
  <2> DEFINE r == Encode(conn.framing, conn.sent[n + 1]) \o t
  <2>3. r \in Seq(Byte)
    BY <1>1, <1>2, <2>1, EncodeIsBytes, Joined
  <2>4. stream = taken \o r
    BY <1>4, <2>2
  <2> HIDE DEF r
  <2>5. Begins(Kept, r) /\ (pos = Len(stream) => Kept = r)
    BY <1>1, <2>3, <2>4, AfterTaken
  <2>6. QED
    BY <1>4, <2>5 DEF r, n, m
<1>5. CASE n = m /\ taken = Frames(conn, n)
  <2>1. stream = taken \o conn.rest
    BY <1>1, <1>5, FramesDef DEF m
  <2>2. /\ Kept = SubSeq(conn.rest, 1, Len(Kept)) /\ Len(Kept) \in 0..Len(conn.rest)
        /\ pos = Len(stream) => Kept = conn.rest
    <3> DEFINE r == conn.rest
    <3>1. r \in Seq(Byte) /\ stream = taken \o r
      BY <1>1, <2>1
    <3> HIDE DEF r
    <3>2. taken \o Kept = SubSeq(taken \o r, 1, pos) /\ pos \in 0..Len(taken \o r)
      BY <1>1, <3>1
    <3>3. Kept = SubSeq(r, 1, Len(Kept)) /\ Len(Kept) \in 0..Len(r)
      BY <1>1, <3>1, <3>2, AfterTaken
    <3>4. pos = Len(taken \o r) => Kept = r
      <4>1. SUFFICES ASSUME pos = Len(taken \o r) PROVE Kept = r
        OBVIOUS
      <4>2. taken \in Seq(Byte) /\ Kept \in Seq(Byte) /\ r \in Seq(Byte) /\ stream \in Seq(Byte)
        BY <1>1, <3>1
      <4>3. SubSeq(stream, 1, Len(stream)) = stream
        BY <4>2, Parts
      <4>4. taken \o Kept = taken \o r
        BY <3>1, <3>2, <4>1, <4>3
      <4>5. QED
        BY <4>2, <4>4, ConcatSimplifications
    <3>5. QED
      BY <3>1, <3>3, <3>4 DEF r
  <2>3. QED
    BY <1>5, <2>2 DEF n, m
<1>6. CASE n = m + 1 /\ taken = stream
  <2>1. stream = stream \o <<>> /\ <<>> \in Seq(Byte) /\ Len(<<>>) = 0
    BY <1>1
  <2>2. Kept = SubSeq(<<>>, 1, Len(Kept)) /\ Len(Kept) \in 0..0
    BY <1>1, <1>6, <2>1, AfterTaken
  <2>3. Kept = <<>>
    BY <1>1, <2>2
  <2>4. QED
    BY <1>6, <2>3 DEF n, m
<1>7. \/ n < m /\ taken = Frames(conn, n)
      \/ n = m /\ taken = Frames(conn, n)
      \/ n = m + 1 /\ taken = stream
  BY <1>2, <1>3
<1>8. QED
  BY <1>4, <1>5, <1>6, <1>7

\* It holds before the first recv.
LEMMA FramesInit == Init => FramesInv
<1> SUFFICES ASSUME Init PROVE FramesInv
  OBVIOUS
<1>1. ReadInv
  BY ReadInit
<1>2. Waiting
  BY DEF Init, Waiting
<1>3. Received
  <2>1. out = <<>> /\ taken = <<>> /\ last = "none" /\ conn \in Connections
    BY DEF Init
  <2>2. Len(conn.sent) \in Nat
    <3>1. conn.sent \in Seq(Seq(Byte))
      BY <2>1, ConnectionAssumption
    <3>2. QED
      BY <3>1
  <2>3. taken = Frames(conn, 0) /\ Len(out) = 0
    BY <2>1, FramesDef
  <2>4. QED
    BY <2>1, <2>2, <2>3 DEF Received
<1>4. QED
  BY <1>1, <1>2, <1>3 DEF FramesInv

\* A frame that Decode finds is the payload whose turn it is.
LEMMA FramesDecodeStep ==
    ASSUME FramesInv, pc = "recv", DecodeFrame(Decode(conn.framing, buf)), broken \subseteq {"io"}
    PROVE  Received'
<1> DEFINE n == Len(out)
           m == Len(conn.sent)
           found == Decode(conn.framing, buf)
<1>1. /\ conn \in Connections /\ conn.framing \in Framings /\ Kept = buf
      /\ buf \in Seq(Byte) /\ out \in Seq(Seq(Byte))
      /\ conn.sent \in Seq(Seq(Byte)) /\ conn.rest \in Seq(Byte)
  BY Ranges, ConnectionAssumption DEF FramesInv
<1>2. n \in Nat /\ m \in Nat /\ \A k \in 1..m : conn.sent[k] \in Seq(Byte)
  BY <1>1
<1>3. /\ found.found = "frame" /\ out' = Append(out, found.msg)
      /\ taken' = taken \o SubSeq(buf, 1, found.consumed) /\ last' = "msg"
      /\ UNCHANGED <<conn, stream>>
  BY DEF DecodeFrame, Return
<1>4. n < m /\ taken = Frames(conn, n)
      /\ \E t \in Seq(Byte) : Begins(buf, Encode(conn.framing, conn.sent[n + 1]) \o t)
  <2>1. CASE n = m /\ Kept = SubSeq(conn.rest, 1, Len(Kept)) /\ Len(Kept) \in 0..Len(conn.rest)
    BY <1>1, <1>3, <2>1, PeerAssumption
  <2>2. CASE Kept = <<>>
    <3>1. SubSeq(conn.rest, 1, 0) = <<>> /\ 0 \in 0..Len(conn.rest)
      BY <1>1
    <3>2. Decode(conn.framing, SubSeq(conn.rest, 1, 0)).found # "frame"
      BY <1>1, <3>1, PeerAssumption
    <3>3. QED
      BY <1>1, <1>3, <2>2, <3>1, <3>2
  <2>3. QED
    BY <1>1, <2>1, <2>2, InStream
<1> DEFINE p == conn.sent[n + 1]
           e == Encode(conn.framing, p)
<1>5. n + 1 \in 1..m /\ n \in 0..(m - 1) /\ p \in Seq(Byte)
      /\ (conn.framing \in DOMAIN Delimiter => Places(Delimiter[conn.framing], p) = {})
  <2>1. n + 1 \in 1..m /\ n \in 0..(m - 1)
    BY <1>2, <1>4
  <2>2. n + 1 \in DOMAIN conn.sent
    BY <1>1, <2>1
  <2>3. QED
    BY <1>1, <1>2, <2>1, <2>2, PeerAssumption
<1>6. e \in Seq(Byte)
  BY <1>1, <1>5, EncodeIsBytes
<1> HIDE DEF p
<1>7. PICK t \in Seq(Byte) : Begins(buf, Encode(conn.framing, p) \o t)
  BY <1>4 DEF p
<1>8. found = Frame(p, Len(e))
  BY <1>1, <1>3, <1>5, <1>7, RoundTrip
<1>9. found.consumed = Len(e) /\ found.msg = p /\ Len(e) <= Len(buf)
  <2>1. found.consumed = Len(e) /\ found.msg = p
    BY <1>8 DEF Frame
  <2>2. found.consumed \in 1..Len(buf)
    BY <1>1, <1>3, DecodeFits DEF Fits
  <2> HIDE DEF found, e
  <2>3. QED
    BY <1>1, <2>1, <2>2
<1> HIDE DEF e, found
<1>10. SubSeq(buf, 1, Len(e)) = e
  <2>1. \A k \in 1..Len(e) : buf[0 + k] = e[k]
    <3>1. \A k \in 1..Len(buf) : buf[k] = (e \o t)[k]
      BY <1>7 DEF Begins, e
    <3>2. \A k \in 1..Len(e) : (e \o t)[k] = e[k]
      BY <1>6, PlacesOfConcat
    <3>3. Len(e) \in Nat /\ Len(buf) \in Nat
      BY <1>1, <1>6
    <3>4. \A k \in 1..Len(e) : k \in 1..Len(buf) /\ 0 + k = k
      BY <1>9, <3>3
    <3>5. QED
      BY <3>1, <3>2, <3>4
  <2>2. 0 + Len(e) = Len(e) /\ 0 + 1 = 1 /\ 0 + Len(e) <= Len(buf)
    BY <1>6, <1>9
  <2>3. SubSeq(buf, 0 + 1, 0 + Len(e)) = e
    BY <1>1, <1>6, <2>1, <2>2, SameCut
  <2>4. QED
    BY <2>2, <2>3
<1>11. taken' = Frames(conn, n + 1)
  <2>1. taken' = Frames(conn, n) \o e
    BY <1>3, <1>4, <1>9, <1>10
  <2>2. QED
    BY <1>1, <1>5, <2>1, FramesDef DEF e, p
<1>12. /\ Len(out') = n + 1 /\ out'[n + 1] = p
       /\ \A k \in 1..n : out'[k] = out[k]
  BY <1>1, <1>3, <1>5, <1>9
<1>13. \A k \in 1..n : out[k] = conn.sent[k]
  <2>1. \A k \in 1..n : k <= m => out[k] = conn.sent[k]
    BY DEF FramesInv, Received
  <2>2. \A k \in 1..n : k <= m
    BY <1>2, <1>4
  <2>3. QED
    BY <2>1, <2>2
<1>14. \A k \in 1..(n + 1) : out'[k] = conn.sent[k]
  <2>1. \A k \in 1..(n + 1) : k = n + 1 \/ k \in 1..n
    BY <1>2
  <2>2. QED
    BY <1>12, <1>13, <2>1 DEF p
<1>15. n + 1 <= m
  BY <1>2, <1>4
<1>16. QED
  BY <1>3, <1>11, <1>12, <1>14, <1>15 DEF Received

\* The end of the stream is met behind the last frame, or in it.
LEMMA FramesEofStep ==
    ASSUME FramesInv, ReadEof, broken \subseteq {"io"}
    PROVE  Received'
<1> DEFINE n == Len(out)
           m == Len(conn.sent)
<1>1. pc = "reading" /\ pos = Len(stream) /\ UNCHANGED <<conn, stream>>
  BY DEF ReadEof
<1>2. /\ conn \in Connections /\ conn.framing \in Framings /\ Kept \in Seq(Byte)
      /\ taken \in Seq(Byte) /\ stream \in Seq(Byte)
      /\ Kept = SubSeq(buf, 1, start) /\ Len(Kept) = start /\ start \in Nat
      /\ out \in Seq(Seq(Byte)) /\ conn.sent \in Seq(Seq(Byte)) /\ conn.rest \in Seq(Byte)
  BY <1>1, Ranges, ConnectionAssumption DEF FramesInv
<1>3. n \in Nat /\ m \in Nat /\ \A k \in 1..m : conn.sent[k] \in Seq(Byte)
  BY <1>2
<1>4. /\ \A k \in 1..n : k <= m => out[k] = conn.sent[k]
      /\ \/ n <= m /\ taken = Frames(conn, n)
         \/ n = m + 1 /\ TakeOnEof(conn.framing) /\ taken = stream /\ out[n] = conn.rest
  BY DEF FramesInv, Received
<1>5. taken \o Kept = stream
  <2>1. taken \o Kept = SubSeq(stream, 1, Len(stream))
    BY <1>1 DEF FramesInv, ReadInv, NothingLostOrAdded
  <2>2. QED
    BY <1>2, <2>1, SubSeqFull
<1>6. CASE start > 0 /\ TakeOnEof(conn.framing)
  <2>1. out' = Append(out, Kept) /\ taken' = taken \o Kept /\ last' = "msg"
    BY <1>2, <1>6 DEF ReadEof, Return
  <2>2. n = m /\ Kept = conn.rest
    <3>1. Kept # <<>>
      <4>1. Len(<<>>) = 0 /\ Len(Kept) # 0
        BY <1>2, <1>6
      <4>2. QED
        BY <4>1
    <3>2. n >= m
      <4>1. SUFFICES ASSUME n < m PROVE FALSE
        BY <1>3
      <4>2. PICK t \in Seq(Byte) :
              Begins(Kept, Encode(conn.framing, conn.sent[n + 1]) \o t)
              /\ Kept = Encode(conn.framing, conn.sent[n + 1]) \o t
        BY SMTT(30), <1>1, <1>3, <4>1, InStream
      <4>3. n + 1 \in 1..m /\ n + 1 \in DOMAIN conn.sent
        <5>1. n + 1 \in 1..m
          BY <1>3, <4>1
        <5>2. DOMAIN conn.sent = 1..m
          BY <1>2
        <5>3. QED
          BY <5>1, <5>2
      <4>4. conn.framing \in DOMAIN Delimiter
        BY <1>6 DEF TakeOnEof
      <4> DEFINE fr == conn.framing
                 p == conn.sent[n + 1]
      <4>5. /\ fr \in DOMAIN Delimiter /\ fr \in Framings /\ p \in Seq(Byte)
            /\ Places(Delimiter[fr], p) = {}
            /\ Kept = Encode(fr, p) \o t /\ Begins(Kept, Encode(fr, p) \o t)
            /\ Decode(fr, Kept) = NeedsMore
        <5>1. p \in Seq(Byte)
          BY <1>3, <4>3
        <5>2. Places(Delimiter[fr], p) = {}
          BY <1>2, <4>3, <4>4, PeerAssumption
        <5>3. Decode(fr, Kept) = NeedsMore
          BY <1>1 DEF FramesInv, Waiting
        <5>4. QED
          BY <1>2, <4>2, <4>4, <5>1, <5>2, <5>3
      <4> HIDE DEF fr, p
      <4>6. Decode(fr, Kept) # NeedsMore
        <5>1. Begins(Kept, Kept)
          BY <4>5
        <5>2. QED
          BY <1>2, <4>5, <5>1, WholeIsFound
      <4>7. QED
        BY <4>5, <4>6
    <3>3. QED
      BY <1>1, <1>3, <3>1, <3>2, InStream
  <2>3. /\ Len(out') = n + 1 /\ out'[n + 1] = conn.rest
        /\ \A k \in 1..n : out'[k] = out[k]
    <3> DEFINE more == Append(out, conn.rest)
    <3>1. /\ Len(more) = n + 1 /\ more[n + 1] = conn.rest
          /\ \A k \in 1..n : more[k] = out[k]
      BY <1>2
    <3>2. out' = more
      BY <2>1, <2>2
    <3> HIDE DEF more
    <3>3. QED
      BY <3>1, <3>2
  <2>4. \A k \in 1..(n + 1) : k <= m => out'[k] = conn.sent[k]
    <3>1. \A k \in 1..(n + 1) : k <= m => k \in 1..n
      BY <1>3, <2>2
    <3>2. QED
      BY <1>4, <2>3, <3>1
  <2>5. taken' = stream
    BY <1>5, <2>1
  <2>6. QED
    BY <1>1, <1>6, <2>1, <2>2, <2>3, <2>4, <2>5 DEF Received
<1>7. CASE ~(start > 0 /\ TakeOnEof(conn.framing))
  <2>1. out' = out /\ taken' = taken /\ last' = IF start = 0 THEN "eof" ELSE "mid_frame"
    BY <1>7 DEF ReadEof, Return
  <2>2. start = 0 => n >= m
    <3>1. SUFFICES ASSUME start = 0, n < m PROVE FALSE
      BY <1>3
    <3>2. PICK t \in Seq(Byte) : Kept = Encode(conn.framing, conn.sent[n + 1]) \o t
      BY <1>1, <1>3, <3>1, InStream
    <3>3. n + 1 \in 1..m
      BY <1>3, <3>1
    <3> DEFINE e == Encode(conn.framing, conn.sent[n + 1])
    <3>4. e \in Seq(Byte) /\ Len(e) > 0
      BY <1>2, <1>3, <3>3, EncodeIsBytes, EncodeIsLong
    <3> HIDE DEF e
    <3>5. Len(e \o t) = Len(e) + Len(t) /\ Len(t) \in Nat /\ Len(e) \in Nat
      BY <3>4, Joined
    <3>6. Len(Kept) = Len(e \o t)
      BY <3>2 DEF e
    <3>7. QED
      BY <1>2, <3>1, <3>4, <3>5, <3>6
  <2>3. last' = "eof" => n >= m
    BY <2>1, <2>2
  <2>4. QED
    BY <1>1, <1>4, <2>1, <2>3 DEF Received
<1>8. QED
  BY <1>6, <1>7

\* A step that takes nothing from the buffer.
LEMMA NothingReturned ==
    ASSUME Received, UNCHANGED <<conn, stream, out, taken>>, last' # "eof" \/ last' = last
    PROVE  Received'
BY DEF Received

\* Every step keeps the invariant.
LEMMA FramesStep ==
    ASSUME FramesInv, [Next]_vars
    PROVE  FramesInv'
<1>1. ReadInv'
  BY ReadStep DEF FramesInv
<1>2. CASE Recv
  <2> DEFINE found == Decode(conn.framing, buf)
  <2>1. pc = "recv" /\ (DecodeFrame(found) \/ DecodeError(found) \/ FillRefused(found) \/ BeginRead(found))
    BY <1>2 DEF Recv
  <2>2. conn \in Connections /\ buf \in Seq(Byte) /\ Zeros(ChunkSize) \in Seq(Byte)
    BY Ranges DEF FramesInv
  <2>3. broken' = broken
    BY <2>1 DEF DecodeFrame, DecodeError, FillRefused, BeginRead
  <2>4. CASE DecodeFrame(found)
    <3>1. pc' # "reading"
      BY <2>4 DEF DecodeFrame, Return
    <3>2. broken \subseteq {"io"} => Received'
      BY <2>1, <2>4, FramesDecodeStep
    <3>3. QED
      BY <1>1, <2>3, <3>1, <3>2 DEF FramesInv, Waiting
  <2>5. CASE DecodeError(found) \/ FillRefused(found)
    <3>1. pc' # "reading" /\ last' # "eof" /\ UNCHANGED <<conn, stream, out, taken>>
      BY <2>5 DEF DecodeError, FillRefused, Return
    <3>2. broken \subseteq {"io"} => Received'
      BY <3>1, NothingReturned DEF FramesInv
    <3>3. QED
      BY <1>1, <2>3, <3>1, <3>2 DEF FramesInv, Waiting
  <2>6. CASE BeginRead(found)
    <3>1. /\ found = NeedsMore /\ buf' = buf \o Zeros(ChunkSize) /\ start' = Len(buf)
          /\ UNCHANGED <<conn, stream, out, taken, last>>
      BY <2>6 DEF BeginRead
    <3>2. pc' = "reading"
      BY <2>6 DEF BeginRead
    <3>3. Kept' = buf
      BY <2>2, <3>1, <3>2, FirstPart DEF Kept
    <3>4. Waiting'
      BY <3>1, <3>3 DEF Waiting
    <3>5. broken \subseteq {"io"} => Received'
      BY <3>1, NothingReturned DEF FramesInv
    <3>6. QED
      BY <1>1, <2>3, <3>4, <3>5 DEF FramesInv
  <2>7. QED
    BY <2>1, <2>4, <2>5, <2>6
<1>3. CASE ReadSome
  <2>1. UNCHANGED <<conn, stream, out, taken, broken>>
    BY <1>3 DEF ReadSome
  <2>2. pc' # "reading" /\ (last' # "eof" \/ last' = last)
    BY <1>3 DEF ReadSome, Return
  <2>3. broken \subseteq {"io"} => Received'
    BY <2>1, <2>2, NothingReturned DEF FramesInv
  <2>4. QED
    BY <1>1, <2>1, <2>2, <2>3 DEF FramesInv, Waiting
<1>4. CASE ReadEof
  <2>1. broken' = broken /\ pc' # "reading"
    BY <1>4 DEF ReadEof, Return
  <2>2. broken \subseteq {"io"} => Received'
    BY <1>4, FramesEofStep
  <2>3. QED
    BY <1>1, <2>1, <2>2 DEF FramesInv, Waiting
<1>5. CASE ReadTimeout \/ CancelRecv
  <2>1. pc' # "reading" /\ ~(broken' \subseteq {"io"})
    BY <1>5 DEF ReadTimeout, CancelRecv, Return
  <2>2. QED
    BY <1>1, <2>1 DEF FramesInv, Waiting
<1>6. CASE ReadFail
  <2>1. /\ broken' = broken \cup {"io"} /\ pc' # "reading" /\ last' # "eof"
        /\ UNCHANGED <<conn, stream, out, taken>>
    BY <1>6 DEF ReadFail, Return
  <2>2. broken \subseteq {"io"} => Received'
    BY <2>1, NothingReturned DEF FramesInv
  <2>3. QED
    BY <1>1, <2>1, <2>2 DEF FramesInv, Waiting
<1>7. CASE UNCHANGED vars
  <2>1. UNCHANGED <<conn, stream, out, taken, last, broken, pc, buf, start>>
    BY <1>7 DEF vars
  <2>2. Waiting'
    BY <2>1 DEF FramesInv, Waiting, Kept
  <2>3. broken \subseteq {"io"} => Received'
    BY <2>1, NothingReturned DEF FramesInv
  <2>4. QED
    BY <1>1, <2>1, <2>2, <2>3 DEF FramesInv
<1>8. QED
  BY <1>2, <1>3, <1>4, <1>5, <1>6, <1>7 DEF Next, Reading, Stopped

\* recv stays in step with the frames of its peer.
THEOREM FramesInvariant == Spec => []FramesInv
BY FramesInit, FramesStep, PTL DEF Spec

\* What the peer sends with send, recv returns: every payload once, in order and
\* byte for byte, for every codec, every payload, every chunking of the stream.
THEOREM FramesArriveAsSent == Spec => []SentIsReceived
<1>1. FramesInv => SentIsReceived
  <2>1. SUFFICES ASSUME FramesInv, broken \subseteq {"io"}
                 PROVE  /\ \A k \in DOMAIN out :
                              IF k <= Len(conn.sent) THEN out[k] = conn.sent[k]
                              ELSE /\ TakeOnEof(conn.framing)
                                   /\ k = Len(conn.sent) + 1 /\ out[k] = conn.rest
                        /\ last = "eof" => Len(out) >= Len(conn.sent)
    BY DEF SentIsReceived
  <2> DEFINE n == Len(out)
             m == Len(conn.sent)
  <2>2. out \in Seq(Seq(Byte)) /\ conn.sent \in Seq(Seq(Byte))
    BY <2>1, Ranges, ConnectionAssumption DEF FramesInv
  <2>3. n \in Nat /\ m \in Nat /\ DOMAIN out = 1..n
    BY <2>2
  <2>4. /\ \A k \in 1..n : k <= m => out[k] = conn.sent[k]
        /\ n <= m \/ (n = m + 1 /\ TakeOnEof(conn.framing) /\ out[n] = conn.rest)
        /\ last = "eof" => n >= m
    BY <2>1 DEF FramesInv, Received
  <2> HIDE DEF n, m
  <2>5. ASSUME NEW k \in 1..n, ~(k <= m)
        PROVE  TakeOnEof(conn.framing) /\ k = m + 1 /\ out[k] = conn.rest
    <3>1. ~(n <= m) /\ (n = m + 1 => k = n)
      BY <2>3, <2>5
    <3>2. QED
      BY <2>4, <3>1
  <2>6. \A k \in DOMAIN out : IF k <= m THEN out[k] = conn.sent[k]
                              ELSE TakeOnEof(conn.framing) /\ k = m + 1 /\ out[k] = conn.rest
    BY <2>3, <2>4, <2>5
  <2>7. QED
    BY <2>4, <2>6 DEF n, m
<1>2. QED
  BY <1>1, FramesInvariant, PTL
=============================================================================
