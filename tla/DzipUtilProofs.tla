---------------------------- MODULE DzipUtilProofs ----------------------------
(***************************************************************************)
(* Proofs about DzipUtil: what the program dzip writes means what it read, *)
(* for every input, however reads, chunks and writes cut it.  And about    *)
(* DzipOutput: what a chain that inflates writes is what was pushed to it  *)
(* means, however pushes, flushes and writes cut that.                     *)
(***************************************************************************)
EXTENDS DzipUtil, DzipOutput, SequenceLemmas

\* Concatenation is associative.
Regroups(a, b, c) == (a \o b) \o c = a \o (b \o c)

LEMMA Regrouped ==
  ASSUME NEW U, NEW a \in Seq(U), NEW b \in Seq(U), NEW c \in Seq(U)
  PROVE  Regroups(a, b, c)
BY ConcatAssociative DEF Regroups

LEMMA Associates ==
  ASSUME NEW U
  PROVE  \A a, b, c \in Seq(U) : (a \o b) \o c = a \o (b \o c)
BY ConcatAssociative

\* What is behind the first k elements of a concatenation.
LEMMA TailOfConcat ==
  ASSUME NEW U, NEW a \in Seq(U), NEW b \in Seq(U), NEW k \in Nat, k <= Len(a)
  PROVE  SubSeq(a \o b, k + 1, Len(a \o b)) = SubSeq(a, k + 1, Len(a)) \o b
<1> DEFINE m == Len(a)
           n == Len(b)
           c == a \o b
           d == SubSeq(a, k + 1, m)
<1>1. m \in Nat /\ n \in Nat /\ Len(a) = m /\ Len(b) = n
  BY LenProperties
<1>2. /\ c \in Seq(U) /\ Len(c) = m + n
      /\ \A i \in 1..m + n : c[i] = IF i <= m THEN a[i] ELSE b[i - m]
  BY <1>1, ConcatProperties
<1>3. d \in Seq(U) /\ Len(d) = m - k /\ \A i \in 1..m - k : d[i] = a[k + i]
  BY <1>1, Piece
<1> HIDE DEF c, d, m, n
<1> DEFINE e == SubSeq(c, k + 1, Len(c))
           f == d \o b
<1>4. e \in Seq(U) /\ Len(e) = (m + n) - k /\ \A i \in 1..(m + n) - k : e[i] = c[k + i]
  BY <1>1, <1>2, Piece
<1>5. /\ f \in Seq(U) /\ Len(f) = (m - k) + n
      /\ \A i \in 1..(m - k) + n : f[i] = IF i <= m - k THEN d[i] ELSE b[i - (m - k)]
  <2>1. /\ d \o b \in Seq(U) /\ Len(d \o b) = Len(d) + Len(b)
        /\ \A i \in 1..Len(d) + Len(b) :
             (d \o b)[i] = IF i <= Len(d) THEN d[i] ELSE b[i - Len(d)]
    BY <1>3, ConcatProperties
  <2>2. QED  BY <1>1, <1>3, <2>1
<1> HIDE DEF e, f
<1>6. k <= m
  BY <1>1
<1>7. ASSUME NEW i \in 1..Len(e)
      PROVE  e[i] = f[i]
  <2>1. i \in 1..(m + n) - k /\ i \in 1..(m - k) + n /\ k + i \in 1..m + n /\ i \in Nat
    BY <1>1, <1>4, <1>6
  <2>2. e[i] = IF k + i <= m THEN a[k + i] ELSE b[k + i - m]
    <3>1. e[i] = c[k + i]
      BY <1>4, <2>1
    <3>2. ASSUME NEW j \in 1..m + n
          PROVE  c[j] = IF j <= m THEN a[j] ELSE b[j - m]
      BY <1>2
    <3>3. QED  BY <1>1, <2>1, <3>1, <3>2
  <2>3. f[i] = IF i <= m - k THEN d[i] ELSE b[i - (m - k)]
    BY <1>1, <1>5, <2>1
  <2>4. k + i - m = i - (m - k) /\ (k + i <= m <=> i <= m - k)
    BY <1>1, <2>1
  <2>5. i <= m - k => d[i] = a[k + i]
    BY <1>1, <1>3, <2>1
  <2>6. QED  BY <2>2, <2>3, <2>4, <2>5
<1>8. Len(e) = Len(f)
  BY <1>1, <1>4, <1>5, <1>6
<1>9. e = f
  BY <1>4, <1>5, <1>7, <1>8, SeqEqual
<1>10. QED  BY <1>9 DEF c, d, e, f, m

\* A piece of the front of a concatenation.
LEMMA FrontOfConcat ==
  ASSUME NEW U, NEW a \in Seq(U), NEW b \in Seq(U), NEW k \in Nat \ {0, 1}, k <= Len(a)
  PROVE  SubSeq(a \o b, 2, k) = SubSeq(a, 2, k)
<1>1. 2 \in 1..Len(a) /\ k \in 1..Len(a)
  BY LenProperties
<1>2. QED  BY <1>1, SubSeqOfConcat1

Answer(U) == [ok : BOOLEAN, used : Nat, out : Seq(U)]

\* f answers dzip_inflate_range at each place of x.
Answers(x, f) == f = [i \in 1..(Len(x) + 1) |-> InflateTurn(x, f, i)]

\* A turn looks only at places behind its own.
LEMMA TurnLooksBehind ==
  ASSUME NEW U, NEW x \in Seq(U), AreUnits(U),
         NEW f, NEW g, NEW i \in 1..Len(x) + 1,
         \A j \in i + 1..Len(x) + 1 : f[j] = g[j]
  PROVE  InflateTurn(x, f, i) = InflateTurn(x, g, i)
<1>1. Len(x) \in Nat
  BY LenProperties
<1>2. CASE i >= Len(x) \/ x[i].kind \in {"foreign", "data"}
  BY <1>1, <1>2 DEF InflateTurn, Waits, Fails
<1>3. CASE ~(i >= Len(x)) /\ x[i].kind \notin {"foreign", "data"}
  <2>1. x[i] \in U
    BY <1>1, <1>3, ElementOfSeq
  <2>2. x[i].size \in Nat \ {0, 1}
    BY <1>3, <2>1 DEF IsUnit, AreUnits
  <2>3. CASE i + x[i].size > Len(x) + 1
    BY <1>3, <2>3 DEF InflateTurn, Waits, Fails
  <2>4. CASE ~(i + x[i].size > Len(x) + 1)
    <3>1. f[i + x[i].size] = g[i + x[i].size]
      BY <1>1, <2>2, <2>4
    <3>2. QED  BY <3>1 DEF InflateTurn, Waits, Fails
  <2>5. QED  BY <2>3, <2>4
<1>4. QED  BY <1>2, <1>3

\* Such answers exist, and dzip_inflate_range gives the first of them.
LEMMA InflateAnswers ==
  ASSUME NEW U, NEW x \in Seq(U), AreUnits(U)
  PROVE  \E f : Answers(x, f) /\ InflateRange(x) = f[1]
<1> DEFINE L == Len(x)
           Done(f, n) == f = [i \in (L + 1 - n)..(L + 1) |-> InflateTurn(x, f, i)]
           Undone == {n \in 0..L : ~\E f : Done(f, n)}
<1>1. L \in Nat
  BY LenProperties
<1>2. Undone = {}
  <2> SUFFICES ASSUME Undone # {} PROVE FALSE
    OBVIOUS
  <2>1. PICK n \in Undone : \A m \in Undone : n <= m
    <3>1. Undone \subseteq Nat
      BY <1>1
    <3> HIDE DEF Undone
    <3>2. QED  BY <3>1, LeastElement
  <2>2. n \in 0..L
    OBVIOUS
  <2>3. n # 0
    <3> DEFINE f == [i \in (L + 1 - 0)..(L + 1) |-> InflateTurn(x, x, i)]
    <3>1. \A i \in (L + 1 - 0)..(L + 1) : InflateTurn(x, f, i) = InflateTurn(x, x, i)
      <4> TAKE i \in (L + 1 - 0)..(L + 1)
      <4> HIDE DEF f
      <4>1. i \in 1..Len(x) + 1 /\ \A j \in i + 1..Len(x) + 1 : f[j] = x[j]
        BY <1>1
      <4>2. QED  BY <4>1, TurnLooksBehind
    <3>2. f = [i \in (L + 1 - 0)..(L + 1) |-> InflateTurn(x, f, i)]
      BY <3>1
    <3>3. Done(f, 0)
      BY <3>2
    <3>4. QED  BY <2>1, <3>3
  <2>4. PICK g : Done(g, n - 1)
    <3>1. n - 1 \in 0..L /\ ~(n <= n - 1)
      BY <1>1, <2>2, <2>3
    <3> HIDE DEF Done
    <3>2. QED  BY <2>1, <3>1
  <2> DEFINE f == [i \in (L + 1 - n)..(L + 1) |->
                     IF i = L + 1 - n THEN InflateTurn(x, g, i) ELSE g[i]]
  <2>5. \A i \in (L + 1 - n)..(L + 1) : f[i] = InflateTurn(x, f, i)
    <3> TAKE i \in (L + 1 - n)..(L + 1)
    <3>1. i \in 1..Len(x) + 1 /\ (i # L + 1 - n => i \in (L + 1 - (n - 1))..(L + 1))
      BY <1>1, <2>2
    <3>2. f[i] = InflateTurn(x, g, i)
      BY <2>4, <3>1
    <3>3. \A j \in i + 1..Len(x) + 1 : f[j] = g[j]
      BY <1>1, <2>2
    <3> HIDE DEF f
    <3>4. QED  BY <3>1, <3>2, <3>3, TurnLooksBehind
  <2> HIDE DEF f
  <2>6. Done(f, n)
    BY <2>5 DEF f
  <2>7. QED  BY <2>1, <2>6
<1> DEFINE from == CHOOSE f : Answers(x, f)
<1>3. Answers(x, from)
  <2>1. L \in 0..L /\ L + 1 - L = 1
    BY <1>1
  <2>2. \E f : Done(f, L)
    <3> HIDE DEF Done
    <3>1. QED  BY <1>2, <2>1
  <2>3. \E f : Answers(x, f)
    BY <2>1, <2>2 DEF Answers
  <2>4. QED  BY <2>3
<1>4. InflateRange(x) = from[1]
  BY DEF InflateRange, Answers
<1>5. QED  BY <1>3, <1>4

\* Each of the answers is one.
LEMMA AnswersTyped ==
  ASSUME NEW U, NEW x \in Seq(U), AreUnits(U), NEW f, Answers(x, f),
         NEW i \in 1..Len(x) + 1
  PROVE  /\ f[i] = InflateTurn(x, f, i)
         /\ f[i] \in Answer(U) /\ f[i].used <= Len(x) /\ (~f[i].ok => f[i].used = 0)
<1> DEFINE L == Len(x)
           Sound(r) == r \in Answer(U) /\ r.used <= L /\ (~r.ok => r.used = 0)
           Wrong == {n \in 0..L : ~Sound(f[L + 1 - n])}
<1>1. L \in Nat
  BY LenProperties
<1>2. \A k \in 1..L + 1 : f[k] = InflateTurn(x, f, k)
  BY <1>1 DEF Answers
<1>3. Wrong = {}
  <2> SUFFICES ASSUME Wrong # {} PROVE FALSE
    OBVIOUS
  <2>1. PICK n \in Wrong : \A m \in Wrong : n <= m
    <3>1. Wrong \subseteq Nat
      BY <1>1
    <3>2. QED  BY <3>1, LeastElement
  <2> DEFINE k == L + 1 - n
  <2>2. k \in 1..L + 1 /\ f[k] = InflateTurn(x, f, k) /\ ~Sound(f[k])
    BY <1>1, <1>2, <2>1
  <2>3. \A j \in k + 1..L + 1 : Sound(f[j])
    <3> TAKE j \in k + 1..L + 1
    <3>1. L + 1 - j \in 0..L /\ ~(n <= L + 1 - j) /\ L + 1 - (L + 1 - j) = j
      BY <1>1, <2>1
    <3> HIDE DEF Sound
    <3>2. QED  BY <2>1, <3>1
  <2> HIDE DEF k
  <2>4. <<>> \in Seq(U)
    BY EmptySeq
  <2>5. CASE k >= L \/ x[k].kind \in {"foreign", "data"}
    BY <1>1, <2>2, <2>4, <2>5 DEF InflateTurn, Waits, Fails, Answer
  <2>6. CASE ~(k >= L) /\ x[k].kind \notin {"foreign", "data"}
    <3>1. x[k] \in U
      BY <1>1, <2>2, <2>6, ElementOfSeq
    <3>2. x[k].size \in Nat \ {0, 1}
      BY <2>6, <3>1 DEF IsUnit, AreUnits
    <3>3. CASE k + x[k].size > L + 1
      BY <1>1, <2>2, <2>4, <2>6, <3>2, <3>3 DEF InflateTurn, Waits, Fails, Answer
    <3>4. CASE ~(k + x[k].size > L + 1)
      <4>1. /\ SubSeq(x, k + 1, k + x[k].size - 2) \in Seq(U)
            /\ SubSeq(x, k + 1, k + x[k].size - 1) \in Seq(U)
        <5> DEFINE s == x[k].size
        <5>1. s \in Nat \ {0, 1} /\ ~(k + s > L + 1) /\ k \in 1..L + 1
          BY <2>2, <3>2, <3>4
        <5> HIDE DEF s
        <5>2. /\ k \in Nat
              /\ k + s - 2 \in Nat /\ k + s - 2 <= L /\ k + s - 1 \in Nat /\ k + s - 1 <= L
          BY <1>1, <5>1
        <5>3. SubSeq(x, k + 1, k + s - 2) \in Seq(U) /\ SubSeq(x, k + 1, k + s - 1) \in Seq(U)
          BY <5>2, Piece
        <5>4. QED  BY <5>3 DEF s
      <4>2. CASE x[k].kind = "broken"
        BY <1>1, <2>2, <2>6, <3>2, <3>4, <4>1, <4>2 DEF InflateTurn, Waits, Fails, Answer
      <4>3. CASE x[k].kind # "broken"
        <5> DEFINE r == f[k + x[k].size]
                   c == SubSeq(x, k + 1, k + x[k].size - 1)
        <5>1. Sound(r)
          BY <1>1, <2>2, <2>3, <3>2, <3>4, SMTT(30)
        <5>2. f[k] = [r EXCEPT !.out = c \o @]
          BY <2>2, <2>6, <3>2, <3>4, <4>3 DEF InflateTurn, Waits, Fails
        <5>3. c \in Seq(U)
          BY <4>1
        <5> HIDE DEF r, c
        <5>4. c \o r.out \in Seq(U)
          BY <5>1, <5>3, ConcatProperties DEF Answer
        <5>5. Sound(f[k])
          BY <5>1, <5>2, <5>4 DEF Answer
        <5>6. QED  BY <2>2, <5>5
      <4>4. QED  BY <4>2, <4>3
    <3>5. QED  BY <3>3, <3>4
  <2>7. QED  BY <2>5, <2>6
<1>4. L + 1 - i \in 0..L /\ L + 1 - (L + 1 - i) = i
  BY <1>1
<1>5. Sound(f[i])
  <2> HIDE DEF Sound
  <2>1. QED  BY <1>3, <1>4
<1>6. QED  BY <1>2, <1>5

\* An answer at a place n units behind.
Later(r, n) == [ok |-> r.ok, used |-> IF r.ok THEN n + r.used ELSE 0, out |-> r.out]

LEMMA WaitsLater ==
  ASSUME NEW n \in Nat, NEW k \in Nat \ {0}
  PROVE  Waits(n + k) = Later(Waits(k), n)
BY DEF Waits, Later

LEMMA FailsLater ==
  ASSUME NEW n, NEW out
  PROVE  Fails(out) = Later(Fails(out), n)
BY DEF Fails, Later

\* What is answered at a place depends on what follows only.
LEMMA AnswersShift ==
  ASSUME NEW U, NEW x \in Seq(U), AreUnits(U), NEW f, Answers(x, f),
         NEW n \in 0..Len(x), NEW g, Answers(SubSeq(x, n + 1, Len(x)), g),
         NEW i \in 1..Len(SubSeq(x, n + 1, Len(x))) + 1
  PROVE  f[n + i] = Later(g[i], n)
<1> DEFINE y == SubSeq(x, n + 1, Len(x))
           L == Len(x)
           K == Len(y)
           Wrong == {m \in 0..K : f[n + (K + 1 - m)] # Later(g[K + 1 - m], n)}
<1>1. L \in Nat /\ K = L - n /\ K \in Nat /\ n \in Nat
  BY LenProperties, Piece
<1>2. \A k \in 1..K : y[k] = x[n + k]
  BY <1>1, Piece
<1>8. y \in Seq(U) /\ Answers(y, g) /\ i \in 1..Len(y) + 1
  BY <1>1, Piece
<1> HIDE DEF y
<1>3. \A k \in 1..L + 1 : f[k] = InflateTurn(x, f, k)
  BY AnswersTyped
<1>4. \A k \in 1..K + 1 : g[k] = InflateTurn(y, g, k) /\ g[k] \in Answer(U)
  BY <1>8, AnswersTyped
<1>5. Wrong = {}
  <2> SUFFICES ASSUME Wrong # {} PROVE FALSE
    OBVIOUS
  <2>1. PICK m \in Wrong : \A q \in Wrong : m <= q
    <3>1. Wrong \subseteq Nat
      BY <1>1
    <3>2. QED  BY <3>1, LeastElement
  <2> DEFINE k == K + 1 - m
  <2>2. k \in 1..K + 1 /\ n + k \in 1..L + 1 /\ f[n + k] # Later(g[k], n)
    BY <1>1, <2>1, SMTT(30)
  <2>3. \A j \in k + 1..K + 1 : f[n + j] = Later(g[j], n)
    <3> TAKE j \in k + 1..K + 1
    <3>1. K + 1 - j \in 0..K /\ ~(m <= K + 1 - j) /\ K + 1 - (K + 1 - j) = j
      BY <1>1, <2>1
    <3>2. QED  BY <2>1, <3>1
  <2> HIDE DEF k
  <2> HIDE DEF L, K, Wrong
  <2>4. f[n + k] = InflateTurn(x, f, n + k) /\ g[k] = InflateTurn(y, g, k)
    BY <1>3, <1>4, <2>2
  <2>5. CASE k >= K
    <3>1. n + k >= L
      BY <1>1, <2>2, <2>5
    <3>2. f[n + k] = Waits(n + k) /\ g[k] = Waits(k)
      BY <2>4, <2>5, <3>1 DEF InflateTurn, L, K
    <3>3. QED  BY <1>1, <2>2, <3>2, WaitsLater
  <2>6. CASE ~(k >= K)
    <3> DEFINE s == x[n + k].size
    <3>6. k \in 1..K
      BY <1>1, <2>2, <2>6
    <3>7. y[k] = x[n + k]
      BY <1>2, <3>6
    <3>8. ~(n + k >= L) /\ n + k \in 1..L
      BY <1>1, <2>2, <2>6, <3>6
    <3>1. y[k] = x[n + k] /\ ~(n + k >= L) /\ n + k \in 1..L
      BY <3>7, <3>8
    <3>5. x[n + k] \in U
      BY <3>1, ElementOfSeq DEF L
    <3>2. CASE x[n + k].kind \in {"foreign", "data"}
      <4>1. f[n + k] = Fails(<<>>) /\ g[k] = Fails(<<>>)
        BY <2>4, <2>6, <3>1, <3>2 DEF InflateTurn, L, K
      <4>2. QED  BY <2>2, <4>1 DEF Fails, Later
    <3>3. CASE x[n + k].kind \notin {"foreign", "data"}
      <4>1. s \in Nat \ {0, 1}
        BY <3>3, <3>5 DEF IsUnit, AreUnits
      <4> HIDE DEF s
      <4>2. k + s > K + 1 <=> n + k + s > L + 1
        BY <1>1, <2>2, <4>1
      <4>3. CASE k + s > K + 1
        <5>1. f[n + k] = Waits(n + k) /\ g[k] = Waits(k)
          BY <2>4, <2>6, <3>1, <3>3, <4>2, <4>3 DEF InflateTurn, L, K, s
        <5>2. QED  BY <1>1, <2>2, <5>1, WaitsLater
      <4>4. CASE ~(k + s > K + 1)
        <5>1. \A e \in {1, 2} : SubSeq(y, k + 1, k + s - e) = SubSeq(x, n + k + 1, n + k + s - e)
          <6> TAKE e \in {1, 2}
          <6>1. /\ n + k + 1 = (n + k) + 1 /\ k \in Nat /\ k + s - e \in Nat
                /\ n + k \in Nat /\ n + k + s - e \in Nat
                /\ k + s - e <= K /\ n + k + s - e <= L
                /\ (n + k + s - e) - (n + k) = (k + s - e) - k
            BY <1>1, <2>2, <4>1, <4>4
          <6>8. L = Len(x) /\ K = Len(y)
            BY DEF L, K
          <6> DEFINE a == SubSeq(y, k + 1, k + s - e)
                     b == SubSeq(x, (n + k) + 1, n + k + s - e)
          <6>2. /\ a \in Seq(U)
                /\ Len(a) = IF k <= k + s - e THEN (k + s - e) - k ELSE 0
                /\ \A j \in 1..(k + s - e) - k : a[j] = y[k + j]
            <7> DEFINE hi == k + s - e
            <7>1. k \in Nat /\ hi \in Nat /\ hi <= Len(y)
              BY <6>1, <6>8
            <7> HIDE DEF hi
            <7>2. /\ SubSeq(y, k + 1, hi) \in Seq(U)
                  /\ Len(SubSeq(y, k + 1, hi)) = IF k <= hi THEN hi - k ELSE 0
                  /\ \A j \in 1..hi - k : SubSeq(y, k + 1, hi)[j] = y[k + j]
              BY <1>8, <7>1, Piece, SMTT(30)
            <7>3. QED  BY <7>2 DEF hi
          <6>3. /\ b \in Seq(U)
                /\ Len(b) = IF n + k <= n + k + s - e THEN (n + k + s - e) - (n + k) ELSE 0
                /\ \A j \in 1..(n + k + s - e) - (n + k) : b[j] = x[n + k + j]
            <7> DEFINE lo == n + k
                       hi == n + k + s - e
            <7>1. lo \in Nat /\ hi \in Nat /\ hi <= Len(x)
              BY <6>1, <6>8
            <7> HIDE DEF lo, hi
            <7>2. /\ SubSeq(x, lo + 1, hi) \in Seq(U)
                  /\ Len(SubSeq(x, lo + 1, hi)) = IF lo <= hi THEN hi - lo ELSE 0
                  /\ \A j \in 1..hi - lo : SubSeq(x, lo + 1, hi)[j] = x[lo + j]
              BY <7>1, Piece
            <7>3. QED  BY <7>2 DEF lo, hi
          <6> HIDE DEF a, b
          <6>4. Len(a) = Len(b) /\ Len(a) = s - e
            BY <1>1, <2>2, <4>1, <6>1, <6>2, <6>3
          <6>5. \A j \in 1..Len(a) : a[j] = b[j]
            <7> TAKE j \in 1..Len(a)
            <7>1. /\ k + j \in 1..K /\ n + (k + j) = n + k + j
                  /\ j \in 1..(k + s - e) - k /\ j \in 1..(n + k + s - e) - (n + k)
              BY <1>1, <2>2, <4>1, <6>1, <6>4
            <7>2. a[j] = y[k + j] /\ b[j] = x[n + k + j]
              BY <6>2, <6>3, <7>1
            <7>3. y[k + j] = x[n + (k + j)]
              BY <1>2, <7>1
            <7>4. QED  BY <7>1, <7>2, <7>3
          <6>6. a = b
            BY <6>2, <6>3, <6>4, <6>5, SeqEqual
          <6>7. QED  BY <6>1, <6>6 DEF a, b
        <5>2. CASE x[n + k].kind = "broken"
          <6>1. /\ f[n + k] = Fails(SubSeq(x, n + k + 1, n + k + s - 2))
                /\ g[k] = Fails(SubSeq(y, k + 1, k + s - 2))
            BY <2>4, <2>6, <3>1, <3>3, <4>2, <4>4, <5>2 DEF InflateTurn, L, K, s
          <6>2. SubSeq(y, k + 1, k + s - 2) = SubSeq(x, n + k + 1, n + k + s - 2)
            BY <5>1
          <6>3. QED  BY <2>2, <6>1, <6>2, FailsLater
        <5>3. CASE x[n + k].kind # "broken"
          <6> DEFINE c == SubSeq(x, n + k + 1, n + k + s - 1)
                     r == g[k + s]
                     t == f[n + k + s]
          <6>1. f[n + k] = [t EXCEPT !.out = c \o @]
            BY <2>4, <3>1, <3>3, <4>2, <4>4, <5>3 DEF InflateTurn, L, s
          <6>8. SubSeq(y, k + 1, k + s - 1) = c
            BY <5>1
          <6>2. g[k] = [r EXCEPT !.out = c \o @]
            BY <2>4, <2>6, <3>1, <3>3, <4>4, <5>3, <6>8 DEF InflateTurn, K, s
          <6>3. k + s \in k + 1..K + 1 /\ n + (k + s) = n + k + s
            BY <1>1, <2>2, <4>1, <4>4
          <6>4. t = Later(r, n)
            BY <2>3, <6>3
          <6>5. r \in Answer(U)
            BY <1>1, <1>4, <2>2, <6>3
          <6> HIDE DEF r, t, c
          <6>6. f[n + k] = Later(g[k], n)
            BY <6>1, <6>2, <6>4, <6>5 DEF Answer, Later
          <6>7. QED  BY <2>2, <6>6
        <5>4. QED  BY <5>2, <5>3
      <4>5. QED  BY <4>3, <4>4
    <3>4. QED  BY <3>2, <3>3
  <2>7. QED  BY <2>5, <2>6
<1>6. K + 1 - i \in 0..K /\ K + 1 - (K + 1 - i) = i
  BY <1>1, <1>8
<1>7. QED  BY <1>5, <1>6

\* dzip_inflate_range uses no more than there is, and nothing when it fails.
LEMMA InflateTyped ==
  ASSUME NEW U, NEW x \in Seq(U), AreUnits(U)
  PROVE  /\ InflateRange(x) \in Answer(U) /\ InflateRange(x).used <= Len(x)
         /\ ~InflateRange(x).ok => InflateRange(x).used = 0
<1>1. PICK f : Answers(x, f) /\ InflateRange(x) = f[1]
  BY InflateAnswers
<1>2. 1 \in 1..Len(x) + 1
  BY LenProperties
<1>3. QED  BY <1>1, <1>2, AnswersTyped

\* The three things that may be at the front of x: a chunk that is not all there, what
\* is no chunk or a broken one, and a chunk.
Short(x) == \/ Len(x) < 2
            \/ x[1].kind \notin {"foreign", "data"} /\ x[1].size > Len(x)
Senseless(x) == /\ Len(x) >= 2
                /\ \/ x[1].kind \in {"foreign", "data"}
                   \/ x[1].kind = "broken" /\ x[1].size <= Len(x)
Whole(x) == /\ Len(x) >= 2 /\ x[1].kind \notin {"foreign", "data", "broken"}
            /\ x[1].size <= Len(x)

LEMMA FrontIs ==
  ASSUME NEW U, NEW x \in Seq(U), AreUnits(U)
  PROVE  /\ Short(x) \/ Senseless(x) \/ Whole(x)
         /\ Whole(x) => x[1].size \in Nat \ {0, 1}
<1>1. Len(x) \in Nat
  BY LenProperties
<1>2. CASE Len(x) < 2
  BY <1>1, <1>2 DEF Short, Whole
<1>3. CASE Len(x) >= 2
  <2>1. x[1] \in U
    BY <1>1, <1>3, ElementOfSeq
  <2>2. x[1].kind \in {"foreign", "data"} \/ x[1].size \in Nat \ {0, 1}
    BY <2>1 DEF IsUnit, AreUnits
  <2>3. QED  BY <1>1, <1>3, <2>2 DEF Short, Senseless, Whole
<1>4. QED  BY <1>1, <1>2, <1>3

\* It waits for a chunk that is not all there.
LEMMA InflateWaits ==
  ASSUME NEW U, NEW x \in Seq(U), AreUnits(U),
         Short(x)
  PROVE  InflateRange(x) = [ok |-> TRUE, used |-> 0, out |-> <<>>]
<1> USE DEF Short
<1>1. PICK f : Answers(x, f) /\ InflateRange(x) = f[1]
  BY InflateAnswers
<1>2. Len(x) \in Nat
  BY LenProperties
<1>3. InflateRange(x) = InflateTurn(x, f, 1)
  BY <1>1, <1>2, AnswersTyped
<1>4. CASE Len(x) < 2
  <2>1. 1 >= Len(x) /\ 1 - 1 = 0
    BY <1>2, <1>4
  <2>2. QED  BY <1>3, <2>1 DEF InflateTurn, Waits
<1>5. CASE ~(Len(x) < 2)
  <2>1. x[1] \in U /\ ~(1 >= Len(x))
    BY <1>2, <1>5, ElementOfSeq
  <2>2. x[1].size \in Nat
    BY <1>5, <2>1 DEF IsUnit, AreUnits
  <2>3. 1 + x[1].size > Len(x) + 1 /\ 1 - 1 = 0
    BY <1>2, <1>5, <2>2
  <2>4. QED  BY <1>3, <1>5, <2>1, <2>3 DEF InflateTurn, Waits
<1>6. QED  BY <1>4, <1>5

\* It stops at what is no chunk, and at one that is broken.
LEMMA InflateFails ==
  ASSUME NEW U, NEW x \in Seq(U), AreUnits(U), Senseless(x)
  PROVE  ~InflateRange(x).ok
<1> USE DEF Senseless
<1>1. PICK f : Answers(x, f) /\ InflateRange(x) = f[1]
  BY InflateAnswers
<1>2. Len(x) \in Nat
  BY LenProperties
<1>3. InflateRange(x) = InflateTurn(x, f, 1) /\ ~(1 >= Len(x))
  BY <1>1, <1>2, AnswersTyped
<1>4. CASE x[1].kind \in {"foreign", "data"}
  BY <1>3, <1>4 DEF InflateTurn, Fails
<1>5. CASE x[1].kind = "broken" /\ x[1].size <= Len(x)
  <2>1. x[1] \in U
    BY <1>2, ElementOfSeq
  <2>2. x[1].size \in Nat /\ x[1].kind \notin {"foreign", "data"}
    BY <1>5, <2>1 DEF IsUnit, AreUnits
  <2>3. ~(1 + x[1].size > Len(x) + 1)
    BY <1>2, <1>5, <2>2
  <2>4. QED  BY <1>3, <1>5, <2>2, <2>3 DEF InflateTurn, Fails
<1>6. QED  BY <1>4, <1>5

\* The chunk at the front of x, and what follows it.
Content(x) == SubSeq(x, 2, x[1].size)
After(x) == SubSeq(x, x[1].size + 1, Len(x))

\* It goes on behind a chunk that is good.
LEMMA InflateGoesOn ==
  ASSUME NEW U, NEW x \in Seq(U), AreUnits(U), Whole(x)
  PROVE  InflateRange(x) =
           [ok |-> InflateRange(After(x)).ok,
            used |-> IF InflateRange(After(x)).ok
                     THEN x[1].size + InflateRange(After(x)).used ELSE 0,
            out |-> Content(x) \o InflateRange(After(x)).out]
<1> DEFINE s == x[1].size
           y == After(x)
           rest == InflateRange(y)
<1>1. PICK f : Answers(x, f) /\ InflateRange(x) = f[1]
  BY InflateAnswers
<1>2. Len(x) \in Nat
  BY LenProperties
<1>3. InflateRange(x) = InflateTurn(x, f, 1) /\ ~(1 >= Len(x))
  BY <1>1, <1>2, AnswersTyped DEF Whole
<1>4. s \in Nat \ {0, 1}
  BY FrontIs
<1>5. ~(1 + s > Len(x) + 1) /\ 1 + 1 = 2 /\ 1 + s - 1 = s /\ 1 + s = s + 1
      /\ s <= Len(x)
  BY <1>2, <1>4, SMTT(30) DEF Whole
<1> DEFINE c == SubSeq(x, 2, s)
           r == f[s + 1]
<1>6. InflateRange(x) = [r EXCEPT !.out = c \o @]
  BY <1>3, <1>5 DEF InflateTurn, Whole
<1>7. y \in Seq(U) /\ Len(y) \in Nat /\ s \in 0..Len(x)
  BY <1>2, <1>4, <1>5, Piece, LenProperties DEF After
<1>9. PICK g : Answers(y, g) /\ rest = g[1]
  <2> HIDE DEF y
  <2>1. QED  BY <1>7, InflateAnswers
<1>10. 1 \in 1..Len(y) + 1
  <2> HIDE DEF y
  <2>1. QED  BY <1>7
<1>11. r = Later(rest, s)
  <2>1. f[s + 1] = Later(g[1], s)
    BY <1>1, <1>7, <1>9, <1>10, AnswersShift, SMTT(30) DEF After
  <2>2. QED  BY <1>9, <2>1
<1> HIDE DEF r, c, y, rest, s
<1>12. InflateRange(x) = [ok |-> rest.ok, used |-> IF rest.ok THEN s + rest.used ELSE 0,
                          out |-> c \o rest.out]
  BY <1>6, <1>11 DEF Later
<1>13. QED  BY <1>12 DEF c, s, y, rest, Content

-----------------------------------------------------------------------------
\* A stream that is all used is whole chunks only.
Ok(x) == InflateRange(x).ok
Used(x) == InflateRange(x).used
AllUsed(x) == Ok(x) /\ Used(x) = Len(x)

\* Nothing comes of x, and no error.
MeansNothing(x) == Ok(x) /\ Used(x) = 0 /\ Plain(x) = <<>>

LEMMA EmptyInflates ==
  ASSUME NEW U, AreUnits(U)
  PROVE  AllUsed(<<>>) /\ MeansNothing(<<>>)
<1>1. <<>> \in Seq(U) /\ Len(<<>>) = 0 /\ Short(<<>>)
  BY EmptySeq DEF Short
<1>2. InflateRange(<<>>) = [ok |-> TRUE, used |-> 0, out |-> <<>>]
  BY <1>1, InflateWaits
<1>3. QED  BY <1>1, <1>2 DEF AllUsed, MeansNothing, Ok, Used, Plain

\* A chunk that is not all there means nothing yet.
LEMMA ShortMeansNothing ==
  ASSUME NEW U, AreUnits(U), NEW x \in Seq(U), Short(x)
  PROVE  MeansNothing(x)
<1>1. InflateRange(x) = [ok |-> TRUE, used |-> 0, out |-> <<>>]
  BY InflateWaits
<1>2. QED  BY <1>1 DEF MeansNothing, Ok, Used, Plain

\* What stands at the front of a stream that goes well.
LEMMA OkIsWhole ==
  ASSUME NEW U, AreUnits(U), NEW x \in Seq(U), Ok(x), ~Short(x)
  PROVE  Whole(x)
BY FrontIs, InflateFails DEF Ok

\* What is made of a stream that has a chunk at its front.
LEMMA FirstChunk ==
  ASSUME NEW U, NEW x \in Seq(U), AreUnits(U), Whole(x)
  PROVE  /\ x[1].size \in Nat \ {0, 1} /\ x[1].size <= Len(x)
         /\ After(x) \in Seq(U) /\ Len(After(x)) = Len(x) - x[1].size
         /\ Len(After(x)) < Len(x)
         /\ Content(x) \in Seq(U)
         /\ InflateRange(After(x)) \in Answer(U)
         /\ InflateRange(x).ok = InflateRange(After(x)).ok
         /\ InflateRange(x).used = IF InflateRange(After(x)).ok
                                    THEN x[1].size + InflateRange(After(x)).used ELSE 0
         /\ InflateRange(x).out = Content(x) \o InflateRange(After(x)).out
<1> DEFINE s == x[1].size
<1>1. s \in Nat \ {0, 1} /\ s <= Len(x) /\ Len(x) \in Nat
  BY FrontIs, LenProperties DEF Whole
<1>2. Content(x) = SubSeq(x, 1 + 1, s) /\ After(x) = SubSeq(x, s + 1, Len(x))
  BY DEF Content, After
<1>6. InflateRange(x) =
        [ok |-> InflateRange(After(x)).ok,
         used |-> IF InflateRange(After(x)).ok
                  THEN x[1].size + InflateRange(After(x)).used ELSE 0,
         out |-> Content(x) \o InflateRange(After(x)).out]
  BY InflateGoesOn
<1>7. /\ InflateRange(x).ok = InflateRange(After(x)).ok
      /\ InflateRange(x).used = IF InflateRange(After(x)).ok
                                 THEN s + InflateRange(After(x)).used ELSE 0
      /\ InflateRange(x).out = Content(x) \o InflateRange(After(x)).out
  <2> DEFINE q == InflateRange(After(x))
  <2> HIDE DEF s, q
  <2>1. InflateRange(x) = [ok |-> q.ok, used |-> IF q.ok THEN s + q.used ELSE 0,
                           out |-> Content(x) \o q.out]
    BY <1>6 DEF q, s
  <2>2. /\ InflateRange(x).ok = q.ok
        /\ InflateRange(x).used = (IF q.ok THEN s + q.used ELSE 0)
        /\ InflateRange(x).out = Content(x) \o q.out
    BY <2>1
  <2>3. QED  BY <2>2 DEF q
<1>3. Content(x) \in Seq(U) /\ After(x) \in Seq(U) /\ Len(After(x)) = Len(x) - s
  <2> HIDE DEF s
  <2>1. Content(x) \in Seq(U)
    BY <1>1, <1>2, Piece
  <2>2. After(x) \in Seq(U) /\ Len(After(x)) = Len(x) - s
    BY <1>1, <1>2, Piece
  <2>3. QED  BY <2>1, <2>2
<1>4. Len(After(x)) < Len(x)
  BY <1>1, <1>3
<1>5. InflateRange(After(x)) \in Answer(U)
  BY <1>3, InflateTyped
<1>8. QED  BY <1>1, <1>3, <1>4, <1>5, <1>7

\* dzip_inflate_range may be called on a stream part by part: when the first part is
\* whole chunks, what comes of both parts is what comes of one after the other.
LEMMA Compose ==
  ASSUME NEW U, AreUnits(U), NEW x \in Seq(U), NEW y \in Seq(U), AllUsed(x)
  PROVE  InflateRange(x \o y) =
           [ok |-> InflateRange(y).ok,
            used |-> IF InflateRange(y).ok THEN Len(x) + InflateRange(y).used ELSE 0,
            out |-> InflateRange(x).out \o InflateRange(y).out]
<1> DEFINE r == InflateRange(y)
           Composes(a) ==
             InflateRange(a \o y) =
               [ok |-> r.ok, used |-> IF r.ok THEN Len(a) + r.used ELSE 0,
                out |-> InflateRange(a).out \o r.out]
           Wrong == {n \in Nat : \E a \in Seq(U) : Len(a) = n /\ AllUsed(a) /\ ~Composes(a)}
<1>1. r \in Answer(U) /\ (~r.ok => r.used = 0) /\ Len(y) \in Nat
  BY InflateTyped, LenProperties
<1>2. Wrong = {}
  <2> SUFFICES ASSUME Wrong # {} PROVE FALSE
    OBVIOUS
  <2>1. PICK n \in Wrong : \A m \in Wrong : n <= m
    <3>1. Wrong \subseteq Nat
      OBVIOUS
    <3> HIDE DEF Wrong
    <3>2. QED  BY <3>1, LeastElement
  <2>2. PICK a \in Seq(U) : Len(a) = n /\ AllUsed(a) /\ ~Composes(a)
    BY <2>1
  <2>3. \A b \in Seq(U) : Len(b) < Len(a) /\ AllUsed(b) => Composes(b)
    <3> SUFFICES ASSUME NEW b \in Seq(U), Len(b) < Len(a), AllUsed(b) PROVE Composes(b)
      OBVIOUS
    <3>1. Len(b) \in Nat /\ n \in Nat /\ ~(n <= Len(b))
      BY <2>1, <2>2, LenProperties
    <3> HIDE DEF Composes
    <3>2. QED  BY <2>1, <3>1
  <2> HIDE DEF Wrong
  <2>4. CASE Short(a)
    <3>1. InflateRange(a) = [ok |-> TRUE, used |-> 0, out |-> <<>>]
      BY <2>4, InflateWaits
    <3>2. Len(a) = 0
      BY <2>2, <3>1 DEF AllUsed, Ok, Used
    <3>3. a = <<>>
      BY <3>2, EmptySeq
    <3>4. a \o y = y /\ <<>> \o r.out = r.out
      BY <1>1, <3>3, ConcatEmptySeq DEF Answer
    <3>5. r = [ok |-> r.ok, used |-> IF r.ok THEN 0 + r.used ELSE 0, out |-> r.out]
      <4> HIDE DEF r
      <4>1. QED  BY <1>1 DEF Answer
    <3>6. QED  BY <2>2, <3>1, <3>2, <3>4, <3>5
  <2>5. CASE ~Short(a)
    <3>1. Whole(a)
      BY <2>2, <2>5, OkIsWhole DEF AllUsed, Ok, Used
    <3> DEFINE s == a[1].size
               t == After(a)
               b == a \o y
               w == InflateRange(t)
               q == InflateRange(t \o y)
    <3>2. /\ s \in Nat \ {0, 1} /\ s <= Len(a)
          /\ t \in Seq(U) /\ Len(t) = Len(a) - s /\ Len(t) < Len(a)
          /\ Content(a) \in Seq(U) /\ w \in Answer(U)
          /\ InflateRange(a).ok = w.ok
          /\ InflateRange(a).used = (IF w.ok THEN s + w.used ELSE 0)
          /\ InflateRange(a).out = Content(a) \o w.out
      BY <3>1, FirstChunk
    <3>3. /\ b \in Seq(U) /\ Len(b) = Len(a) + Len(y) /\ Len(a) \in Nat
          /\ \A i \in 1..Len(a) : b[i] = a[i]
      BY ConcatProperties, LenProperties
    <3>4. Whole(b) /\ b[1].size = s
      <4>1. b[1] = a[1]
        BY <3>2, <3>3
      <4> HIDE DEF b
      <4>2. Len(b) >= 2 /\ s <= Len(b)
        <5> HIDE DEF s
        <5>1. Len(a) >= 2
          BY <3>1 DEF Whole
        <5>2. QED  BY <1>1, <3>2, <3>3, <5>1
      <4>3. QED  BY <3>1, <4>1, <4>2 DEF Whole
    <3>5. AllUsed(t)
      <4> HIDE DEF w, t, s
      <4>1. w.ok /\ s + w.used = Len(a)
        BY <2>2, <3>2 DEF AllUsed, Ok, Used
      <4>2. w.used \in Nat
        BY <3>2 DEF Answer
      <4>3. w.used = Len(t)
        BY <3>2, <3>3, <4>1, <4>2
      <4>4. QED  BY <4>1, <4>3 DEF AllUsed, Ok, Used, w
    <3>6. After(b) = t \o y /\ Content(b) = Content(a)
      <4>1. SubSeq(b, s + 1, Len(b)) = SubSeq(a, s + 1, Len(a)) \o y
        <5> HIDE DEF s
        <5>1. QED  BY <3>2, TailOfConcat
      <4>2. SubSeq(b, 2, s) = SubSeq(a, 2, s)
        <5> HIDE DEF s
        <5>1. QED  BY <3>2, FrontOfConcat
      <4>3. QED  BY <3>4, <4>1, <4>2 DEF After, Content
    <3>8. InflateRange(b) = [ok |-> q.ok, used |-> IF q.ok THEN s + q.used ELSE 0,
                             out |-> Content(a) \o q.out]
      <4> HIDE DEF b
      <4>1. InflateRange(b) =
              [ok |-> InflateRange(After(b)).ok,
               used |-> IF InflateRange(After(b)).ok
                        THEN b[1].size + InflateRange(After(b)).used ELSE 0,
               out |-> Content(b) \o InflateRange(After(b)).out]
        BY <3>3, <3>4, InflateGoesOn
      <4>2. InflateRange(After(b)) = q
        BY <3>6
      <4>3. QED  BY <3>4, <3>6, <4>1, <4>2
    <3>9. InflateRange(t \o y) = [ok |-> r.ok, used |-> IF r.ok THEN Len(t) + r.used ELSE 0,
                                  out |-> w.out \o r.out]
      BY <2>3, <3>2, <3>5
    <3>10. (Content(a) \o w.out) \o r.out = Content(a) \o (w.out \o r.out)
      <4> HIDE DEF w, r
      <4> DEFINE p1 == Content(a)
                 p2 == w.out
                 p3 == r.out
      <4>1. p1 \in Seq(U) /\ p2 \in Seq(U) /\ p3 \in Seq(U)
        BY <1>1, <3>2 DEF Answer
      <4> HIDE DEF p1, p2, p3
      <4>2. (p1 \o p2) \o p3 = p1 \o (p2 \o p3)
        BY <4>1, Associates, SMTT(30)
      <4>3. QED  BY <4>2 DEF p1, p2, p3
    <3>11. QED
      <4> HIDE DEF q, w, r, s, t, b
      <4>1. q = [ok |-> r.ok, used |-> IF r.ok THEN Len(t) + r.used ELSE 0,
                 out |-> w.out \o r.out]
        BY <3>9 DEF q
      <4>2. r.used \in Nat
        BY <1>1 DEF Answer
      <4>3. r.ok => s + q.used = Len(a) + r.used
        BY <3>2, <3>3, <4>1, <4>2
      <4>4. InflateRange(b) = [ok |-> r.ok, used |-> IF r.ok THEN Len(a) + r.used ELSE 0,
                               out |-> Content(a) \o (w.out \o r.out)]
        BY <3>8, <4>1, <4>3
      <4>5. InflateRange(b) = [ok |-> r.ok, used |-> IF r.ok THEN Len(a) + r.used ELSE 0,
                               out |-> InflateRange(a).out \o r.out]
        BY <3>2, <3>10, <4>4
      <4>6. QED  BY <2>2, <4>5 DEF b, r
  <2>6. QED  BY <2>4, <2>5
<1>3. Len(x) \in Nat
  BY LenProperties
<1>4. Composes(x)
  <2> HIDE DEF Composes
  <2>1. QED  BY <1>2, <1>3
<1>5. QED  BY <1>4

LEMMA ComposeParts ==
  ASSUME NEW U, AreUnits(U), NEW x \in Seq(U), NEW y \in Seq(U), AllUsed(x)
  PROVE  /\ Ok(x \o y) <=> Ok(y)
         /\ Ok(y) => Used(x \o y) = Len(x) + Used(y)
         /\ Plain(x \o y) = Plain(x) \o Plain(y)
<1> DEFINE r == InflateRange(y)
           o == InflateRange(x).out
<1>1. InflateRange(x \o y) = [ok |-> r.ok, used |-> IF r.ok THEN Len(x) + r.used ELSE 0,
                              out |-> o \o r.out]
  BY Compose
<1> HIDE DEF r, o
<1>2. /\ InflateRange(x \o y).ok <=> r.ok
      /\ r.ok => InflateRange(x \o y).used = Len(x) + r.used
      /\ InflateRange(x \o y).out = o \o r.out
  BY <1>1
<1>3. QED  BY <1>2 DEF r, o, Ok, Used, Plain

LEMMA PartsTyped ==
  ASSUME NEW U, AreUnits(U), NEW x \in Seq(U)
  PROVE  Plain(x) \in Seq(U) /\ Ok(x) \in BOOLEAN /\ Used(x) \in Nat /\ Used(x) <= Len(x)
         /\ (AllUsed(x) <=> Ok(x) /\ Used(x) = Len(x))
<1>1. InflateRange(x) \in Answer(U) /\ InflateRange(x).used <= Len(x)
  BY InflateTyped
<1>2. QED  BY <1>1 DEF Answer, Plain, Ok, Used, AllUsed

\* A stream that has a chunk at its front is that chunk and what follows it.
LEMMA TakeChunk ==
  ASSUME NEW U, NEW x \in Seq(U), AreUnits(U), Whole(x)
  PROVE  \E c, t \in Seq(U) : x = c \o t /\ AllUsed(c) /\ Len(c) \in Nat \ {0, 1}
<1> DEFINE s == x[1].size
           c == SubSeq(x, 0 + 1, s)
           t == After(x)
<1>1. s \in Nat \ {0, 1} /\ s <= Len(x) /\ t \in Seq(U) /\ Len(x) \in Nat
  BY FirstChunk, LenProperties
<1>2. c \in Seq(U) /\ Len(c) = s /\ c[1] = x[1]
  <2> HIDE DEF s
  <2>1. /\ c \in Seq(U) /\ Len(c) = (IF 0 <= s THEN s - 0 ELSE 0)
        /\ \A i \in 1..s - 0 : c[i] = x[0 + i]
    BY <1>1, Piece
  <2>2. 1 \in 1..s - 0 /\ 0 + 1 = 1
    BY <1>1
  <2> HIDE DEF c
  <2>3. c[1] = x[1]
    BY <2>1, <2>2
  <2>4. QED  BY <1>1, <2>1, <2>3
<1>3. x = c \o t
  <2>1. SubSeq(x, 0 + 1, s) \o SubSeq(x, s + 1, Len(x)) = SubSeq(x, 0 + 1, Len(x))
    <3> HIDE DEF s
    <3>1. 0 \in Nat /\ s \in Nat /\ Len(x) \in Nat /\ 0 <= s /\ s <= Len(x) /\ Len(x) <= Len(x)
      BY <1>1
    <3>2. QED  BY <3>1, Adjacent
  <2>2. SubSeq(x, 0 + 1, Len(x)) = x
    BY SubSeqFull
  <2>3. QED  BY <2>1, <2>2 DEF After
<1> HIDE DEF c, t
<1>4. Whole(c) /\ c[1].size = Len(c)
  <2>1. Len(c) >= 2
    <3> HIDE DEF s
    <3>1. QED  BY <1>1, <1>2
  <2>2. QED  BY <1>1, <1>2, <2>1 DEF Whole
<1>5. After(c) = <<>>
  <2>1. Len(c) + 1 \in Int /\ Len(c) \in Int /\ Len(c) < Len(c) + 1
    <3> HIDE DEF s
    <3>1. QED  BY <1>1, <1>2
  <2>2. QED  BY <1>4, <2>1, SubSeqEmpty DEF After
<1>6. AllUsed(c)
  <2>1. /\ InflateRange(c).ok = InflateRange(<<>>).ok
        /\ InflateRange(c).used = IF InflateRange(<<>>).ok
                                   THEN Len(c) + InflateRange(<<>>).used ELSE 0
    BY <1>2, <1>4, <1>5, FirstChunk
  <2>2. InflateRange(<<>>).ok /\ InflateRange(<<>>).used = 0
    BY EmptyInflates DEF MeansNothing, Ok, Used
  <2>3. Len(c) + 0 = Len(c)
    <3> HIDE DEF s
    <3>1. QED  BY <1>1, <1>2
  <2>4. QED  BY <2>1, <2>2, <2>3 DEF AllUsed, Ok, Used
<1>7. QED
  <2> HIDE DEF s
  <2>1. QED  BY <1>1, <1>2, <1>3, <1>6

\* dzip_inflate_range stops behind whole chunks and before what is none yet.
LEMMA Split ==
  ASSUME NEW U, AreUnits(U), NEW x \in Seq(U), Ok(x)
  PROVE  \E a, b \in Seq(U) :
           /\ x = a \o b /\ AllUsed(a) /\ Len(a) = Used(x)
           /\ Plain(a) = Plain(x) /\ MeansNothing(b)
<1> DEFINE Splits(y) ==
             \E a, b \in Seq(U) :
               /\ y = a \o b /\ AllUsed(a) /\ Len(a) = Used(y)
               /\ Plain(a) = Plain(y) /\ MeansNothing(b)
           Wrong == {n \in Nat : \E y \in Seq(U) : Len(y) = n /\ Ok(y) /\ ~Splits(y)}
<1>1. Wrong = {}
  <2> SUFFICES ASSUME Wrong # {} PROVE FALSE
    OBVIOUS
  <2>1. PICK n \in Wrong : \A m \in Wrong : n <= m
    <3>1. Wrong \subseteq Nat
      OBVIOUS
    <3> HIDE DEF Wrong
    <3>2. QED  BY <3>1, LeastElement
  <2>2. PICK y \in Seq(U) : Len(y) = n /\ Ok(y) /\ ~Splits(y)
    BY <2>1
  <2>3. \A t \in Seq(U) : Len(t) < Len(y) /\ Ok(t) => Splits(t)
    <3> SUFFICES ASSUME NEW t \in Seq(U), Len(t) < Len(y), Ok(t) PROVE Splits(t)
      OBVIOUS
    <3>1. Len(t) \in Nat /\ n \in Nat /\ ~(n <= Len(t))
      BY <2>1, <2>2, LenProperties
    <3> HIDE DEF Splits
    <3>2. QED  BY <2>1, <3>1
  <2> HIDE DEF Wrong
  <2>4. CASE Short(y)
    <3>1. MeansNothing(y)
      BY <2>4, ShortMeansNothing
    <3>2. MeansNothing(<<>>) /\ AllUsed(<<>>)
      BY EmptyInflates
    <3>3. <<>> \in Seq(U) /\ Len(<<>>) = 0 /\ y = <<>> \o y
      BY EmptySeq, ConcatEmptySeq
    <3>4. Splits(y)
      <4>1. /\ y = <<>> \o y /\ AllUsed(<<>>) /\ Len(<<>>) = Used(y)
            /\ Plain(<<>>) = Plain(y) /\ MeansNothing(y)
        BY <3>1, <3>2, <3>3 DEF MeansNothing
      <4>2. QED  BY <3>3, <4>1
    <3>5. QED  BY <2>2, <3>4
  <2>5. CASE ~Short(y)
    <3>1. PICK c, t \in Seq(U) : y = c \o t /\ AllUsed(c) /\ Len(c) \in Nat \ {0, 1}
      BY <2>2, <2>5, OkIsWhole, TakeChunk
    <3>2. /\ Ok(y) <=> Ok(t)
          /\ Ok(t) => Used(y) = Len(c) + Used(t)
          /\ Plain(y) = Plain(c) \o Plain(t)
      <4>1. AllUsed(c)
        BY <3>1
      <4>2. /\ Ok(c \o t) <=> Ok(t)
            /\ Ok(t) =>
                 Used(c \o t) = Len(c) + Used(t)
            /\ Plain(c \o t) = Plain(c) \o Plain(t)
        BY <4>1, ComposeParts
      <4>3. QED  BY <3>1, <4>2
    <3>3. Len(y) = Len(c) + Len(t) /\ Len(t) \in Nat
      BY <3>1, ConcatProperties, LenProperties
    <3>4. Len(t) < Len(y)
      BY <3>1, <3>3
    <3>5. PICK a, b \in Seq(U) :
            /\ t = a \o b /\ AllUsed(a) /\ Len(a) = Used(t)
            /\ Plain(a) = Plain(t) /\ MeansNothing(b)
      BY <2>2, <2>3, <3>2, <3>4
    <3>6. c \o a \in Seq(U) /\ Len(c \o a) = Len(c) + Len(a) /\ Len(a) \in Nat
      BY ConcatProperties, LenProperties
    <3>7. y = (c \o a) \o b
      <4>1. (c \o a) \o b = c \o (a \o b)
        BY Associates, SMTT(30)
      <4>2. QED  BY <3>1, <3>5, <4>1
    <3>8. /\ Ok(c \o a) <=> Ok(a)
          /\ Ok(a) => Used(c \o a) = Len(c) + Used(a)
          /\ Plain(c \o a) = Plain(c) \o Plain(a)
      <4>1. AllUsed(c)
        BY <3>1
      <4>2. QED  BY <4>1, ComposeParts
    <3>9. AllUsed(c \o a) /\ Len(c \o a) = Used(y)
          /\ Plain(c \o a) = Plain(y)
      BY <2>2, <3>2, <3>5, <3>6, <3>8 DEF AllUsed, Ok, Used
    <3>10. Splits(y)
      BY <3>5, <3>6, <3>7, <3>9
    <3>11. QED  BY <2>2, <3>10
  <2>6. QED  BY <2>4, <2>5
<1>2. Len(x) \in Nat
  BY LenProperties
<1>3. Splits(x)
  <2> HIDE DEF Splits
  <2>1. QED  BY <1>1, <1>2
<1>4. QED  BY <1>3

\* A beginning of a stream that goes well does so too, and a beginning of what comes of
\* all of it comes of it.
LEMMA Monotone ==
  ASSUME NEW U, AreUnits(U)
  PROVE  \A p, q \in Seq(U) :
           Ok(p \o q) => Ok(p) /\ \E r \in Seq(U) : Plain(p \o q) = Plain(p) \o r
<1> DEFINE Begins(a, b) ==
             Ok(a) /\ \E r \in Seq(U) : Plain(a \o b) = Plain(a) \o r
           Wrong == {n \in Nat : \E a, b \in Seq(U) :
                       Len(a) = n /\ Ok(a \o b) /\ ~Begins(a, b)}
<1>1. Wrong = {}
  <2> SUFFICES ASSUME Wrong # {} PROVE FALSE
    OBVIOUS
  <2>1. PICK n \in Wrong : \A m \in Wrong : n <= m
    <3>1. Wrong \subseteq Nat
      OBVIOUS
    <3> HIDE DEF Wrong
    <3>2. QED  BY <3>1, LeastElement
  <2>2. PICK a, b \in Seq(U) : Len(a) = n /\ Ok(a \o b) /\ ~Begins(a, b)
    BY <2>1
  <2>3. \A t \in Seq(U) : Len(t) < Len(a) /\ Ok(t \o b) => Begins(t, b)
    <3> SUFFICES ASSUME NEW t \in Seq(U), Len(t) < Len(a), Ok(t \o b)
                 PROVE  Begins(t, b)
      OBVIOUS
    <3>1. Len(t) \in Nat /\ n \in Nat /\ ~(n <= Len(t))
      BY <2>1, <2>2, LenProperties
    <3> HIDE DEF Begins
    <3>2. QED  BY <2>1, <3>1
  <2> HIDE DEF Wrong
  <2>7. a \o b \in Seq(U)
    BY ConcatProperties
  <2>4. CASE Short(a)
    <3>1. Plain(a) = <<>> /\ Ok(a)
      BY <2>4, ShortMeansNothing DEF MeansNothing
    <3>3. Plain(a \o b) \in Seq(U)
      BY <2>7, PartsTyped
    <3>4. Plain(a \o b) = Plain(a) \o Plain(a \o b)
      BY <3>1, <3>3, ConcatEmptySeq
    <3>5. QED  BY <2>2, <3>1, <3>3, <3>4
  <2>5. CASE ~Short(a)
    <3>1. Whole(a)
      <4> SUFFICES ASSUME Senseless(a) PROVE FALSE
        BY <2>5, FrontIs
      <4>1. Len(a) >= 2 /\ Len(a) \in Nat /\ Len(b) \in Nat
        BY LenProperties DEF Senseless
      <4>2. Len(a \o b) = Len(a) + Len(b) /\ (a \o b)[1] = a[1]
        BY <4>1, ConcatProperties
      <4>3. a[1] \in U
        BY <4>1, ElementOfSeq
      <4>4. CASE a[1].kind \in {"foreign", "data"}
        <5>1. Len(a \o b) >= 2
          BY <4>1, <4>2
        <5>2. Senseless(a \o b)
          BY <4>2, <4>4, <5>1 DEF Senseless
        <5>3. QED  BY <2>2, <2>7, <5>2, InflateFails DEF Ok
      <4>5. CASE a[1].kind = "broken" /\ a[1].size <= Len(a)
        <5>1. a[1].size \in Nat
          BY <4>3, <4>5 DEF IsUnit, AreUnits
        <5>2. a[1].size <= Len(a \o b) /\ Len(a \o b) >= 2
          BY <4>1, <4>2, <4>5, <5>1
        <5>3. Senseless(a \o b)
          BY <4>2, <4>5, <5>2 DEF Senseless
        <5>4. QED  BY <2>2, <2>7, <5>3, InflateFails DEF Ok
      <4>6. QED  BY <4>4, <4>5 DEF Senseless
    <3>2. PICK c, t \in Seq(U) : a = c \o t /\ AllUsed(c) /\ Len(c) \in Nat \ {0, 1}
      BY <3>1, TakeChunk
    <3>3. a \o b = c \o (t \o b) /\ t \o b \in Seq(U)
      BY <3>2, Associates, ConcatProperties
    <3>4. /\ Plain(a) = Plain(c) \o Plain(t) /\ (Ok(a) <=> Ok(t))
          /\ Ok(a \o b) <=> Ok(t \o b)
          /\ Plain(a \o b) = Plain(c) \o Plain(t \o b)
      <4>1. AllUsed(c)
        BY <3>2
      <4>2. \A d \in Seq(U) :
              /\ Ok(c \o d) <=> Ok(d)
              /\ Plain(c \o d) = Plain(c) \o Plain(d)
        BY <4>1, ComposeParts
      <4>3. QED  BY <3>2, <3>3, <4>2
    <3>5. Len(a) = Len(c) + Len(t) /\ Len(t) \in Nat
      BY <3>2, ConcatProperties, LenProperties
    <3>6. Len(t) < Len(a)
      BY <3>2, <3>5
    <3>11. Begins(t, b)
      BY <2>2, <2>3, <3>4, <3>6
    <3>7. PICK r \in Seq(U) : Plain(t \o b) = Plain(t) \o r
      BY <3>11
    <3>8. Plain(c) \in Seq(U) /\ Plain(t) \in Seq(U)
      BY PartsTyped
    <3>9. Plain(a \o b) = Plain(a) \o r
      <4> DEFINE oc == Plain(c)
                 ot == Plain(t)
      <4>1. oc \in Seq(U) /\ ot \in Seq(U)
        BY <3>8
      <4> HIDE DEF oc, ot
      <4>2. (oc \o ot) \o r = oc \o (ot \o r)
        <5>1. Regroups(oc, ot, r)
          BY <4>1, Regrouped
        <5>2. QED  BY <5>1 DEF Regroups
      <4>3. QED  BY <3>4, <3>7, <4>2 DEF oc, ot
    <3>10. QED  BY <2>2, <3>4, <3>9, <3>11
  <2>6. QED  BY <2>4, <2>5
<1>2. \A p, q \in Seq(U) : Ok(p \o q) => Begins(p, q)
  <2> HIDE DEF Begins
  <2>1. \A p \in Seq(U) : Len(p) \in Nat
    BY LenProperties
  <2>2. QED  BY <1>1, <2>1
<1>3. QED  BY <1>2

-----------------------------------------------------------------------------
\* f answers dzip_deflate at each place of x.
Makes(x, f) == f = [i \in 1..(Len(x) + 1) |-> DeflateTurn(x, f, i)]

\* The next chunk takes something, and no more than there is.
LEMMA NextChunkFits ==
  ASSUME NEW n \in Nat \ {0}
  PROVE  NextChunk(n) \in 1..n
BY MaxChunkAssumption DEF NextChunk

LEMMA DeflateLooksBehind ==
  ASSUME NEW U, NEW x \in Seq(U),
         NEW f, NEW g, NEW i \in 1..Len(x) + 1,
         \A j \in i + 1..Len(x) + 1 : f[j] = g[j]
  PROVE  DeflateTurn(x, f, i) = DeflateTurn(x, g, i)
<1>1. Len(x) \in Nat
  BY LenProperties
<1>2. CASE i > Len(x)
  BY <1>2 DEF DeflateTurn
<1>3. CASE ~(i > Len(x))
  <2> DEFINE n == NextChunk(Len(x) - i + 1)
  <2>1. n \in 1..Len(x) - i + 1
    <3>1. Len(x) - i + 1 \in Nat \ {0}
      BY <1>1, <1>3
    <3>2. QED  BY <3>1, NextChunkFits
  <2> HIDE DEF n
  <2>2. f[i + n] = g[i + n]
    BY <1>1, <2>1
  <2>3. QED  BY <2>2 DEF DeflateTurn, n
<1>4. QED  BY <1>2, <1>3

\* Such answers exist, and dzip_deflate gives the first of them.
LEMMA DeflateAnswers ==
  ASSUME NEW U, NEW x \in Seq(U)
  PROVE  \E f : Makes(x, f) /\ Deflate(x) = f[1]
<1> DEFINE L == Len(x)
           Done(f, n) == f = [i \in (L + 1 - n)..(L + 1) |-> DeflateTurn(x, f, i)]
           Undone == {n \in 0..L : ~\E f : Done(f, n)}
<1>1. L \in Nat
  BY LenProperties
<1>2. Undone = {}
  <2> SUFFICES ASSUME Undone # {} PROVE FALSE
    OBVIOUS
  <2>1. PICK n \in Undone : \A m \in Undone : n <= m
    <3>1. Undone \subseteq Nat
      BY <1>1
    <3> HIDE DEF Undone
    <3>2. QED  BY <3>1, LeastElement
  <2>2. n \in 0..L
    OBVIOUS
  <2>3. n # 0
    <3> DEFINE f == [i \in (L + 1 - 0)..(L + 1) |-> DeflateTurn(x, x, i)]
    <3>1. \A i \in (L + 1 - 0)..(L + 1) : DeflateTurn(x, f, i) = DeflateTurn(x, x, i)
      <4> TAKE i \in (L + 1 - 0)..(L + 1)
      <4> HIDE DEF f
      <4>1. i \in 1..Len(x) + 1 /\ \A j \in i + 1..Len(x) + 1 : f[j] = x[j]
        BY <1>1
      <4>2. QED  BY <4>1, DeflateLooksBehind
    <3>2. f = [i \in (L + 1 - 0)..(L + 1) |-> DeflateTurn(x, f, i)]
      BY <3>1
    <3>3. Done(f, 0)
      BY <3>2
    <3>4. QED  BY <2>1, <3>3
  <2>4. PICK g : Done(g, n - 1)
    <3>1. n - 1 \in 0..L /\ ~(n <= n - 1)
      BY <1>1, <2>2, <2>3
    <3> HIDE DEF Done
    <3>2. QED  BY <2>1, <3>1
  <2> DEFINE f == [i \in (L + 1 - n)..(L + 1) |->
                     IF i = L + 1 - n THEN DeflateTurn(x, g, i) ELSE g[i]]
  <2>5. \A i \in (L + 1 - n)..(L + 1) : f[i] = DeflateTurn(x, f, i)
    <3> TAKE i \in (L + 1 - n)..(L + 1)
    <3>1. i \in 1..Len(x) + 1 /\ (i # L + 1 - n => i \in (L + 1 - (n - 1))..(L + 1))
      BY <1>1, <2>2
    <3>2. f[i] = DeflateTurn(x, g, i)
      BY <2>4, <3>1
    <3>3. \A j \in i + 1..Len(x) + 1 : f[j] = g[j]
      BY <1>1, <2>2
    <3> HIDE DEF f
    <3>4. QED  BY <3>1, <3>2, <3>3, DeflateLooksBehind
  <2> HIDE DEF f
  <2>6. Done(f, n)
    BY <2>5 DEF f
  <2>7. QED  BY <2>1, <2>6
<1> DEFINE from == CHOOSE f : Makes(x, f)
<1>3. Makes(x, from)
  <2>1. L \in 0..L /\ L + 1 - L = 1
    BY <1>1
  <2>2. \E f : Done(f, L)
    <3> HIDE DEF Done
    <3>1. QED  BY <1>2, <2>1
  <2>3. \E f : Makes(x, f)
    BY <2>1, <2>2 DEF Makes
  <2>4. QED  BY <2>3
<1>4. Deflate(x) = from[1]
  BY DEF Deflate, Makes
<1>5. QED  BY <1>3, <1>4

\* The units of what comes of deflating.
Made(U) == U \union {Header(n, "good") : n \in Nat \ {0, 1}}

LEMMA MadeAreUnits ==
  ASSUME NEW U, AreUnits(U)
  PROVE  AreUnits(Made(U))
BY DEF AreUnits, IsUnit, Made, Header

\* A chunk is a whole one, and means its bytes.
LEMMA ChunkInflates ==
  ASSUME NEW U, AreUnits(U), NEW d \in Seq(U), Len(d) > 0
  PROVE  Chunk(d) \in Seq(Made(U)) /\ AllUsed(Chunk(d)) /\ Plain(Chunk(d)) = d
<1> DEFINE h == Header(Len(d) + 1, "good")
           c == Chunk(d)
           V == Made(U)
<1>1. Len(d) \in Nat \ {0} /\ d \in Seq(V) /\ h \in V /\ AreUnits(V)
  <2>1. Len(d) \in Nat \ {0} /\ Len(d) + 1 \in Nat \ {0, 1}
    BY LenProperties
  <2>2. U \subseteq V /\ h \in V
    BY <2>1 DEF Made
  <2>3. QED  BY <2>1, <2>2, SeqMonotonic, MadeAreUnits
<1>2. h.size = Len(d) + 1 /\ h.kind = "good"
  BY DEF Header
<1>3. c = <<h>> \o d
  BY DEF Chunk
<1> HIDE DEF c, h, V
<1>4. <<h>> \in Seq(V) /\ Len(<<h>>) = 1 /\ <<h>>[1] = h
  BY <1>1
<1>5. /\ c \in Seq(V) /\ Len(c) = Len(d) + 1
      /\ \A i \in 1..Len(d) + 1 : c[i] = IF i <= 1 THEN h ELSE d[i - 1]
  <2>1. /\ <<h>> \o d \in Seq(V) /\ Len(<<h>> \o d) = Len(<<h>>) + Len(d)
        /\ \A i \in 1..Len(<<h>>) + Len(d) :
             (<<h>> \o d)[i] = IF i <= Len(<<h>>) THEN <<h>>[i] ELSE d[i - Len(<<h>>)]
    BY <1>1, <1>4, ConcatProperties
  <2>2. QED  BY <1>1, <1>3, <1>4, <2>1
<1>6. c[1] = h
  BY <1>1, <1>5
<1>7. Whole(c) /\ c[1].size = Len(c)
  BY <1>1, <1>2, <1>5, <1>6 DEF Whole
<1>8. After(c) = <<>>
  <2>1. Len(c) + 1 \in Int /\ Len(c) \in Int /\ Len(c) < Len(c) + 1
    BY <1>1, <1>5
  <2>2. QED  BY <1>7, <2>1, SubSeqEmpty DEF After
<1>9. Content(c) = d
  <2> DEFINE e == SubSeq(c, 1 + 1, Len(c))
  <2>1. /\ e \in Seq(V) /\ Len(e) = (IF 1 <= Len(c) THEN Len(c) - 1 ELSE 0)
        /\ \A i \in 1..Len(c) - 1 : e[i] = c[1 + i]
    BY <1>1, <1>5, Piece
  <2> HIDE DEF e
  <2>2. Len(e) = Len(d) /\ \A i \in 1..Len(e) : e[i] = d[i]
    BY <1>1, <1>5, <2>1
  <2>3. e = d
    BY <1>1, <2>1, <2>2, SeqEqual
  <2>4. QED  BY <1>7, <2>3 DEF e, Content
<1>10. MeansNothing(<<>>)
  BY <1>1, EmptyInflates
<1>11. /\ InflateRange(c).ok = InflateRange(<<>>).ok
       /\ InflateRange(c).used = (IF InflateRange(<<>>).ok
                                  THEN Len(c) + InflateRange(<<>>).used ELSE 0)
       /\ InflateRange(c).out = d \o InflateRange(<<>>).out
  <2>1. /\ InflateRange(c).ok = InflateRange(After(c)).ok
        /\ InflateRange(c).used = (IF InflateRange(After(c)).ok
                                   THEN c[1].size + InflateRange(After(c)).used ELSE 0)
        /\ InflateRange(c).out = Content(c) \o InflateRange(After(c)).out
    BY <1>1, <1>5, <1>7, FirstChunk
  <2>2. QED  BY <1>7, <1>8, <1>9, <2>1
<1>12. d \o <<>> = d /\ Len(c) + 0 = Len(c)
  BY <1>1, <1>5, ConcatEmptySeq
<1>13. QED
  BY <1>5, <1>10, <1>11, <1>12 DEF AllUsed, Ok, Used, Plain, MeansNothing, c, V

\* What dzip_deflate makes is whole chunks, and they mean what it was given.
LEMMA DeflateInflates ==
  ASSUME NEW U, AreUnits(U), NEW x \in Seq(U)
  PROVE  Deflate(x) \in Seq(Made(U)) /\ AllUsed(Deflate(x)) /\ Plain(Deflate(x)) = x
<1> DEFINE L == Len(x)
           Good(y, i) == /\ y \in Seq(Made(U)) /\ AllUsed(y)
                         /\ Plain(y) = SubSeq(x, i, L)
<1>1. PICK f : Makes(x, f) /\ Deflate(x) = f[1]
  BY DeflateAnswers
<1>2. L \in Nat /\ AreUnits(Made(U))
  BY LenProperties, MadeAreUnits
<1> DEFINE Wrong == {n \in 0..L : ~Good(f[L + 1 - n], L + 1 - n)}
<1>3. \A k \in 1..L + 1 : f[k] = DeflateTurn(x, f, k)
  BY <1>1 DEF Makes
<1>4. Wrong = {}
  <2> SUFFICES ASSUME Wrong # {} PROVE FALSE
    OBVIOUS
  <2>1. PICK n \in Wrong : \A m \in Wrong : n <= m
    <3>1. Wrong \subseteq Nat
      BY <1>2
    <3> HIDE DEF Wrong
    <3>2. QED  BY <3>1, LeastElement
  <2> DEFINE k == L + 1 - n
  <2>2. k \in 1..L + 1 /\ ~Good(f[k], k)
    BY <1>2, <2>1, SMTT(30)
  <2>3. \A j \in k + 1..L + 1 : Good(f[j], j)
    <3> TAKE j \in k + 1..L + 1
    <3>1. L + 1 - j \in 0..L /\ ~(n <= L + 1 - j) /\ L + 1 - (L + 1 - j) = j
      BY <1>2, <2>1
    <3> HIDE DEF Good
    <3>2. QED  BY <2>1, <3>1
  <2> HIDE DEF k, Wrong
  <2>4. CASE k > L
    <3>1. f[k] = <<>>
      BY <1>3, <2>2, <2>4 DEF DeflateTurn
    <3>2. SubSeq(x, k, L) = <<>>
      BY <1>2, <2>2, <2>4, SubSeqEmpty
    <3>3. AllUsed(<<>>) /\ Plain(<<>>) = <<>> /\ <<>> \in Seq(Made(U))
      BY <1>2, EmptyInflates, EmptySeq DEF MeansNothing
    <3>4. QED  BY <2>2, <3>1, <3>2, <3>3
  <2>5. CASE ~(k > L)
    <3> DEFINE m == NextChunk(L - k + 1)
               d == SubSeq(x, k, k + m - 1)
               t == f[k + m]
    <3>1. m \in 1..L - k + 1
      <4>1. L - k + 1 \in Nat \ {0}
        BY <1>2, <2>2, <2>5
      <4>2. QED  BY <4>1, NextChunkFits
    <3>2. f[k] = Chunk(d) \o t
      BY <1>3, <2>2, <2>5 DEF DeflateTurn
    <3> HIDE DEF m
    <3>3. d \in Seq(U) /\ Len(d) > 0
      <4> DEFINE lo == k - 1
                 hi == k + m - 1
      <4>1. lo \in Nat /\ hi \in Nat /\ hi <= Len(x) /\ lo < hi /\ lo + 1 = k
        BY <1>2, <2>2, <2>5, <3>1
      <4> HIDE DEF lo, hi
      <4>2. SubSeq(x, lo + 1, hi) \in Seq(U) /\ Len(SubSeq(x, lo + 1, hi)) = hi - lo
        BY <4>1, Piece
      <4>3. hi - lo > 0
        BY <4>1
      <4>4. SubSeq(x, k, hi) \in Seq(U) /\ Len(SubSeq(x, k, hi)) > 0
        BY <4>1, <4>2, <4>3
      <4>5. QED  BY <4>4 DEF hi
    <3>4. Good(t, k + m)
      BY <1>2, <2>2, <2>3, <3>1
    <3>5. d \o SubSeq(x, k + m, L) = SubSeq(x, k, L)
      <4> DEFINE lo == k - 1
                 mid == k + m - 1
      <4>1. /\ lo \in Nat /\ mid \in Nat /\ L \in Nat /\ lo <= mid /\ mid <= L
            /\ L <= Len(x) /\ lo + 1 = k /\ mid + 1 = k + m
        BY <1>2, <2>2, <2>5, <3>1
      <4>2. d = SubSeq(x, k, mid)
        OBVIOUS
      <4> HIDE DEF lo, mid, d, L
      <4>3. SubSeq(x, lo + 1, mid) \o SubSeq(x, mid + 1, L) = SubSeq(x, lo + 1, L)
        BY <4>1, Adjacent
      <4>4. QED  BY <4>1, <4>2, <4>3
    <3> HIDE DEF d, t
    <3>6. Chunk(d) \in Seq(Made(U)) /\ AllUsed(Chunk(d)) /\ Plain(Chunk(d)) = d
      BY <3>3, ChunkInflates
    <3> DEFINE c == Chunk(d)
    <3>7. c \in Seq(Made(U)) /\ AllUsed(c) /\ Plain(c) = d
      BY <3>6
    <3> HIDE DEF c
    <3>8. /\ c \o t \in Seq(Made(U)) /\ Len(c \o t) = Len(c) + Len(t)
          /\ Ok(c \o t) <=> Ok(t)
          /\ Ok(t) => Used(c \o t) = Len(c) + Used(t)
          /\ Plain(c \o t) = Plain(c) \o Plain(t)
      BY <1>2, <3>4, <3>7, ComposeParts, ConcatProperties
    <3>9. AllUsed(c \o t) /\ Plain(c \o t) = SubSeq(x, k, L)
      BY <3>4, <3>5, <3>7, <3>8 DEF AllUsed
    <3>10. QED  BY <2>2, <3>2, <3>8, <3>9 DEF c
  <2>6. QED  BY <2>4, <2>5
<1>5. L \in 0..L /\ L + 1 - L = 1
  BY <1>2
<1>6. Good(f[1], 1)
  <2> HIDE DEF Good
  <2>1. QED  BY <1>4, <1>5
<1>7. SubSeq(x, 1, L) = x
  BY SubSeqFull
<1>8. QED  BY <1>1, <1>6, <1>7

-----------------------------------------------------------------------------
\* What standard output may hold.
V == Made(Units)

\* What of the input was converted, and what was read behind it.
Given == SubSeq(Input, 1, inConsumed)
Ahead == SubSeq(Input, inConsumed + 1, inTaken)

\* As long as no read has failed, the chain over standard input shows Ahead.
InputIsKept ==
  /\ inTaken \in 0..Len(Input) /\ inConsumed \in 0..inTaken
  /\ inAlloc \in Nat /\ inMax \in Nat /\ inErrors \in Nat
  /\ inError \in BOOLEAN /\ inComplete \in BOOLEAN /\ inPc \in {"idle", "reading"}
  /\ inComplete => inTaken \in Ends
  /\ inError => inErrors > 0
  /\ inPc = "reading" => ~inComplete /\ ~inError
  /\ ~inError =>
       /\ inReleased \in 0..inConsumed
       /\ inBuffer = SubSeq(Input, inConsumed - inReleased + 1, inTaken)

\* Where the two pulls are, and what the inner one returns.
PullsAreOrderly ==
  /\ update \in {"none", "pulling"}
  /\ update = "none" => inPc = "idle"
  /\ update = "pulling" => pc = "reading"
  /\ update = "pulling" /\ inPc = "idle" =>
       \/ inResult = "data" /\ ~inError /\ inContents = Ahead
       \/ inResult = "end" /\ ~inError /\ inComplete
       \/ inResult = "failed" /\ inError
  /\ inError => is_error \/ (update = "pulling" /\ inPc = "idle")

\* Where main is, and what it knows there.
MainIsOrderly ==
  /\ pc \in {"idle", "reading"} /\ is_error \in BOOLEAN /\ is_complete \in BOOLEAN
  /\ max_size \in Nat /\ should_deflate \in BOOLEAN
  /\ main \in {"pull", "push", "release", "check", "free"}
  /\ exit \in {"running", "success", "failure"}
  /\ pc = "reading" => main = "push" /\ exit = "running" /\ ~is_error /\ ~is_complete
  /\ main = "push" /\ pc = "idle" => result \in {"data", "end", "failed"}
  /\ main = "release" => result = "data"
  /\ main \in {"check", "free"} => result \in {"end", "failed"}
  /\ result = "failed" => is_error
  /\ result = "end" => is_complete /\ main \in {"push", "check", "free"}
  /\ is_error => main \in {"push", "check"} /\ result = "failed"
  /\ is_complete => inComplete /\ ~inError

\* How the program leaves off.
ExitIsOrderly ==
  /\ outPc \in {"closing", "freed"} => main = "free"
  /\ exit = "success" => main = "free" /\ outPc = "freed"
  /\ exit = "failure" => main = "check" /\ (is_error \/ outError)

\* What comes behind means nothing when the input has ended, and makes no sense when
\* the conversion has failed.
AheadIs ==
  /\ inComplete /\ ~is_error /\ ~(update = "pulling" /\ inResult = "data") =>
       IF should_deflate THEN inConsumed = inTaken ELSE MeansNothing(Ahead)
  /\ is_error => inErrors > 0 \/ (~should_deflate /\ ~Ok(Ahead))

\* `made` is what the bytes of `given` are converted to.
Converts(made, given) ==
  IF should_deflate THEN AllUsed(made) /\ Plain(made) = given
  ELSE AllUsed(given) /\ Plain(given) = made

\* What was made is what the adaptor gave main, and its cache.
MadeIs(made) ==
  /\ consumed \in 0..Len(made)
  /\ main = "pull" => buffer \in Seq(V) /\ released = Len(buffer) /\ consumed = Len(made)
  /\ main # "pull" => released = 0
  /\ main # "pull" /\ ~is_error => buffer = SubSeq(made, consumed + 1, Len(made))
  /\ main \in {"push", "release"} /\ pc = "idle" /\ result = "data" => contents = buffer
  /\ result = "end" => consumed = Len(made)

\* What main has pushed to standard output.
Pushed(made) == IF main = "release" THEN made ELSE SubSeq(made, 1, consumed)

Busy == outPc \in {"pushing", "flushing", "closing"}

\* What waits to be written.
Waiting == IF Busy THEN outInput ELSE SubSeq(outBuffer, outWritten + 1, Len(outBuffer))

\* What was pushed is what was written and what waits, until a write fails.
OutputIs(pushed) ==
  /\ outSink \in Seq(V) /\ outBuffer \in Seq(V) /\ outInput \in Seq(V)
  /\ outWritten \in 0..Len(outBuffer) /\ outError \in BOOLEAN
  /\ outPc \in {"idle", "pushing", "flushing", "closing", "freed"}
  /\ Busy => ~outError
  /\ outPc = "pushing" => outWritten = Len(outBuffer)
  /\ outPc = "freed" /\ ~outError => outWritten = Len(outBuffer)
  /\ ~outError => outSink \o Waiting = pushed
  /\ \E rest \in Seq(V) : outSink \o rest = pushed

DzipInv ==
  /\ InputIsKept /\ PullsAreOrderly /\ MainIsOrderly /\ ExitIsOrderly /\ AheadIs
  /\ \E made \in Seq(V), pushed \in Seq(V) :
       /\ Converts(made, Given) /\ MadeIs(made)
       /\ pushed = Pushed(made) /\ OutputIs(pushed)

-----------------------------------------------------------------------------
\* The input's units are units of what may be written.
LEMMA InputUnits ==
  ASSUME DzipConstants
  PROVE  /\ Input \in Seq(Units) /\ Input \in Seq(V) /\ Len(Input) \in Nat
         /\ AreUnits(Units) /\ AreUnits(V)
         /\ \A s \in Seq(Units) : s \in Seq(V)
<1>1. Input \in Seq(Units) /\ AreUnits(Units)
  BY DEF DzipConstants
<1>2. Units \subseteq V
  BY DEF V, Made
<1>3. AreUnits(V)
  BY <1>1, MadeAreUnits DEF V
<1>4. QED  BY <1>1, <1>2, <1>3, LenProperties, SeqMonotonic

\* Given and Ahead make up what was read.
LEMMA InputParts ==
  ASSUME DzipConstants, InputIsKept
  PROVE  /\ Given \in Seq(Units) /\ Ahead \in Seq(Units) /\ Given \in Seq(V)
         /\ Len(Given) = inConsumed /\ Len(Ahead) = inTaken - inConsumed
         /\ Given \o Ahead = SubSeq(Input, 1, inTaken)
<1>1. /\ Input \in Seq(Units) /\ Len(Input) \in Nat
      /\ inTaken \in Nat /\ inConsumed \in Nat
      /\ inConsumed <= inTaken /\ inTaken <= Len(Input)
  BY InputUnits DEF InputIsKept
<1>2. SubSeq(Input, 0 + 1, inConsumed) \in Seq(Units)
      /\ Len(SubSeq(Input, 0 + 1, inConsumed)) = inConsumed
  BY <1>1, Piece
<1>3. SubSeq(Input, inConsumed + 1, inTaken) \in Seq(Units)
      /\ Len(SubSeq(Input, inConsumed + 1, inTaken)) = inTaken - inConsumed
  BY <1>1, Piece
<1>4. SubSeq(Input, 0 + 1, inConsumed) \o SubSeq(Input, inConsumed + 1, inTaken)
        = SubSeq(Input, 0 + 1, inTaken)
  BY <1>1, Adjacent
<1>5. Given = SubSeq(Input, 0 + 1, inConsumed) /\ 0 + 1 = 1
  BY DEF Given
<1>6. Given \in Seq(Units) /\ Len(Given) = inConsumed
  BY <1>2, <1>5
<1>7. Given \in Seq(V)
  BY <1>6, InputUnits
<1>8. Given \o Ahead = SubSeq(Input, 1, inTaken)
  BY <1>4, <1>5 DEF Ahead
<1>9. QED  BY <1>3, <1>6, <1>7, <1>8 DEF Ahead

\* Two ways to cut a sequence at one place are one.
LEMMA CutsAlike ==
  ASSUME NEW U, NEW a \in Seq(U), NEW b \in Seq(U), NEW c \in Seq(U), NEW d \in Seq(U),
         a \o b = c \o d, Len(a) = Len(c)
  PROVE  a = c /\ b = d
<1>1. Len(a) \in Nat
  BY LenProperties
<1>2. \A i \in 1..Len(a) : a[i] = c[i]
  <2>1. /\ \A i \in 1..Len(a) + Len(b) :
             (a \o b)[i] = IF i <= Len(a) THEN a[i] ELSE b[i - Len(a)]
        /\ \A i \in 1..Len(c) + Len(d) :
             (c \o d)[i] = IF i <= Len(c) THEN c[i] ELSE d[i - Len(c)]
    BY ConcatProperties
  <2>2. Len(b) \in Nat /\ Len(d) \in Nat
    BY LenProperties
  <2>3. QED  BY <1>1, <2>1, <2>2
<1>3. a = c
  BY <1>2, SeqEqual
<1>4. QED  BY <1>3, ConcatSimplifications

\* What may stand in front of nothing.
LEMMA WindowOfAll ==
  ASSUME NEW U, NEW s \in Seq(U)
  PROVE  SubSeq(s, 0 + 1, Len(s)) = s
BY SubSeqFull

\* Nothing is behind the end of a sequence.
LEMMA NothingBehind ==
  ASSUME NEW U, NEW s \in Seq(U)
  PROVE  SubSeq(s, Len(s) + 1, Len(s)) = <<>>
<1>1. Len(s) \in Int /\ Len(s) < Len(s) + 1
  BY LenProperties
<1>2. QED  BY <1>1, SubSeqEmpty

-----------------------------------------------------------------------------
(* The chain over standard input.                                          *)

\* Shortening the cache of standard input moves neither Given nor Ahead.
LEMMA StdinKept ==
  ASSUME DzipConstants, InputIsKept, ~inError
  PROVE  /\ Stdin!StillReleased \in 0..inConsumed
         /\ Stdin!Kept = SubSeq(Input, inConsumed - Stdin!StillReleased + 1, inTaken)
         /\ Stdin!Kept \in Seq(Units) /\ Len(Stdin!Kept) \in Nat
<1> DEFINE lo == inConsumed - inReleased
<1>1. /\ Input \in Seq(Units) /\ Len(Input) \in Nat
      /\ inTaken \in Nat /\ inConsumed \in Nat /\ inReleased \in Nat
      /\ inConsumed <= inTaken /\ inTaken <= Len(Input) /\ inReleased <= inConsumed
      /\ inBuffer = SubSeq(Input, lo + 1, inTaken)
  BY InputUnits DEF InputIsKept
<1>2. lo \in Nat /\ lo <= inTaken /\ lo + inReleased = inConsumed
  BY <1>1
<1> HIDE DEF lo
<1>3. inBuffer \in Seq(Units) /\ Len(inBuffer) = inTaken - lo
  BY <1>1, <1>2, Piece
<1>4. CASE inReleased >= Len(inBuffer)
  <2>1. inReleased = Len(inBuffer) /\ inConsumed = inTaken
    BY <1>1, <1>2, <1>3, <1>4
  <2>2. Stdin!Kept = <<>> /\ Stdin!StillReleased = 0
    BY <1>1, <1>4, <2>1 DEF Stdin!Kept, Stdin!StillReleased, Stdin!Exhausted
  <2>3. SubSeq(Input, inConsumed - 0 + 1, inTaken) = <<>>
    BY <1>1, <2>1, SubSeqEmpty
  <2>4. <<>> \in Seq(Units) /\ Len(<<>>) = 0
    BY EmptySeq
  <2>5. QED  BY <1>1, <2>2, <2>3, <2>4
<1>5. CASE ~(inReleased >= Len(inBuffer)) /\ Stdin!WorthShifting
  <2>1. Stdin!Kept = SubSeq(inBuffer, inReleased + 1, Len(inBuffer))
        /\ Stdin!StillReleased = 0
    BY <1>5 DEF Stdin!Kept, Stdin!StillReleased, Stdin!Exhausted
  <2>2. SubSeq(SubSeq(Input, lo + 1, inTaken), inReleased + 1, inTaken - lo)
          = SubSeq(Input, lo + inReleased + 1, inTaken)
    BY <1>1, <1>2, Suffix
  <2>3. Stdin!Kept = SubSeq(Input, inConsumed + 1, inTaken)
    BY <1>1, <1>2, <1>3, <2>1, <2>2
  <2>4. Stdin!Kept = SubSeq(Input, inConsumed - 0 + 1, inTaken)
    <3>1. inConsumed - 0 + 1 = inConsumed + 1
      BY <1>1
    <3>2. QED  BY <2>3, <3>1
  <2>7. 0 \in 0..inConsumed
    BY <1>1
  <2>5. Stdin!Kept \in Seq(Units) /\ Len(Stdin!Kept) \in Nat
    BY <1>1, <2>3, Piece, LenProperties
  <2>6. QED  BY <2>1, <2>4, <2>5, <2>7
<1>6. CASE ~(inReleased >= Len(inBuffer)) /\ ~Stdin!WorthShifting
  <2>1. Stdin!Kept = inBuffer /\ Stdin!StillReleased = inReleased
    BY <1>6 DEF Stdin!Kept, Stdin!StillReleased, Stdin!Exhausted
  <2>2. QED  BY <1>1, <1>2, <1>3, <2>1, LenProperties DEF lo
<1>7. QED  BY <1>4, <1>5, <1>6

\* What the client of standard input is shown.
LEMMA StdinShows ==
  ASSUME DzipConstants, NEW t \in Nat, NEW n \in Nat, NEW r \in 0..n,
         n <= t, t <= Len(Input), NEW b, b = SubSeq(Input, n - r + 1, t)
  PROVE  Stdin!Window(b, r) = SubSeq(Input, n + 1, t)
<1> DEFINE lo == n - r
<1>1. Input \in Seq(Units) /\ Len(Input) \in Nat
  BY InputUnits
<1>2. lo \in Nat /\ lo <= t /\ r \in Nat /\ lo + r = n /\ lo + r <= t
      /\ b = SubSeq(Input, lo + 1, t)
  OBVIOUS
<1> HIDE DEF lo
<1>3. Len(b) = t - lo
  BY <1>1, <1>2, Piece
<1>4. SubSeq(SubSeq(Input, lo + 1, t), r + 1, t - lo) = SubSeq(Input, lo + r + 1, t)
  BY <1>1, <1>2, Suffix
<1>5. QED  BY <1>2, <1>3, <1>4 DEF Stdin!Window

\* buffer_read always asks for at least one byte.
LEMMA StdinFills ==
  ASSUME DzipConstants, InputIsKept, ~inError
  PROVE  Stdin!FillSize \in Nat \ {0} /\ Stdin!Allocated \in Nat
<1>1. inBuffer \in Seq(Units)
  <2> DEFINE lo == inConsumed - inReleased
  <2>1. lo \in Nat /\ inTaken \in Nat /\ inTaken <= Len(Input) /\ Input \in Seq(Units)
        /\ inBuffer = SubSeq(Input, lo + 1, inTaken)
    BY InputUnits DEF InputIsKept
  <2> HIDE DEF lo
  <2>2. QED  BY <2>1, Piece
<1>2. Len(inBuffer) \in Nat /\ (inBuffer # <<>> => Len(inBuffer) > 0)
  BY <1>1, LenProperties, EmptySeq
<1>3. inAlloc \in Nat /\ InitialAlloc \in Nat \ {0} /\ GrowFactor \in Nat /\ GrowSlack \in Nat
  BY DEF InputIsKept, DzipConstants
<1>4. Stdin!FillSize \in Nat \ {0}
  BY <1>2, <1>3 DEF Stdin!FillSize, Stdin!HasRoom
<1> DEFINE n == Len(inBuffer) + Stdin!FillSize + 1
<1>5. n \in Nat
  BY <1>2, <1>4
<1> HIDE DEF n
<1>6. GrowFactor * n + GrowSlack \in Nat
  BY <1>3, <1>5
<1>7. Stdin!Allocated \in Nat
  BY <1>3, <1>6 DEF Stdin!Allocated, Stdin!AllocFor, n
<1>8. QED  BY <1>4, <1>7

\* What a pull leaves of the chain over standard input.
LEMMA StdinPulls ==
  ASSUME DzipConstants, InputIsKept, ~inError, inPc = "idle",
         Stdin!Pull(PullSize), UNCHANGED <<inAlloc, inTaken, inErrors>>
  PROVE  /\ InputIsKept' /\ UNCHANGED <<inConsumed, inTaken, inComplete, inError, inErrors>>
         /\ \/ inPc' = "reading"
            \/ inPc' = "idle" /\ inResult' = "data" /\ inContents' = Ahead /\ ~inComplete
            \/ inPc' = "idle" /\ inResult' = "end" /\ inComplete
<1> DEFINE k == Stdin!Kept
           r == Stdin!StillReleased
<1>1. /\ r \in 0..inConsumed /\ k = SubSeq(Input, inConsumed - r + 1, inTaken)
      /\ Len(k) \in Nat
  BY StdinKept
<1>2. inBuffer' = k /\ inReleased' = r /\ UNCHANGED <<inError, inComplete, inConsumed>>
  BY DEF Stdin!Pull, Stdin!PullEnded, Stdin!PullCached, Stdin!PullReads, Stdin!ApplyRelease
<1>3. /\ inTaken \in Nat /\ inConsumed \in Nat /\ Len(Input) \in Nat
      /\ inConsumed <= inTaken /\ inTaken <= Len(Input)
  BY InputUnits DEF InputIsKept
<1>4. Stdin!Window(k, r) = Ahead
  <2> HIDE DEF k, r
  <2>1. QED  BY <1>1, <1>3, StdinShows DEF Ahead
<1>5. PullSize \in Nat
  BY DEF DzipConstants
<1> HIDE DEF k, r
<1>6. CASE Stdin!PullEnded
  <2>1. /\ inComplete /\ inResult' = "end" /\ inPc' = inPc /\ inMax' = inMax
    BY <1>6 DEF Stdin!PullEnded
  <2>2. QED  BY <1>1, <1>2, <2>1 DEF InputIsKept
<1>7. CASE Stdin!PullCached(PullSize)
  <2>1. /\ ~inComplete /\ inResult' = "data" /\ inPc' = inPc /\ inMax' = inMax
        /\ inContents' = Stdin!Window(k, r)
    BY <1>7 DEF Stdin!PullCached, k, r
  <2>2. QED  BY <1>1, <1>2, <1>4, <2>1 DEF InputIsKept
<1>8. CASE Stdin!PullReads(PullSize)
  <2>1. /\ ~inComplete /\ inPc' = "reading"
        /\ inMax' = IF Len(k) < PullSize THEN PullSize ELSE Len(k) + PullSize
    BY <1>8 DEF Stdin!PullReads, k
  <2>2. inMax' \in Nat
    <3>1. Len(k) \in Nat
      BY <1>1
    <3>2. Len(k) + PullSize \in Nat
      BY <1>5, <3>1
    <3>3. QED  BY <1>5, <2>1, <3>2
  <2>3. QED  BY <1>1, <1>2, <2>1, <2>2 DEF InputIsKept
<1>9. QED  BY <1>6, <1>7, <1>8 DEF Stdin!Pull

\* What a read leaves of it.
LEMMA StdinReadsOn ==
  ASSUME DzipConstants, InputIsKept, Stdin!Fetch \/ Stdin!FetchFails \/ Stdin!AllocFails
  PROVE  /\ InputIsKept' /\ UNCHANGED inConsumed /\ inPc = "reading" /\ ~inError
         /\ ~inError' => inErrors' = inErrors
         /\ \/ inPc' = "reading" /\ ~inError'
            \/ inPc' = "idle" /\ inResult' = "data" /\ inContents' = Ahead' /\ ~inError'
            \/ inPc' = "idle" /\ inResult' = "failed" /\ inError'
         /\ inComplete' => inPc' = "idle" /\ inResult' = "data"
<1>1. /\ inPc = "reading" /\ ~inError /\ ~inComplete /\ UNCHANGED <<inConsumed, inReleased>>
  BY DEF InputIsKept, Stdin!Fetch, Stdin!FetchFails, Stdin!AllocFails, Stdin!Absorb
<1>2. /\ Input \in Seq(Units) /\ Len(Input) \in Nat
      /\ inTaken \in Nat /\ inConsumed \in Nat /\ inReleased \in 0..inConsumed
      /\ inConsumed <= inTaken /\ inTaken <= Len(Input)
      /\ inBuffer = SubSeq(Input, inConsumed - inReleased + 1, inTaken)
      /\ inErrors \in Nat /\ inMax \in Nat /\ inAlloc \in Nat
      /\ Stdin!FillSize \in Nat \ {0} /\ Stdin!Allocated \in Nat
  BY <1>1, InputUnits, StdinFills DEF InputIsKept
<1>3. inMax' = inMax
  BY DEF Stdin!Fetch, Stdin!FetchFails, Stdin!AllocFails, Stdin!Absorb
<1>4. CASE Stdin!Fetch
  <2>1. PICK k \in Stdin!ReadResults(Stdin!FillSize) :
          /\ Stdin!Absorb(inBuffer \o SubSeq(Input, inTaken + 1, inTaken + k),
                          IF k = 0 THEN "complete" ELSE "incomplete")
          /\ inAlloc' = Stdin!Allocated /\ inTaken' = inTaken + k /\ inErrors' = inErrors
    BY <1>4 DEF Stdin!Fetch
  <2>2. /\ k \in Nat /\ inTaken + k <= Len(Input)
        /\ k = 0 => inTaken \in Ends
    <3>1. k \in {j \in 1..Stdin!FillSize : inTaken + j <= Len(Input)}
          \/ (k = 0 /\ (Stdin!FillSize = 0 \/ inTaken \in Ends))
      BY <2>1 DEF Stdin!ReadResults
    <3>2. QED  BY <1>2, <3>1
  <2> DEFINE lo == inConsumed - inReleased
             t == inTaken + k
             filled == inBuffer \o SubSeq(Input, inTaken + 1, t)
             status == IF k = 0 THEN "complete" ELSE "incomplete"
  <2>3. lo \in Nat /\ t \in Nat /\ lo <= inTaken /\ inTaken <= t /\ t <= Len(Input)
        /\ inConsumed <= t
    BY <1>2, <2>2
  <2> HIDE DEF t
  <2>4. filled = SubSeq(Input, inConsumed - inReleased + 1, t)
    <3> HIDE DEF lo
    <3>1. SubSeq(Input, lo + 1, inTaken) \o SubSeq(Input, inTaken + 1, t)
            = SubSeq(Input, lo + 1, t)
      BY <1>2, <2>3, Adjacent
    <3>2. QED  BY <1>2, <3>1 DEF lo
  <2>5. Len(filled) \in Nat
    <3> HIDE DEF lo, filled
    <3>1. SubSeq(Input, lo + 1, t) \in Seq(Units)
      BY <1>2, <2>3, Piece
    <3>2. QED  BY <2>4, <3>1, LenProperties DEF lo
  <2>6. Stdin!Absorb(filled, status) /\ inTaken' = t
    BY <2>1 DEF t
  <2> HIDE DEF filled, lo
  <2>7. Stdin!Window(filled, inReleased) = SubSeq(Input, inConsumed + 1, t)
    BY <1>2, <2>3, <2>4, StdinShows
  <2>8. status \in {"complete", "incomplete"} /\ (status = "complete" <=> k = 0)
    OBVIOUS
  <2> HIDE DEF status
  <2>9. /\ inBuffer' = filled /\ ~inError' /\ inError' \in BOOLEAN
        /\ inComplete' = (status = "complete")
        /\ \/ inPc' = "reading" /\ status # "complete"
           \/ inPc' = "idle" /\ inResult' = "data"
              /\ inContents' = Stdin!Window(filled, inReleased)
    <3>1. inMax \in Nat
      BY <1>2
    <3>2. (inMax >= Len(filled)) <=> ~(inMax < Len(filled))
      BY <2>5, <3>1
    <3>3. ~inError
      BY <1>1
    <3>4. QED  BY <2>6, <2>8, <3>2, <3>3 DEF Stdin!Absorb
  <2>10. Ahead' = SubSeq(Input, inConsumed + 1, t)
    BY <1>1, <2>6 DEF Ahead
  <2>11. inTaken' \in 0..Len(Input) /\ inConsumed' \in 0..inTaken'
    BY <1>1, <1>2, <2>3, <2>6
  <2>12. inComplete' => inTaken' \in Ends
    BY <1>2, <2>2, <2>6, <2>8, <2>9 DEF t
  <2>13. InputIsKept'
    BY <1>1, <1>2, <1>3, <2>1, <2>4, <2>6, <2>9, <2>11, <2>12 DEF InputIsKept
  <2>14. QED  BY <1>1, <2>1, <2>7, <2>9, <2>10, <2>13
<1>5. CASE Stdin!FetchFails \/ Stdin!AllocFails
  <2>1. /\ inError' = TRUE /\ inComplete' = FALSE /\ inResult' = "failed" /\ inPc' = "idle"
        /\ inErrors' = inErrors + 1 /\ inTaken' = inTaken
        /\ inAlloc' \in {inAlloc, Stdin!Allocated}
    BY <1>5 DEF Stdin!FetchFails, Stdin!AllocFails, Stdin!Absorb
  <2>2. inErrors' \in Nat /\ inErrors' > 0 /\ inAlloc' \in Nat
    BY <1>2, <2>1
  <2>3. InputIsKept'
    BY <1>1, <1>2, <1>3, <2>1, <2>2 DEF InputIsKept
  <2>4. QED  BY <1>1, <2>1, <2>3
<1>6. QED  BY <1>4, <1>5

-----------------------------------------------------------------------------
(* The chain over standard output.                                         *)

\* Shortening the cache of standard output moves nothing that waits.
LEMMA StdoutKept ==
  ASSUME outBuffer \in Seq(V), outWritten \in 0..Len(outBuffer)
  PROVE  /\ Stdout!Kept \in Seq(V) /\ Stdout!KeptWritten \in 0..Len(Stdout!Kept)
         /\ SubSeq(Stdout!Kept, Stdout!KeptWritten + 1, Len(Stdout!Kept))
              = SubSeq(outBuffer, outWritten + 1, Len(outBuffer))
<1> DEFINE u == SubSeq(outBuffer, outWritten + 1, Len(outBuffer))
<1>1. Len(outBuffer) \in Nat /\ outWritten \in Nat
  BY LenProperties
<1>2. u \in Seq(V)
  BY <1>1, Piece
<1> HIDE DEF u
<1>3. CASE Stdout!WorthShifting
  <2>1. Stdout!Kept = u /\ Stdout!KeptWritten = 0
    BY <1>3 DEF Stdout!Kept, Stdout!KeptWritten, Stdout!Unwritten, u
  <2>2. SubSeq(u, 0 + 1, Len(u)) = u /\ Len(u) \in Nat
    BY <1>2, WindowOfAll, LenProperties
  <2>3. 0 \in 0..Len(u)
    BY <2>2
  <2>4. QED  BY <1>2, <2>1, <2>2, <2>3 DEF u
<1>4. CASE ~Stdout!WorthShifting
  <2>1. Stdout!Kept = outBuffer /\ Stdout!KeptWritten = outWritten
    BY <1>4 DEF Stdout!Kept, Stdout!KeptWritten
  <2>2. QED  BY <2>1
<1>5. QED  BY <1>3, <1>4

\* When nothing is written or lost, what is pushed waits.
LEMMA StillWhole ==
  ASSUME NEW p \in Seq(V), NEW bytes \in Seq(V), OutputIs(p), UNCHANGED <<outSink, outError>>
  PROVE  /\ ~outError => outSink \o (Waiting \o bytes) = p \o bytes
         /\ \E rest \in Seq(V) : outSink' \o rest = p \o bytes
<1>1. outSink \in Seq(V) /\ outBuffer \in Seq(V) /\ outInput \in Seq(V)
      /\ outWritten \in 0..Len(outBuffer) /\ Len(outBuffer) \in Nat
  BY LenProperties DEF OutputIs
<1>2. Waiting \in Seq(V)
  BY <1>1, Piece DEF Waiting
<1>3. Regroups(outSink, Waiting, bytes)
  BY <1>1, <1>2, Regrouped
<1>4. PICK rest \in Seq(V) : outSink \o rest = p
  BY DEF OutputIs
<1>5. Regroups(outSink, rest, bytes)
  BY <1>1, Regrouped
<1>6. rest \o bytes \in Seq(V)
  BY ConcatProperties
<1>7. ~outError => outSink \o Waiting = p
  BY DEF OutputIs
<1>8. QED  BY <1>3, <1>4, <1>5, <1>6, <1>7 DEF Regroups

\* chain_push_final, when what waits is as it should be.
LEMMA StdoutSettles ==
  ASSUME NEW p \in Seq(V), NEW q \in Seq(V), OutputIs(p), outPc = "idle",
         UNCHANGED <<outSink, outError>>,
         NEW b \in Seq(V), NEW w \in 0..Len(b), outBuffer' = b, outWritten' = w,
         ~outError => outSink \o SubSeq(b, w + 1, Len(b)) = q,
         \E rest \in Seq(V) : outSink' \o rest = q,
         Stdout!Settle(b, w)
  PROVE  OutputIs(q)' /\ outPc' \in {"idle", "flushing"}
<1>1. Len(b) \in Nat /\ w \in Nat
  BY LenProperties
<1>2. SubSeq(b, w + 1, Len(b)) \in Seq(V)
  BY <1>1, Piece
<1>3. CASE outPc' = "flushing" /\ ~outError /\ outInput' = SubSeq(b, w + 1, Len(b))
  BY <1>2, <1>3 DEF OutputIs, Busy, Waiting
<1>4. CASE outPc' = "idle" /\ outInput' = outInput
  BY <1>4 DEF OutputIs, Busy, Waiting
<1>5. QED
  BY <1>3, <1>4 DEF Stdout!Settle, Stdout!Hand, Stdout!Unwritten

\* chain_push adds what is pushed to what waits.
LEMMA StdoutPushes ==
  ASSUME NEW p \in Seq(V), NEW bytes \in Seq(V), OutputIs(p), outPc = "idle",
         Stdout!Push(bytes), UNCHANGED outSink
  PROVE  OutputIs(p \o bytes)' /\ outPc' \in {"idle", "pushing", "flushing"}
         /\ UNCHANGED outError
<1> DEFINE q == p \o bytes
           k == Stdout!Kept
           w == Stdout!KeptWritten
<1>1. outError' = outError
  BY DEF Stdout!Push, Stdout!PushNothing, Stdout!PushDirect, Stdout!PushCached
<1>2. /\ outSink \in Seq(V) /\ outBuffer \in Seq(V) /\ outInput \in Seq(V)
      /\ outWritten \in 0..Len(outBuffer) /\ outError \in BOOLEAN
  BY DEF OutputIs
<1>3. /\ k \in Seq(V) /\ w \in 0..Len(k) /\ Len(k) \in Nat
      /\ SubSeq(k, w + 1, Len(k)) = Waiting
  BY <1>2, StdoutKept, LenProperties DEF Waiting, Busy
<1>4. /\ ~outError => outSink \o (Waiting \o bytes) = q
      /\ \E rest \in Seq(V) : outSink' \o rest = q
  BY <1>1, StillWhole
<1>5. q \in Seq(V)
  BY ConcatProperties
<1> HIDE DEF q, k, w
<1>6. CASE bytes = <<>> /\ Stdout!PushNothing
  <2>1. q = p
    BY <1>6, ConcatEmptySeq DEF q
  <2>2. UNCHANGED <<outBuffer, outWritten, outPc, outInput>>
    BY <1>6 DEF Stdout!PushNothing
  <2>3. QED  BY <1>1, <2>1, <2>2 DEF OutputIs, Busy, Waiting, q
<1>7. CASE Stdout!PushDirect(bytes)
  <2>1. /\ outBuffer' = k /\ outWritten' = w /\ Len(k) = w /\ Stdout!Hand(bytes, "pushing")
    BY <1>7 DEF Stdout!PushDirect, Stdout!SkipsCache, k, w
  <2>2. SubSeq(k, w + 1, Len(k)) = <<>>
    BY <1>3, <2>1, NothingBehind
  <2>3. <<>> \o bytes = bytes
    BY ConcatEmptySeq
  <2>4. CASE outError
    <3>1. outPc' = "idle" /\ outInput' = outInput
      BY <2>1, <2>4 DEF Stdout!Hand
    <3>2. QED  BY <1>1, <1>2, <1>3, <1>4, <2>1, <2>4, <3>1 DEF OutputIs, Busy, q
  <2>5. CASE ~outError
    <3>1. outPc' = "pushing" /\ outInput' = bytes
      BY <2>1, <2>5 DEF Stdout!Hand
    <3>2. outSink \o bytes = q
      BY <1>3, <1>4, <2>2, <2>3, <2>5
    <3>3. QED
      BY <1>1, <1>2, <1>3, <1>4, <2>1, <2>5, <3>1, <3>2 DEF OutputIs, Busy, Waiting, q
  <2>6. QED  BY <2>4, <2>5
<1>8. CASE Stdout!PushCached(bytes)
  <2> DEFINE b == k \o bytes
  <2>1. outBuffer' = b /\ outWritten' = w /\ Stdout!Settle(b, w)
    BY <1>8 DEF Stdout!PushCached, k, w
  <2>2. w \in Nat /\ w <= Len(k) /\ k \in Seq(V)
    BY <1>3
  <2>3. b \in Seq(V) /\ w <= Len(b) /\ SubSeq(b, w + 1, Len(b)) = Waiting \o bytes
    <3>1. b \in Seq(V) /\ Len(b) = Len(k) + Len(bytes) /\ Len(bytes) \in Nat
      BY <2>2, ConcatProperties, LenProperties
    <3>2. SubSeq(b, w + 1, Len(b)) = SubSeq(k, w + 1, Len(k)) \o bytes
      BY <2>2, TailOfConcat
    <3>3. w <= Len(b)
      BY <1>3, <2>2, <3>1
    <3>4. QED  BY <1>3, <3>1, <3>2, <3>3
  <2> HIDE DEF b
  <2>4. w \in 0..Len(b) /\ Len(b) \in Nat
    BY <2>2, <2>3, LenProperties
  <2>5. OutputIs(q)' /\ outPc' \in {"idle", "flushing"}
    BY <1>1, <1>4, <1>5, <2>1, <2>3, <2>4, StdoutSettles
  <2>6. QED  BY <1>1, <2>5 DEF q
<1>9. QED  BY <1>6, <1>7, <1>8 DEF Stdout!Push

\* Freeing it hands over what waits.
LEMMA StdoutFrees ==
  ASSUME NEW p \in Seq(V), OutputIs(p), ~outError,
         Stdout!Free, UNCHANGED outSink
  PROVE  OutputIs(p)' /\ outPc' = "closing" /\ ~outError'
<1>1. /\ outPc = "idle" /\ outPc' = "closing"
      /\ outInput' = SubSeq(outBuffer, outWritten + 1, Len(outBuffer))
      /\ UNCHANGED <<outBuffer, outWritten, outError, outSink>>
  BY DEF Stdout!Free, Stdout!Unwritten
<1>2. outBuffer \in Seq(V) /\ outWritten \in Nat /\ Len(outBuffer) \in Nat
  BY LenProperties DEF OutputIs
<1>3. SubSeq(outBuffer, outWritten + 1, Len(outBuffer)) \in Seq(V)
  BY <1>2, Piece
<1>4. QED  BY <1>1, <1>3 DEF OutputIs, Busy, Waiting

\* A write moves what it takes from what waits to what is written.
LEMMA StdoutGoesOn ==
  ASSUME NEW p \in Seq(V), OutputIs(p),
         Stdout!FdUpdate \/ Stdout!FdComplete \/ Stdout!FdFails
  PROVE  /\ OutputIs(p)' /\ Busy /\ (outError => outError')
         /\ outPc' \in {"closing", "freed"} => outPc = "closing"
<1>1. /\ Busy /\ outError = FALSE /\ outPc \in {"pushing", "flushing", "closing"}
  BY DEF Stdout!FdUpdate, Stdout!FdComplete, Stdout!FdFails, Stdout!Update, Stdout!Busy,
         Busy, OutputIs
<1>2. /\ outSink \in Seq(V) /\ outBuffer \in Seq(V) /\ outInput \in Seq(V)
      /\ outWritten \in 0..Len(outBuffer) /\ Len(outBuffer) \in Nat /\ Len(outInput) \in Nat
      /\ outSink \o outInput = p /\ (outPc = "pushing" => outWritten = Len(outBuffer))
  BY <1>1, LenProperties DEF OutputIs, Waiting
<1>3. CASE Stdout!FdUpdate
  <2>1. PICK n \in 1..Len(outInput) :
          /\ outSink' = outSink \o SubSeq(outInput, 1, n)
          /\ Stdout!Update(SubSeq(outInput, n + 1, Len(outInput)), "incomplete")
    BY <1>3 DEF Stdout!FdUpdate
  <2> DEFINE a == SubSeq(outInput, 0 + 1, n)
             c == SubSeq(outInput, n + 1, Len(outInput))
  <2>2. n \in Nat /\ n <= Len(outInput)
    BY <1>2
  <2>3. a \in Seq(V) /\ c \in Seq(V) /\ a \o c = SubSeq(outInput, 0 + 1, Len(outInput))
    BY <1>2, <2>2, Piece, Adjacent, SMTT(30)
  <2>4. a \o c = outInput
    BY <1>2, <2>3, WindowOfAll
  <2>5. outSink' = outSink \o a
    BY <2>1
  <2>6. /\ outInput' = c /\ outError' = outError
        /\ UNCHANGED <<outBuffer, outWritten, outPc>>
    BY <1>1, <2>1 DEF Stdout!Update
  <2> HIDE DEF a, c
  <2>7. Regroups(outSink, a, c) /\ outSink \o a \in Seq(V)
    BY <1>2, <2>3, Regrouped, ConcatProperties
  <2>8. outSink' \o c = p /\ outSink' \in Seq(V)
    BY <1>2, <2>4, <2>5, <2>7 DEF Regroups
  <2>9. QED  BY <1>1, <1>2, <2>3, <2>6, <2>8 DEF OutputIs, Busy, Waiting
<1>4. CASE Stdout!FdComplete
  <2>1. /\ outInput = <<>> /\ outSink' = outSink /\ outError' = outError
        /\ outInput' = <<>> /\ outPc' = IF outPc = "closing" THEN "freed" ELSE "idle"
        /\ IF outPc = "pushing" THEN outBuffer' = outBuffer \o <<>> /\ outWritten' = outWritten
           ELSE outWritten' = Len(outBuffer) - Len(<<>>) /\ outBuffer' = outBuffer
    BY <1>1, <1>4 DEF Stdout!FdComplete, Stdout!Update, Stdout!Handed, Stdout!Resting
  <2>2. outBuffer \o <<>> = outBuffer /\ Len(<<>>) = 0 /\ <<>> \in Seq(V)
    BY <1>2, ConcatEmptySeq, EmptySeq
  <2>3. outBuffer' = outBuffer /\ outWritten' = Len(outBuffer)
    BY <1>2, <2>1, <2>2
  <2>4. SubSeq(outBuffer, Len(outBuffer) + 1, Len(outBuffer)) = <<>>
    BY <1>2, NothingBehind
  <2>5. Len(outBuffer) \in 0..Len(outBuffer)
    BY <1>2
  <2>6. outPc' \in {"idle", "freed"} /\ (outPc' = "freed" => outPc = "closing")
    BY <2>1
  <2>7. QED  BY <1>1, <1>2, <2>1, <2>2, <2>3, <2>4, <2>5, <2>6 DEF OutputIs, Busy, Waiting
<1>5. CASE Stdout!FdFails
  <2>1. /\ outError' = TRUE /\ outSink' = outSink /\ outInput' = <<>>
        /\ outPc' = IF outPc = "closing" THEN "freed" ELSE "idle"
        /\ UNCHANGED <<outBuffer, outWritten>>
    BY <1>1, <1>5 DEF Stdout!FdFails, Stdout!Update, Stdout!Resting
  <2>2. <<>> \in Seq(V)
    BY EmptySeq
  <2>3. outPc' \in {"idle", "freed"} /\ (outPc' = "freed" => outPc = "closing")
    BY <2>1
  <2>4. QED  BY <1>1, <1>2, <2>1, <2>2, <2>3 DEF OutputIs, Busy
<1>6. QED  BY <1>3, <1>4, <1>5

-----------------------------------------------------------------------------
(* The steps of the adaptor's update function.                             *)

\* A step that leaves what was made and its output alone.
LEMMA Unmoved ==
  ASSUME DzipInv, UNCHANGED <<should_deflate, inConsumed, buffer, released, pc, contents,
                              result, consumed, is_error, stdout, main>>
  PROVE  \E made \in Seq(V), pushed \in Seq(V) :
           /\ Converts(made, Given)' /\ MadeIs(made)'
           /\ pushed = Pushed(made)' /\ OutputIs(pushed)'
<1>1. PICK made \in Seq(V), pushed \in Seq(V) :
        /\ Converts(made, Given) /\ MadeIs(made)
        /\ pushed = Pushed(made) /\ OutputIs(pushed)
  BY DEF DzipInv
<1>2. Converts(made, Given)'
  BY <1>1 DEF Converts, Given
<1>3. MadeIs(made)' /\ pushed = Pushed(made)'
  BY <1>1 DEF MadeIs, Pushed
<1>4. OutputIs(pushed)'
  BY <1>1 DEF OutputIs, Busy, Waiting, stdout
<1>5. QED  BY <1>2, <1>3, <1>4

LEMMA UpdatePullsStep ==
  ASSUME DzipConstants, DzipInv, UpdatePulls, UNCHANGED should_deflate
  PROVE  DzipInv'
<1>1. /\ pc = "reading" /\ update = "none" /\ update' = "pulling"
      /\ Stdin!Pull(PullSize) /\ UNCHANGED <<inAlloc, inTaken, inErrors>>
      /\ UNCHANGED <<adaptor, stdout, main, exit>>
  BY DEF UpdatePulls
<1>2. InputIsKept /\ PullsAreOrderly /\ MainIsOrderly /\ ExitIsOrderly /\ AheadIs
  BY DEF DzipInv
<1>3. ~inError /\ inPc = "idle" /\ inError \in BOOLEAN
  BY <1>1, <1>2 DEF PullsAreOrderly, MainIsOrderly, InputIsKept
<1>4. /\ InputIsKept' /\ UNCHANGED <<inConsumed, inTaken, inComplete, inError, inErrors>>
      /\ \/ inPc' = "reading"
         \/ inPc' = "idle" /\ inResult' = "data" /\ inContents' = Ahead /\ ~inComplete
         \/ inPc' = "idle" /\ inResult' = "end" /\ inComplete
  BY <1>1, <1>2, <1>3, StdinPulls
<1>5. Ahead' = Ahead
  BY <1>4 DEF Ahead
<1>6. PullsAreOrderly'
  BY <1>1, <1>2, <1>3, <1>4, <1>5 DEF PullsAreOrderly, adaptor
<1>7. MainIsOrderly' /\ ExitIsOrderly'
  BY <1>1, <1>2, <1>4 DEF MainIsOrderly, ExitIsOrderly, adaptor, stdout
<1>8. AheadIs'
  BY <1>1, <1>2, <1>4, <1>5 DEF AheadIs, adaptor
<1>9. \E made \in Seq(V), pushed \in Seq(V) :
           /\ Converts(made, Given)' /\ MadeIs(made)'
           /\ pushed = Pushed(made)' /\ OutputIs(pushed)'
  BY <1>1, <1>4, Unmoved DEF adaptor
<1>10. QED  BY <1>4, <1>6, <1>7, <1>8, <1>9 DEF DzipInv

LEMMA StdinReadsStep ==
  ASSUME DzipConstants, DzipInv, StdinReads, UNCHANGED should_deflate
  PROVE  DzipInv'
<1>1. /\ Stdin!Fetch \/ Stdin!FetchFails \/ Stdin!AllocFails
      /\ UNCHANGED <<adaptor, stdout, program>>
  BY DEF StdinReads
<1>2. InputIsKept /\ PullsAreOrderly /\ MainIsOrderly /\ ExitIsOrderly /\ AheadIs
  BY DEF DzipInv
<1>3. /\ InputIsKept' /\ UNCHANGED inConsumed /\ inPc = "reading" /\ ~inError
      /\ ~inError' => inErrors' = inErrors
      /\ \/ inPc' = "reading" /\ ~inError'
         \/ inPc' = "idle" /\ inResult' = "data" /\ inContents' = Ahead' /\ ~inError'
         \/ inPc' = "idle" /\ inResult' = "failed" /\ inError'
      /\ inComplete' => inPc' = "idle" /\ inResult' = "data"
  BY <1>1, <1>2, StdinReadsOn
<1>4. update = "pulling" /\ pc = "reading" /\ ~is_error /\ ~is_complete
  BY <1>2, <1>3 DEF PullsAreOrderly, MainIsOrderly
<1>5. PullsAreOrderly'
  BY <1>1, <1>2, <1>3, <1>4 DEF PullsAreOrderly, adaptor, program
<1>6. MainIsOrderly' /\ ExitIsOrderly'
  BY <1>1, <1>2, <1>4 DEF MainIsOrderly, ExitIsOrderly, adaptor, stdout, program
<1>7. AheadIs'
  BY <1>1, <1>3, <1>4 DEF AheadIs, adaptor, program
<1>8. \E made \in Seq(V), pushed \in Seq(V) :
           /\ Converts(made, Given)' /\ MadeIs(made)'
           /\ pushed = Pushed(made)' /\ OutputIs(pushed)'
  BY <1>1, <1>3, Unmoved DEF adaptor, program
<1>9. QED  BY <1>3, <1>5, <1>6, <1>7, <1>8 DEF DzipInv

\* Where main and the adaptor are when standard input has answered.
LEMMA Answered ==
  ASSUME DzipInv, NEW outcome, Pulled(outcome)
  PROVE  /\ update = "pulling" /\ inPc = "idle" /\ inResult = outcome /\ update' = "none"
         /\ pc = "reading" /\ main = "push" /\ exit = "running" /\ released = 0
         /\ ~is_error /\ ~is_complete /\ is_error \in BOOLEAN
         /\ result \notin {"end", "failed"} /\ max_size \in Nat
BY DEF DzipInv, Pulled, PullsAreOrderly, MainIsOrderly, MadeIs

\* The end, or the failure, of standard input is handed on.
LEMMA UpdateEndsStep ==
  ASSUME DzipConstants, DzipInv, UpdateEnds, UNCHANGED should_deflate
  PROVE  DzipInv'
<1> DEFINE status == IF inError THEN "error" ELSE "complete"
<1>1. PICK outcome \in {"end", "failed"} : Pulled(outcome)
  BY DEF UpdateEnds
<1>2. /\ update = "pulling" /\ inPc = "idle" /\ inResult = outcome /\ update' = "none"
      /\ pc = "reading" /\ main = "push" /\ exit = "running" /\ released = 0
      /\ ~is_error /\ ~is_complete /\ is_error \in BOOLEAN
      /\ result \notin {"end", "failed"} /\ max_size \in Nat
  BY <1>1, Answered
<1>3. Adaptor!Absorb(buffer, status) /\ UNCHANGED <<stdin, stdout, main, exit>>
  BY DEF UpdateEnds
<1>4. InputIsKept /\ PullsAreOrderly /\ MainIsOrderly /\ ExitIsOrderly /\ AheadIs
  BY DEF DzipInv
<1>5. PICK made \in Seq(V), pushed \in Seq(V) :
        /\ Converts(made, Given) /\ MadeIs(made)
        /\ pushed = Pushed(made) /\ OutputIs(pushed)
  BY DEF DzipInv
<1>6. buffer \in Seq(V) /\ consumed \in 0..Len(made) /\ consumed \in Nat
  <2>1. buffer = SubSeq(made, consumed + 1, Len(made)) /\ consumed \in 0..Len(made)
    BY <1>2, <1>5 DEF MadeIs
  <2>2. Len(made) \in Nat /\ consumed \in Nat
    BY <1>5, <2>1, LenProperties
  <2>3. QED  BY <2>1, <2>2, Piece
<1>7. Adaptor!Window(buffer, released) = buffer
  BY <1>2, <1>6, WindowOfAll DEF Adaptor!Window
<1>8. /\ buffer' = buffer /\ pc' = "idle" /\ released' = 0 /\ consumed' = consumed
      /\ max_size' = max_size
      /\ is_error' = (status = "error") /\ is_complete' = (status = "complete")
      /\ status = "error" => result' = "failed"
      /\ status = "complete" => result' = "data" /\ contents' = buffer
      /\ status \in {"error", "complete"}
  BY <1>2, <1>3, <1>7 DEF Adaptor!Absorb
<1>9. /\ status = "error" => inError /\ inErrors > 0
      /\ status = "complete" => inComplete /\ ~inError
  BY <1>1, <1>2, <1>4 DEF PullsAreOrderly, InputIsKept
<1>10. inError => status = "error"
  OBVIOUS
<1> HIDE DEF status
<1>11. InputIsKept'
  BY <1>3, <1>4 DEF InputIsKept, stdin
<1>12. PullsAreOrderly'
  BY <1>2, <1>3, <1>8, <1>9, <1>10 DEF PullsAreOrderly, stdin
<1>13. MainIsOrderly'
  BY <1>2, <1>3, <1>4, <1>8, <1>9 DEF MainIsOrderly, stdin
<1>14. ExitIsOrderly'
  BY <1>2, <1>3, <1>4, <1>8 DEF ExitIsOrderly, stdout
<1>15. AheadIs'
  BY <1>1, <1>2, <1>3, <1>4, <1>8, <1>9 DEF AheadIs, stdin, Ahead
<1>16. Converts(made, Given)' /\ OutputIs(pushed)'
  BY <1>3, <1>5 DEF Converts, Given, OutputIs, Busy, Waiting, stdin, stdout
<1>17. MadeIs(made)' /\ pushed = Pushed(made)'
  BY <1>2, <1>3, <1>5, <1>8 DEF MadeIs, Pushed
<1>18. QED  BY <1>5, <1>11, <1>12, <1>13, <1>14, <1>15, <1>16, <1>17 DEF DzipInv

\* The adaptor appends to its cache what comes of what it has pulled.
LEMMA MakesMore ==
  ASSUME NEW made \in Seq(V), NEW more \in Seq(V), MadeIs(made),
         pc = "reading", main = "push", released = 0, ~is_error, ~is_complete,
         is_error \in BOOLEAN, result \notin {"end", "failed"}, max_size \in Nat,
         Adaptor!Absorb(buffer \o more, "incomplete"), UNCHANGED main
  PROVE  /\ made \o more \in Seq(V) /\ MadeIs(made \o more)'
         /\ Pushed(made \o more)' = Pushed(made)
         /\ is_error' = FALSE /\ is_complete' = FALSE /\ max_size' = max_size
         /\ \/ pc' = "idle" /\ result' = "data"
            \/ pc' = "reading" /\ result' = result
<1> DEFINE after == made \o more
           filled == buffer \o more
<1>1. /\ consumed \in 0..Len(made) /\ Len(made) \in Nat /\ consumed \in Nat
      /\ consumed <= Len(made) /\ buffer = SubSeq(made, consumed + 1, Len(made))
  <2>1. consumed \in 0..Len(made) /\ buffer = SubSeq(made, consumed + 1, Len(made))
    BY DEF MadeIs
  <2>2. QED  BY <2>1, LenProperties
<1>2. after \in Seq(V) /\ Len(after) = Len(made) + Len(more) /\ Len(more) \in Nat
  BY ConcatProperties, LenProperties
<1>3. SubSeq(after, consumed + 1, Len(after)) = filled
  <2>1. SubSeq(after, consumed + 1, Len(after))
          = SubSeq(made, consumed + 1, Len(made)) \o more
    BY <1>1, TailOfConcat
  <2>2. QED  BY <1>1, <2>1
<1>4. filled \in Seq(V) /\ Len(filled) \in Nat
  <2>1. buffer \in Seq(V)
    BY <1>1, Piece
  <2>2. filled \in Seq(V)
    BY <2>1, ConcatProperties
  <2>3. QED  BY <2>2, LenProperties
<1>5. SubSeq(after, 1, consumed) = SubSeq(made, 1, consumed)
  <2>1. CASE consumed = 0
    <3>1. SubSeq(after, 1, 0) = <<>> /\ SubSeq(made, 1, 0) = <<>>
      BY SubSeqEmpty
    <3>2. QED  BY <2>1, <3>1
  <2>2. CASE consumed # 0
    <3>1. 1 \in 1..Len(made) /\ consumed \in 1..Len(made)
      BY <1>1, <2>2
    <3>2. QED  BY <3>1, SubSeqOfConcat1
  <2>3. QED  BY <2>1, <2>2
<1> HIDE DEF after
<1>6. Adaptor!Window(filled, released) = filled
  <2> HIDE DEF filled
  <2>1. QED  BY <1>4, WindowOfAll DEF Adaptor!Window
<1>7. Adaptor!Absorb(filled, "incomplete")
  OBVIOUS
<1> HIDE DEF filled
<1>8. (max_size >= Len(filled)) <=> ~(max_size < Len(filled))
  BY <1>4
<1>9. /\ buffer' = filled /\ released' = 0 /\ consumed' = consumed /\ max_size' = max_size
      /\ is_error' = FALSE /\ is_complete' = FALSE
      /\ \/ pc' = "idle" /\ result' = "data" /\ contents' = filled
         \/ pc' = "reading" /\ result' = result
  BY <1>6, <1>7, <1>8 DEF Adaptor!Absorb
<1>10. consumed \in 0..Len(after)
  BY <1>1, <1>2
<1>11. MadeIs(after)'
  BY <1>2, <1>3, <1>9, <1>10 DEF MadeIs
<1>12. Pushed(after)' = Pushed(made)
  BY <1>5, <1>9 DEF Pushed
<1>13. QED  BY <1>2, <1>9, <1>11, <1>12 DEF after

\* Part of what was ahead has been given.
LEMMA MoreGiven ==
  ASSUME DzipConstants, InputIsKept, NEW a \in Seq(Units), NEW b \in Seq(Units),
         Ahead = a \o b, inTaken' = inTaken, inConsumed' = inConsumed + Len(a)
  PROVE  Given' = Given \o a /\ Ahead' = b /\ inConsumed' \in 0..inTaken
<1> DEFINE n == inConsumed
           m == inConsumed + Len(a)
           t == inTaken
<1>1. /\ Input \in Seq(Units) /\ Len(Input) \in Nat
      /\ n \in Nat /\ t \in Nat /\ n <= t /\ t <= Len(Input)
  BY InputUnits DEF InputIsKept
<1>2. Len(a) \in Nat /\ Len(b) \in Nat /\ Len(a \o b) = Len(a) + Len(b)
  BY LenProperties, ConcatProperties
<1>3. Len(a) + Len(b) = t - n
  BY <1>2, InputParts
<1>4. m \in Nat /\ n <= m /\ m <= t /\ m - n = Len(a) /\ m <= Len(Input)
  BY <1>1, <1>2, <1>3
<1>5. inConsumed' = m /\ inTaken' = t
  OBVIOUS
<1>14. 0 \in Nat /\ 0 <= n /\ 0 + 1 = 1
  BY <1>1
<1> HIDE DEF m, n, t
<1> DEFINE c == SubSeq(Input, n + 1, m)
           d == SubSeq(Input, m + 1, t)
<1>6. c \in Seq(Units) /\ Len(c) = Len(a) /\ d \in Seq(Units)
  BY <1>1, <1>4, Piece
<1>7. c \o d = a \o b
  BY <1>1, <1>4, Adjacent, ZenonT(30) DEF Ahead, n, t
<1>8. SubSeq(Input, 0 + 1, n) \o c = SubSeq(Input, 0 + 1, m)
  BY <1>1, <1>4, <1>14, Adjacent, ZenonT(30)
<1> HIDE DEF c, d
<1>9. c = a /\ d = b
  BY <1>6, <1>7, CutsAlike
<1>10. SubSeq(Input, 1, n) \o a = SubSeq(Input, 1, m)
  BY <1>8, <1>9, <1>14
<1>11. m \in 0..t
  BY <1>1, <1>4
<1>12. QED  BY <1>5, <1>9, <1>10, <1>11 DEF Given, Ahead, d, n, t

\* What releasing leaves of the chain over standard input.
LEMMA StdinReleases ==
  ASSUME DzipConstants, InputIsKept, ~inError, NEW n \in Nat, inConsumed + n \in 0..inTaken,
         Stdin!Release(n), UNCHANGED <<inAlloc, inTaken, inErrors>>
  PROVE  InputIsKept' /\ UNCHANGED <<inError, inComplete, inPc>>
         /\ inConsumed' = inConsumed + n
<1>1. /\ inReleased' = inReleased + n /\ inConsumed' = inConsumed + n
      /\ UNCHANGED <<inBuffer, inError, inComplete, inPc, inMax>>
  BY DEF Stdin!Release
<1>2. inReleased \in 0..inConsumed /\ inConsumed \in Nat
  BY DEF InputIsKept
<1>3. /\ (inConsumed + n) - (inReleased + n) + 1 = inConsumed - inReleased + 1
      /\ inReleased + n \in 0..inConsumed + n
  BY <1>2
<1>4. QED  BY <1>1, <1>3 DEF InputIsKept

\* What a turn that goes on leaves of main's order and the adaptor's.
LEMMA GoesOn ==
  ASSUME DzipInv, Pulled("data"),
         UNCHANGED <<should_deflate, inError, inComplete, inPc, stdout, main, exit>>,
         is_error' = FALSE, is_complete' = FALSE, max_size' = max_size,
         \/ pc' = "idle" /\ result' = "data"
         \/ pc' = "reading" /\ result' = result
  PROVE  PullsAreOrderly' /\ MainIsOrderly' /\ ExitIsOrderly'
<1>1. /\ update' = "none" /\ inPc = "idle" /\ ~inError
      /\ pc = "reading" /\ main = "push" /\ exit = "running"
      /\ result \notin {"end", "failed"} /\ max_size \in Nat /\ should_deflate \in BOOLEAN
  BY Answered DEF DzipInv, PullsAreOrderly, MainIsOrderly, Pulled, InputIsKept
<1>2. PullsAreOrderly'
  BY <1>1 DEF PullsAreOrderly
<1>3. MainIsOrderly'
  BY <1>1 DEF MainIsOrderly
<1>4. ExitIsOrderly'
  BY <1>1 DEF ExitIsOrderly, DzipInv, stdout
<1>5. QED  BY <1>2, <1>3, <1>4

\* Everything there is is deflated and released.
LEMMA UpdateDeflatesStep ==
  ASSUME DzipConstants, DzipInv, UpdateDeflates, UNCHANGED should_deflate
  PROVE  DzipInv'
<1>1. /\ should_deflate /\ Pulled("data")
      /\ Adaptor!Absorb(buffer \o Deflate(inContents), "incomplete")
      /\ Stdin!Release(Len(inContents))
      /\ UNCHANGED <<inAlloc, inTaken, inErrors, stdout, main, exit>>
  BY DEF UpdateDeflates
<1>2. /\ update = "pulling" /\ inPc = "idle" /\ update' = "none"
      /\ pc = "reading" /\ main = "push" /\ released = 0
      /\ ~is_error /\ ~is_complete /\ is_error \in BOOLEAN
      /\ result \notin {"end", "failed"} /\ max_size \in Nat /\ inResult = "data"
  BY <1>1, Answered
<1>3. InputIsKept /\ PullsAreOrderly
  BY DEF DzipInv
<1>4. ~inError /\ inContents = Ahead
  BY <1>2, <1>3 DEF PullsAreOrderly
<1>5. PICK made \in Seq(V), pushed \in Seq(V) :
        /\ Converts(made, Given) /\ MadeIs(made)
        /\ pushed = Pushed(made) /\ OutputIs(pushed)
  BY DEF DzipInv
<1>6. /\ Ahead \in Seq(Units) /\ Given \in Seq(Units) /\ <<>> \in Seq(Units)
      /\ Ahead = Ahead \o <<>> /\ Len(Ahead) \in Nat /\ Len(Ahead) = inTaken - inConsumed
  BY <1>3, InputParts, EmptySeq, ConcatEmptySeq, LenProperties
<1>7. PICK more \in Seq(V) : more = Deflate(Ahead) /\ AllUsed(more) /\ Plain(more) = Ahead
  <2>1. AreUnits(Units)
    BY InputUnits
  <2>2. QED  BY <1>6, <2>1, DeflateInflates DEF V
<1>8. Adaptor!Absorb(buffer \o more, "incomplete") /\ Stdin!Release(Len(Ahead))
  BY <1>1, <1>4, <1>7
<1>9. inConsumed' = inConsumed + Len(Ahead)
  BY <1>8 DEF Stdin!Release
<1>10. Given' = Given \o Ahead /\ Ahead' = <<>> /\ inConsumed' \in 0..inTaken
  BY <1>1, <1>3, <1>6, <1>9, MoreGiven
<1>11. InputIsKept' /\ UNCHANGED <<inError, inComplete, inPc>>
  BY <1>1, <1>3, <1>4, <1>6, <1>8, <1>9, <1>10, StdinReleases
<1>12. /\ made \o more \in Seq(V) /\ MadeIs(made \o more)'
       /\ Pushed(made \o more)' = Pushed(made)
       /\ is_error' = FALSE /\ is_complete' = FALSE /\ max_size' = max_size
       /\ \/ pc' = "idle" /\ result' = "data"
          \/ pc' = "reading" /\ result' = result
  BY <1>1, <1>2, <1>5, <1>7, <1>8, MakesMore
<1>13. Converts(made \o more, Given)'
  <2>1. AllUsed(made) /\ Plain(made) = Given
    BY <1>1, <1>5 DEF Converts
  <2>2. /\ Ok(made \o more) <=> Ok(more)
        /\ Ok(more) => Used(made \o more) = Len(made) + Used(more)
        /\ Plain(made \o more) = Plain(made) \o Plain(more)
    BY <1>5, <1>7, <2>1, InputUnits, ComposeParts
  <2>3. Len(made \o more) = Len(made) + Len(more)
    BY <1>5, <1>7, ConcatProperties
  <2>4. AllUsed(made \o more) /\ Plain(made \o more) = Given \o Ahead
    BY <1>7, <2>1, <2>2, <2>3 DEF AllUsed
  <2>5. QED  BY <1>1, <1>10, <2>4 DEF Converts
<1>14. PullsAreOrderly' /\ MainIsOrderly' /\ ExitIsOrderly'
  BY <1>1, <1>11, <1>12, GoesOn
<1>15. AheadIs'
  <2>1. inConsumed' = inTaken'
    BY <1>1, <1>3, <1>6, <1>9 DEF InputIsKept
  <2>2. QED  BY <1>1, <1>12, <2>1 DEF AheadIs
<1>16. OutputIs(pushed)'
  BY <1>1, <1>5 DEF OutputIs, Busy, Waiting, stdout
<1>17. QED
  BY <1>5, <1>11, <1>12, <1>13, <1>14, <1>15, <1>16 DEF DzipInv

\* The chunks that are all there are inflated and released.
LEMMA UpdateInflatesStep ==
  ASSUME DzipConstants, DzipInv, UpdateInflates, UNCHANGED should_deflate
  PROVE  DzipInv'
<1>1. /\ ~should_deflate /\ Pulled("data")
      /\ UNCHANGED <<inAlloc, inTaken, inErrors, stdout, main, exit>>
  BY DEF UpdateInflates
<1>2. /\ update = "pulling" /\ inPc = "idle" /\ update' = "none"
      /\ pc = "reading" /\ main = "push" /\ released = 0 /\ exit = "running"
      /\ ~is_error /\ ~is_complete /\ is_error \in BOOLEAN
      /\ result \notin {"end", "failed"} /\ max_size \in Nat /\ inResult = "data"
  BY <1>1, Answered
<1>3. InputIsKept /\ PullsAreOrderly /\ MainIsOrderly /\ ExitIsOrderly
  BY DEF DzipInv
<1>4. ~inError /\ inContents = Ahead
  BY <1>2, <1>3 DEF PullsAreOrderly
<1>5. /\ Adaptor!Absorb(buffer \o Plain(Ahead), IF Ok(Ahead) THEN "incomplete" ELSE "error")
      /\ IF Ok(Ahead) THEN Stdin!Release(Used(Ahead)) ELSE UNCHANGED stdin
  BY <1>4 DEF UpdateInflates, Plain, Ok, Used
<1>6. PICK made \in Seq(V), pushed \in Seq(V) :
        /\ Converts(made, Given) /\ MadeIs(made)
        /\ pushed = Pushed(made) /\ OutputIs(pushed)
  BY DEF DzipInv
<1>7. Ahead \in Seq(Units) /\ Given \in Seq(Units) /\ AreUnits(Units)
  BY <1>3, InputParts, InputUnits
<1>8. Plain(Ahead) \in Seq(Units)
  BY <1>7, PartsTyped
<1>9. PICK more \in Seq(V) : more = Plain(Ahead)
  BY <1>8, InputUnits
<1>10. OutputIs(pushed)'
  BY <1>1, <1>6 DEF OutputIs, Busy, Waiting, stdout
<1>11. CASE Ok(Ahead)
  <2>1. PICK a, b \in Seq(Units) :
          /\ Ahead = a \o b /\ AllUsed(a) /\ Len(a) = Used(Ahead)
          /\ Plain(a) = Plain(Ahead) /\ MeansNothing(b)
    BY <1>7, <1>11, Split
  <2>2. Adaptor!Absorb(buffer \o more, "incomplete") /\ Stdin!Release(Len(a))
    BY <1>5, <1>9, <1>11, <2>1
  <2>3. inConsumed' = inConsumed + Len(a) /\ Len(a) \in Nat
    BY <2>1, <2>2, LenProperties DEF Stdin!Release
  <2>4. Given' = Given \o a /\ Ahead' = b /\ inConsumed' \in 0..inTaken
    BY <1>1, <1>3, <2>1, <2>3, MoreGiven
  <2>5. InputIsKept' /\ UNCHANGED <<inError, inComplete, inPc>>
    BY <1>1, <1>3, <1>4, <2>2, <2>3, <2>4, StdinReleases
  <2>6. /\ made \o more \in Seq(V) /\ MadeIs(made \o more)'
        /\ Pushed(made \o more)' = Pushed(made)
        /\ is_error' = FALSE /\ is_complete' = FALSE /\ max_size' = max_size
        /\ \/ pc' = "idle" /\ result' = "data"
           \/ pc' = "reading" /\ result' = result
    BY <1>1, <1>2, <1>6, <1>9, <2>2, MakesMore
  <2>7. Converts(made \o more, Given)'
    <3>1. AllUsed(Given) /\ Plain(Given) = made
      BY <1>1, <1>6 DEF Converts
    <3>2. /\ Ok(Given \o a) <=> Ok(a)
          /\ Ok(a) => Used(Given \o a) = Len(Given) + Used(a)
          /\ Plain(Given \o a) = Plain(Given) \o Plain(a)
      BY <1>7, <2>1, <3>1, ComposeParts
    <3>3. Len(Given \o a) = Len(Given) + Len(a)
      BY <1>7, <2>1, ConcatProperties
    <3>4. AllUsed(Given \o a) /\ Plain(Given \o a) = made \o more
      BY <1>9, <2>1, <3>1, <3>2, <3>3 DEF AllUsed
    <3>5. QED  BY <1>1, <2>4, <3>4 DEF Converts
  <2>8. PullsAreOrderly' /\ MainIsOrderly' /\ ExitIsOrderly'
    BY <1>1, <2>5, <2>6, GoesOn
  <2>9. AheadIs'
    BY <1>1, <2>1, <2>4, <2>6 DEF AheadIs
  <2>10. QED
    BY <1>6, <1>10, <2>5, <2>6, <2>7, <2>8, <2>9 DEF DzipInv
<1>12. CASE ~Ok(Ahead)
  <2>1. Adaptor!Absorb(buffer \o more, "error") /\ UNCHANGED stdin
    BY <1>5, <1>9, <1>12
  <2>2. /\ is_error' = TRUE /\ is_complete' = FALSE /\ result' = "failed" /\ pc' = "idle"
        /\ UNCHANGED <<released, consumed, max_size>>
    BY <2>1 DEF Adaptor!Absorb
  <2>3. InputIsKept'
    BY <1>1, <1>3, <2>1 DEF InputIsKept, stdin
  <2>4. PullsAreOrderly' /\ MainIsOrderly' /\ ExitIsOrderly'
    BY <1>1, <1>2, <1>3, <1>4, <2>1, <2>2
       DEF PullsAreOrderly, MainIsOrderly, ExitIsOrderly, stdin, stdout
  <2>5. AheadIs'
    <3>1. Ahead' = Ahead
      BY <2>1 DEF Ahead, stdin
    <3>2. QED  BY <1>1, <1>12, <2>2, <3>1 DEF AheadIs
  <2>6. Converts(made, Given)'
    BY <1>6, <2>1 DEF Converts, Given, stdin
  <2>7. MadeIs(made)' /\ pushed = Pushed(made)'
    BY <1>1, <1>2, <1>6, <2>2 DEF MadeIs, Pushed
  <2>8. QED  BY <1>6, <1>10, <2>3, <2>4, <2>5, <2>6, <2>7 DEF DzipInv
<1>13. QED  BY <1>11, <1>12

-----------------------------------------------------------------------------
(* The steps of main.                                                      *)

LEMMA MainPullsStep ==
  ASSUME DzipConstants, DzipInv, MainPulls, UNCHANGED should_deflate
  PROVE  DzipInv'
<1>1. /\ main = "pull" /\ exit = "running" /\ pc = "idle" /\ outPc = "idle"
      /\ Adaptor!Pull(PullSize) /\ main' = "push"
      /\ UNCHANGED <<stdin, stdout, update, exit>>
  BY DEF MainPulls, MainAt
<1>2. InputIsKept /\ PullsAreOrderly /\ MainIsOrderly /\ ExitIsOrderly /\ AheadIs
  BY DEF DzipInv
<1>3. PICK made \in Seq(V), pushed \in Seq(V) :
        /\ Converts(made, Given) /\ MadeIs(made)
        /\ pushed = Pushed(made) /\ OutputIs(pushed)
  BY DEF DzipInv
<1>4. buffer \in Seq(V) /\ released = Len(buffer) /\ Len(buffer) \in Nat
      /\ consumed = Len(made) /\ Len(made) \in Nat
  BY <1>1, <1>3, LenProperties DEF MadeIs
<1>5. Adaptor!Kept = <<>> /\ Adaptor!StillReleased = 0 /\ Len(<<>>) = 0
      /\ PullSize \in Nat \ {0}
  BY <1>4, EmptySeq DEF Adaptor!Kept, Adaptor!StillReleased, Adaptor!Exhausted, DzipConstants
<1>6. ~Adaptor!PullCached(PullSize)
  BY <1>5 DEF Adaptor!PullCached, Adaptor!Cached
<1>7. /\ is_error = FALSE /\ result \notin {"end", "failed"} /\ update = "none"
      /\ max_size \in Nat
  BY <1>1, <1>2 DEF MainIsOrderly, PullsAreOrderly
<1>8. /\ buffer' = <<>> /\ released' = 0
      /\ UNCHANGED <<is_error, is_complete, consumed>>
      /\ \/ is_complete /\ result' = "end" /\ pc' = "idle" /\ max_size' = max_size
         \/ ~is_complete /\ result' = result /\ pc' = "reading" /\ max_size' = PullSize
  BY <1>1, <1>5, <1>6 DEF Adaptor!Pull, Adaptor!PullEnded, Adaptor!PullReads,
                          Adaptor!ApplyRelease
<1>9. InputIsKept'
  BY <1>1, <1>2 DEF InputIsKept, stdin
<1>10. PullsAreOrderly'
  BY <1>1, <1>2, <1>7, <1>8 DEF PullsAreOrderly, stdin, Ahead
<1>11. MainIsOrderly'
  BY <1>1, <1>2, <1>5, <1>7, <1>8 DEF MainIsOrderly, stdin
<1>12. ExitIsOrderly'
  BY <1>1, <1>2 DEF ExitIsOrderly, stdout
<1>13. AheadIs'
  BY <1>1, <1>2, <1>7, <1>8 DEF AheadIs, stdin, Ahead
<1>14. Converts(made, Given)' /\ OutputIs(pushed)'
  BY <1>1, <1>3 DEF Converts, Given, OutputIs, Busy, Waiting, stdin, stdout
<1>15. SubSeq(made, consumed + 1, Len(made)) = <<>>
  BY <1>4, NothingBehind
<1>16. consumed \in 0..Len(made)
  BY <1>4
<1>17. MadeIs(made)' /\ pushed = Pushed(made)'
  BY <1>1, <1>3, <1>4, <1>7, <1>8, <1>15, <1>16 DEF MadeIs, Pushed
<1>18. QED  BY <1>3, <1>9, <1>10, <1>11, <1>12, <1>13, <1>14, <1>17 DEF DzipInv

LEMMA MainPushesStep ==
  ASSUME DzipConstants, DzipInv, MainPushes, UNCHANGED should_deflate
  PROVE  DzipInv'
<1>1. /\ main = "push" /\ exit = "running" /\ pc = "idle" /\ outPc = "idle"
      /\ result = "data" /\ main' = "release" /\ Stdout!Push(contents)
      /\ UNCHANGED <<stdin, adaptor, outSink, update, exit>>
  BY DEF MainPushes, MainAt
<1>2. InputIsKept /\ PullsAreOrderly /\ MainIsOrderly /\ ExitIsOrderly /\ AheadIs
  BY DEF DzipInv
<1>3. PICK made \in Seq(V), pushed \in Seq(V) :
        /\ Converts(made, Given) /\ MadeIs(made)
        /\ pushed = Pushed(made) /\ OutputIs(pushed)
  BY DEF DzipInv
<1>4. ~is_error
  BY <1>1, <1>2 DEF MainIsOrderly
<1>5. /\ contents = SubSeq(made, consumed + 1, Len(made))
      /\ pushed = SubSeq(made, 1, consumed) /\ consumed \in 0..Len(made)
  BY <1>1, <1>3, <1>4 DEF MadeIs, Pushed
<1>6. /\ Len(made) \in Nat /\ consumed \in Nat /\ consumed <= Len(made)
      /\ 0 \in Nat /\ 0 <= consumed /\ Len(made) <= Len(made) /\ 0 + 1 = 1
  BY <1>5, LenProperties
<1>7. PICK bytes \in Seq(V) : bytes = contents
  <2>1. SubSeq(made, consumed + 1, Len(made)) \in Seq(V)
    BY <1>6, Piece
  <2>2. QED  BY <1>5, <2>1
<1>8. pushed \o bytes = made
  <2>1. SubSeq(made, 0 + 1, consumed) \o SubSeq(made, consumed + 1, Len(made))
          = SubSeq(made, 0 + 1, Len(made))
    BY <1>6, Adjacent
  <2>2. SubSeq(made, 0 + 1, Len(made)) = made
    BY WindowOfAll
  <2>3. QED  BY <1>5, <1>6, <1>7, <2>1, <2>2
<1>9. OutputIs(pushed \o bytes)' /\ outPc' \in {"idle", "pushing", "flushing"}
      /\ UNCHANGED outError
  BY <1>1, <1>3, <1>7, StdoutPushes
<1>10. OutputIs(made)'
  BY <1>8, <1>9
<1>11. InputIsKept' /\ PullsAreOrderly'
  BY <1>1, <1>2 DEF InputIsKept, PullsAreOrderly, stdin, adaptor, Ahead
<1>12. MainIsOrderly'
  BY <1>1, <1>2, <1>4 DEF MainIsOrderly, stdin, adaptor
<1>13. ExitIsOrderly'
  BY <1>1, <1>2, <1>9 DEF ExitIsOrderly
<1>14. AheadIs' /\ Converts(made, Given)'
  BY <1>1, <1>2, <1>3 DEF AheadIs, Converts, Given, Ahead, stdin, adaptor
<1>15. MadeIs(made)' /\ made = Pushed(made)'
  BY <1>1, <1>3 DEF MadeIs, Pushed, adaptor
<1>16. QED  BY <1>3, <1>10, <1>11, <1>12, <1>13, <1>14, <1>15 DEF DzipInv

LEMMA StdoutWritesStep ==
  ASSUME DzipConstants, DzipInv, StdoutWrites, UNCHANGED should_deflate
  PROVE  DzipInv'
<1>1. /\ Stdout!FdUpdate \/ Stdout!FdComplete \/ Stdout!FdFails
      /\ UNCHANGED <<stdin, adaptor, program>>
  BY DEF StdoutWrites
<1>2. InputIsKept /\ PullsAreOrderly /\ MainIsOrderly /\ ExitIsOrderly /\ AheadIs
  BY DEF DzipInv
<1>3. PICK made \in Seq(V), pushed \in Seq(V) :
        /\ Converts(made, Given) /\ MadeIs(made)
        /\ pushed = Pushed(made) /\ OutputIs(pushed)
  BY DEF DzipInv
<1>4. /\ OutputIs(pushed)' /\ Busy /\ (outError => outError')
      /\ outPc' \in {"closing", "freed"} => outPc = "closing"
  BY <1>1, <1>3, StdoutGoesOn
<1>5. InputIsKept' /\ PullsAreOrderly' /\ MainIsOrderly' /\ AheadIs'
  BY <1>1, <1>2 DEF InputIsKept, PullsAreOrderly, MainIsOrderly, AheadIs, Ahead, stdin,
                    adaptor, program
<1>6. ExitIsOrderly'
  BY <1>1, <1>2, <1>4 DEF ExitIsOrderly, Busy, adaptor, program
<1>7. Converts(made, Given)' /\ MadeIs(made)' /\ pushed = Pushed(made)'
  BY <1>1, <1>3 DEF Converts, Given, MadeIs, Pushed, stdin, adaptor, program
<1>8. QED  BY <1>3, <1>4, <1>5, <1>6, <1>7 DEF DzipInv

LEMMA MainReleasesStep ==
  ASSUME DzipConstants, DzipInv, MainReleases, UNCHANGED should_deflate
  PROVE  DzipInv'
<1>1. /\ main = "release" /\ exit = "running" /\ pc = "idle" /\ outPc = "idle"
      /\ Adaptor!Release(Len(contents)) /\ main' = "pull"
      /\ UNCHANGED <<stdin, stdout, update, exit>>
  BY DEF MainReleases, MainAt
<1>2. InputIsKept /\ PullsAreOrderly /\ MainIsOrderly /\ ExitIsOrderly /\ AheadIs
  BY DEF DzipInv
<1>3. PICK made \in Seq(V), pushed \in Seq(V) :
        /\ Converts(made, Given) /\ MadeIs(made)
        /\ pushed = Pushed(made) /\ OutputIs(pushed)
  BY DEF DzipInv
<1>4. result = "data" /\ ~is_error /\ pushed = made
  BY <1>1, <1>2, <1>3 DEF MainIsOrderly, Pushed
<1>5. /\ contents = buffer /\ buffer = SubSeq(made, consumed + 1, Len(made))
      /\ consumed \in 0..Len(made) /\ released = 0
  BY <1>1, <1>3, <1>4 DEF MadeIs
<1>6. Len(made) \in Nat /\ consumed \in Nat /\ consumed <= Len(made)
  BY <1>5, LenProperties
<1>7. buffer \in Seq(V) /\ Len(buffer) = Len(made) - consumed
  BY <1>5, <1>6, Piece
<1>8. /\ released' = released + Len(contents) /\ consumed' = consumed + Len(contents)
      /\ UNCHANGED <<buffer, is_error, is_complete, pc, max_size, contents, result>>
  BY <1>1 DEF Adaptor!Release
<1>9. released' = Len(buffer) /\ consumed' = Len(made) /\ consumed' \in 0..Len(made)
  BY <1>5, <1>6, <1>7, <1>8
<1>10. InputIsKept' /\ PullsAreOrderly'
  BY <1>1, <1>2, <1>8 DEF InputIsKept, PullsAreOrderly, stdin, Ahead
<1>11. MainIsOrderly'
  BY <1>1, <1>2, <1>4, <1>8 DEF MainIsOrderly, stdin
<1>12. ExitIsOrderly'
  BY <1>1, <1>2 DEF ExitIsOrderly, stdout
<1>13. AheadIs' /\ Converts(made, Given)'
  BY <1>1, <1>2, <1>3, <1>8 DEF AheadIs, Converts, Given, Ahead, stdin
<1>14. OutputIs(pushed)'
  BY <1>1, <1>3 DEF OutputIs, Busy, Waiting, stdout
<1>15. MadeIs(made)'
  BY <1>1, <1>4, <1>7, <1>8, <1>9 DEF MadeIs
<1>16. pushed = Pushed(made)'
  <2>1. SubSeq(made, 1, Len(made)) = made
    BY SubSeqFull
  <2>2. QED  BY <1>1, <1>4, <1>9, <2>1 DEF Pushed
<1>17. QED  BY <1>3, <1>10, <1>11, <1>12, <1>13, <1>14, <1>15, <1>16 DEF DzipInv

LEMMA MainLeavesLoopStep ==
  ASSUME DzipConstants, DzipInv, MainLeavesLoop, UNCHANGED should_deflate
  PROVE  DzipInv'
<1>1. /\ main = "push" /\ exit = "running" /\ pc = "idle" /\ outPc = "idle"
      /\ result # "data" /\ main' = "check"
      /\ UNCHANGED <<stdin, adaptor, stdout, update, exit>>
  BY DEF MainLeavesLoop, MainAt
<1>2. InputIsKept /\ PullsAreOrderly /\ MainIsOrderly /\ ExitIsOrderly /\ AheadIs
  BY DEF DzipInv
<1>3. PICK made \in Seq(V), pushed \in Seq(V) :
        /\ Converts(made, Given) /\ MadeIs(made)
        /\ pushed = Pushed(made) /\ OutputIs(pushed)
  BY DEF DzipInv
<1>4. InputIsKept' /\ PullsAreOrderly' /\ AheadIs'
  BY <1>1, <1>2 DEF InputIsKept, PullsAreOrderly, AheadIs, Ahead, stdin, adaptor
<1>5. MainIsOrderly' /\ ExitIsOrderly'
  BY <1>1, <1>2 DEF MainIsOrderly, ExitIsOrderly, stdin, adaptor, stdout
<1>6. Converts(made, Given)' /\ OutputIs(pushed)'
  BY <1>1, <1>3 DEF Converts, Given, OutputIs, Busy, Waiting, stdin, stdout
<1>7. MadeIs(made)' /\ pushed = Pushed(made)'
  BY <1>1, <1>3 DEF MadeIs, Pushed, adaptor
<1>8. QED  BY <1>3, <1>4, <1>5, <1>6, <1>7 DEF DzipInv

LEMMA MainChecksStep ==
  ASSUME DzipConstants, DzipInv, MainChecks, UNCHANGED should_deflate
  PROVE  DzipInv'
<1>1. /\ main = "check" /\ exit = "running" /\ pc = "idle" /\ outPc = "idle"
      /\ UNCHANGED <<stdin, adaptor, outBuffer, outWritten, outError, outResult, outSink,
                     update>>
  BY DEF MainChecks, MainAt
<1>2. InputIsKept /\ PullsAreOrderly /\ MainIsOrderly /\ ExitIsOrderly /\ AheadIs
  BY DEF DzipInv
<1>3. PICK made \in Seq(V), pushed \in Seq(V) :
        /\ Converts(made, Given) /\ MadeIs(made)
        /\ pushed = Pushed(made) /\ OutputIs(pushed)
  BY DEF DzipInv
<1>4. result \in {"end", "failed"} /\ (~is_error => result = "end")
  BY <1>1, <1>2 DEF MainIsOrderly
<1>5. InputIsKept' /\ PullsAreOrderly' /\ AheadIs' /\ Converts(made, Given)'
  BY <1>1, <1>2, <1>3 DEF InputIsKept, PullsAreOrderly, AheadIs, Converts, Given, Ahead,
                          stdin, adaptor
<1>6. CASE is_error \/ outError
  <2>1. exit' = "failure" /\ UNCHANGED <<main, outPc, outInput>>
    BY <1>6 DEF MainChecks
  <2>2. MainIsOrderly' /\ ExitIsOrderly'
    BY <1>1, <1>2, <1>6, <2>1 DEF MainIsOrderly, ExitIsOrderly, stdin, adaptor
  <2>3. MadeIs(made)' /\ pushed = Pushed(made)' /\ OutputIs(pushed)'
    BY <1>1, <1>3, <2>1 DEF MadeIs, Pushed, OutputIs, Busy, Waiting, adaptor
  <2>4. QED  BY <1>3, <1>5, <2>2, <2>3 DEF DzipInv
<1>7. CASE ~(is_error \/ outError)
  <2>1. Stdout!Free /\ main' = "free" /\ exit' = exit
    BY <1>7 DEF MainChecks
  <2>2. OutputIs(pushed)' /\ outPc' = "closing" /\ ~outError'
    BY <1>1, <1>3, <1>7, <2>1, StdoutFrees
  <2>3. MainIsOrderly' /\ ExitIsOrderly'
    BY <1>1, <1>2, <1>4, <1>7, <2>1, <2>2 DEF MainIsOrderly, ExitIsOrderly, stdin, adaptor
  <2>4. MadeIs(made)' /\ pushed = Pushed(made)'
    BY <1>1, <1>3, <2>1 DEF MadeIs, Pushed, adaptor
  <2>5. QED  BY <1>3, <1>5, <2>2, <2>3, <2>4 DEF DzipInv
<1>8. QED  BY <1>6, <1>7

LEMMA MainReturnsStep ==
  ASSUME DzipConstants, DzipInv, MainReturns, UNCHANGED should_deflate
  PROVE  DzipInv'
<1>1. /\ main = "free" /\ outPc = "freed" /\ exit = "running" /\ exit' = "success"
      /\ UNCHANGED <<stdin, adaptor, stdout, update, main>>
  BY DEF MainReturns
<1>2. InputIsKept /\ PullsAreOrderly /\ MainIsOrderly /\ ExitIsOrderly /\ AheadIs
  BY DEF DzipInv
<1>3. InputIsKept' /\ PullsAreOrderly' /\ AheadIs'
  BY <1>1, <1>2 DEF InputIsKept, PullsAreOrderly, AheadIs, Ahead, stdin, adaptor
<1>4. MainIsOrderly' /\ ExitIsOrderly'
  BY <1>1, <1>2 DEF MainIsOrderly, ExitIsOrderly, stdin, adaptor, stdout
<1>5. \E made \in Seq(V), pushed \in Seq(V) :
           /\ Converts(made, Given)' /\ MadeIs(made)'
           /\ pushed = Pushed(made)' /\ OutputIs(pushed)'
  BY <1>1, Unmoved DEF stdin, adaptor
<1>6. QED  BY <1>3, <1>4, <1>5 DEF DzipInv

-----------------------------------------------------------------------------
(* The theorems.                                                           *)

LEMMA StartsInOrder ==
  ASSUME DzipConstants, Init
  PROVE  DzipInv
<1>1. /\ inBuffer = <<>> /\ inReleased = 0 /\ inError = FALSE /\ inComplete = FALSE
      /\ inPc = "idle" /\ inMax = 0 /\ inConsumed = 0 /\ inAlloc = 0 /\ inTaken = 0
      /\ inErrors = 0
  BY DEF Init, Stdin!Init, Stdin!ChainInit
<1>2. /\ buffer = <<>> /\ released = 0 /\ is_error = FALSE /\ is_complete = FALSE
      /\ pc = "idle" /\ max_size = 0 /\ result = "none" /\ consumed = 0
  BY DEF Init, Adaptor!ChainInit
<1>3. /\ outBuffer = <<>> /\ outWritten = 0 /\ outError = FALSE /\ outPc = "idle"
      /\ outInput = <<>> /\ outSink = <<>>
      /\ update = "none" /\ main = "pull" /\ exit = "running"
  BY DEF Init, Stdout!ChainInit
<1>4. Len(Input) \in Nat /\ AreUnits(Units) /\ AreUnits(V) /\ should_deflate \in BOOLEAN
  BY InputUnits DEF Init
<1>5. /\ SubSeq(Input, 1, inConsumed) = <<>>
      /\ SubSeq(Input, inConsumed - inReleased + 1, inTaken) = <<>>
      /\ SubSeq(outBuffer, outWritten + 1, Len(outBuffer)) = <<>>
  <2>1. SubSeq(Input, 1, 0) = <<>>
    BY SubSeqEmpty
  <2>2. 0 - 0 + 1 = 1
    OBVIOUS
  <2>3. SubSeq(outBuffer, Len(outBuffer) + 1, Len(outBuffer)) = <<>> /\ Len(outBuffer) = 0
    BY <1>3, EmptySeq, NothingBehind
  <2>4. QED  BY <1>1, <1>3, <2>1, <2>2, <2>3
<1>6. <<>> \in Seq(V) /\ Len(<<>>) = 0 /\ <<>> \o <<>> = <<>>
  BY EmptySeq, ConcatEmptySeq
<1>7. AllUsed(<<>>) /\ Plain(<<>>) = <<>>
  BY <1>4, EmptyInflates DEF MeansNothing
<1>8. InputIsKept
  <2>1. inTaken \in 0..Len(Input) /\ inConsumed \in 0..inTaken /\ inReleased \in 0..inConsumed
    BY <1>1, <1>4
  <2>2. inBuffer = SubSeq(Input, inConsumed - inReleased + 1, inTaken)
    BY <1>1, <1>5
  <2>3. QED  BY <1>1, <2>1, <2>2 DEF InputIsKept
<1>9. PullsAreOrderly /\ MainIsOrderly /\ ExitIsOrderly /\ AheadIs
  BY <1>1, <1>2, <1>3, <1>4 DEF PullsAreOrderly, MainIsOrderly, ExitIsOrderly, AheadIs
<1>10. Converts(<<>>, Given)
  BY <1>1, <1>5, <1>7 DEF Converts, Given
<1>11. MadeIs(<<>>) /\ Pushed(<<>>) = <<>>
  <2>1. SubSeq(<<>>, 1, 0) = <<>>
    BY SubSeqEmpty
  <2>2. QED  BY <1>2, <1>3, <1>6, <2>1 DEF MadeIs, Pushed
<1>12. OutputIs(<<>>)
  <2>1. ~Busy /\ Waiting = <<>>
    BY <1>3, <1>5 DEF Busy, Waiting
  <2>2. outWritten \in 0..Len(outBuffer)
    BY <1>3, <1>6
  <2>3. outSink \o Waiting = <<>> /\ \E rest \in Seq(V) : outSink \o rest = <<>>
    BY <1>3, <1>6, <2>1
  <2>4. QED  BY <1>3, <1>6, <2>1, <2>2, <2>3 DEF OutputIs
<1>13. QED  BY <1>6, <1>8, <1>9, <1>10, <1>11, <1>12 DEF DzipInv

LEMMA DzipStep ==
  ASSUME DzipConstants, DzipInv, [Next]_vars
  PROVE  DzipInv'
<1>1. CASE UNCHANGED vars
  <2>1. InputIsKept /\ PullsAreOrderly /\ MainIsOrderly /\ ExitIsOrderly /\ AheadIs
    BY DEF DzipInv
  <2>2. InputIsKept' /\ PullsAreOrderly' /\ AheadIs'
    BY <1>1, <2>1 DEF InputIsKept, PullsAreOrderly, AheadIs, Ahead, vars, stdin, adaptor,
                      program
  <2>3. MainIsOrderly' /\ ExitIsOrderly'
    BY <1>1, <2>1 DEF MainIsOrderly, ExitIsOrderly, vars, stdin, adaptor, stdout, program
  <2>4. \E made \in Seq(V), pushed \in Seq(V) :
             /\ Converts(made, Given)' /\ MadeIs(made)'
             /\ pushed = Pushed(made)' /\ OutputIs(pushed)'
    BY <1>1, Unmoved DEF vars, stdin, adaptor, program
  <2>5. QED  BY <2>2, <2>3, <2>4 DEF DzipInv
<1>2. CASE Next
  BY <1>2, UpdatePullsStep, StdinReadsStep, UpdateInflatesStep, UpdateDeflatesStep,
     UpdateEndsStep, MainPullsStep, MainPushesStep, StdoutWritesStep, MainReleasesStep,
     MainLeavesLoopStep, MainChecksStep, MainReturnsStep DEF Next
<1>3. QED  BY <1>1, <1>2

\* The program's inductive invariant: where its three chains stand, what of its input
\* it has given to the conversion, and that what has been written, with what waits,
\* is what the conversion makes of that.
THEOREM DzipInvariant ==
  ASSUME DzipConstants
  PROVE  Spec => []DzipInv
<1>1. Init => DzipInv
  BY StartsInOrder
<1>2. DzipInv /\ [Next]_vars => DzipInv'
  BY DzipStep
<1>3. QED  BY <1>1, <1>2, PTL DEF Spec

\* What main has pushed is a beginning of what was made.
LEMMA PushedBegins ==
  ASSUME NEW made \in Seq(V), MadeIs(made)
  PROVE  \E rest \in Seq(V) : Pushed(made) \o rest = made
<1>1. CASE main = "release"
  <2>1. made \o <<>> = made /\ <<>> \in Seq(V)
    BY ConcatEmptySeq, EmptySeq
  <2>2. QED  BY <1>1, <2>1 DEF Pushed
<1>2. CASE main # "release"
  <2>1. /\ consumed \in Nat /\ Len(made) \in Nat /\ consumed <= Len(made)
        /\ 0 \in Nat /\ 0 <= consumed /\ Len(made) <= Len(made) /\ 0 + 1 = 1
    <3>1. Len(made) \in Nat /\ consumed \in 0..Len(made)
      BY LenProperties DEF MadeIs
    <3>2. QED  BY <3>1
  <2>2. SubSeq(made, 0 + 1, consumed) \o SubSeq(made, consumed + 1, Len(made))
          = SubSeq(made, 0 + 1, Len(made))
    BY <2>1, Adjacent
  <2>5. SubSeq(made, consumed + 1, Len(made)) \in Seq(V)
    BY <2>1, Piece
  <2>3. SubSeq(made, 0 + 1, Len(made)) = made
    BY WindowOfAll
  <2>4. QED  BY <1>2, <2>1, <2>2, <2>3, <2>5 DEF Pushed
<1>3. QED  BY <1>1, <1>2

\* What may be written is the beginning of what was made.
LEMMA SinkBegins ==
  ASSUME NEW made \in Seq(V), MadeIs(made), OutputIs(Pushed(made)), Pushed(made) \in Seq(V)
  PROVE  outSink \in Seq(V) /\ \E rest \in Seq(V) : outSink \o rest = made
<1>1. PICK a \in Seq(V) : outSink \o a = Pushed(made)
  BY DEF OutputIs
<1>2. PICK b \in Seq(V) : Pushed(made) \o b = made
  BY PushedBegins
<1>3. outSink \in Seq(V) /\ a \o b \in Seq(V)
  BY ConcatProperties DEF OutputIs
<1>4. Regroups(outSink, a, b)
  BY <1>3, Regrouped
<1>5. outSink \o (a \o b) = made
  BY <1>1, <1>2, <1>4 DEF Regroups
<1>6. QED  BY <1>3, <1>5

\* However reads, chunks, pushes and writes cut the stream, and whatever fails, what
\* standard output holds means the beginning of what was read.
THEOREM WrittenMeansInput ==
  ASSUME DzipConstants
  PROVE  Spec => []WrittenIsFaithful
<1>1. DzipInv => WrittenIsFaithful
  <2> SUFFICES ASSUME DzipInv PROVE IsPrefix(Meaning(outSink), Wanted(inTaken))
    BY DEF WrittenIsFaithful
  <2>1. PICK made \in Seq(V), pushed \in Seq(V) :
          /\ Converts(made, Given) /\ MadeIs(made)
          /\ pushed = Pushed(made) /\ OutputIs(pushed)
    BY DEF DzipInv
  <2>2. PICK rest \in Seq(V) : outSink \in Seq(V) /\ outSink \o rest = made
    BY <2>1, SinkBegins
  <2>3. /\ Given \in Seq(Units) /\ Ahead \in Seq(Units)
        /\ Given \in Seq(V) /\ Ahead \in Seq(V)
        /\ SubSeq(Input, 1, inTaken) = Given \o Ahead /\ AreUnits(Units) /\ AreUnits(V)
    BY InputParts, InputUnits DEF DzipInv
  <2>4. CASE should_deflate
    <3>1. AllUsed(made) /\ Plain(made) = Given
      BY <2>1, <2>4 DEF Converts
    <3>2. PICK more \in Seq(V) : Plain(made) = Plain(outSink) \o more
      <4>1. Ok(outSink \o rest)
        BY <2>2, <3>1 DEF AllUsed
      <4>2. \E r \in Seq(V) : Plain(outSink \o rest) = Plain(outSink) \o r
        BY <2>2, <2>3, <4>1, Monotone
      <4>3. QED  BY <2>2, <4>2
    <3>3. Plain(outSink) \in Seq(V)
      BY <2>2, <2>3, PartsTyped
    <3>4. Regroups(Plain(outSink), more, Ahead) /\ more \o Ahead \in Seq(V)
      BY <2>3, <3>3, Regrouped, ConcatProperties
    <3>5. SubSeq(Input, 1, inTaken) = Plain(outSink) \o (more \o Ahead)
      BY <2>3, <3>1, <3>2, <3>4 DEF Regroups
    <3>6. IsPrefix(Plain(outSink), Plain(outSink) \o (more \o Ahead))
      BY <3>3, <3>4, PrefixOf
    <3>7. QED  BY <2>4, <3>5, <3>6 DEF Meaning, Wanted
  <2>5. CASE ~should_deflate
    <3>1. AllUsed(Given) /\ Plain(Given) = made
      BY <2>1, <2>5 DEF Converts
    <3>2. Plain(Given \o Ahead) = Plain(Given) \o Plain(Ahead)
      BY <2>3, <3>1, ComposeParts
    <3>3. Plain(Ahead) \in Seq(V)
      BY <2>3, PartsTyped
    <3>4. Regroups(outSink, rest, Plain(Ahead)) /\ rest \o Plain(Ahead) \in Seq(V)
      BY <2>2, <3>3, Regrouped, ConcatProperties
    <3>5. Plain(SubSeq(Input, 1, inTaken)) = outSink \o (rest \o Plain(Ahead))
      BY <2>2, <2>3, <3>1, <3>2, <3>4 DEF Regroups
    <3>6. IsPrefix(outSink, outSink \o (rest \o Plain(Ahead)))
      BY <2>2, <3>4, PrefixOf
    <3>7. QED  BY <2>5, <3>5, <3>6 DEF Meaning, Wanted
  <2>6. QED  BY <2>4, <2>5
<1>2. QED  BY <1>1, DzipInvariant, PTL

\* A success means that all of the input was converted and written, unless the last
\* flush failed; a failure has a cause, which is never a chunk that a read cut in two.
THEOREM StatusTellsTruth ==
  ASSUME DzipConstants
  PROVE  Spec => []StatusIsTrue
<1>1. DzipInv => SuccessMeansDone
  <2> SUFFICES ASSUME DzipInv, exit = "success"
               PROVE  /\ inTaken \in Ends /\ ~inError
                      /\ should_deflate \/ Ok(SubSeq(Input, 1, inTaken))
                      /\ outError \/ Meaning(outSink) = Wanted(inTaken)
    BY DEF SuccessMeansDone, Ok
  <2>1. InputIsKept /\ PullsAreOrderly /\ MainIsOrderly /\ ExitIsOrderly /\ AheadIs
    BY DEF DzipInv
  <2>2. PICK made \in Seq(V), pushed \in Seq(V) :
          /\ Converts(made, Given) /\ MadeIs(made)
          /\ pushed = Pushed(made) /\ OutputIs(pushed)
    BY DEF DzipInv
  <2>3. main = "free" /\ outPc = "freed"
    BY <2>1 DEF ExitIsOrderly
  <2>4. ~is_error /\ result = "end" /\ is_complete /\ inComplete /\ ~inError
        /\ update = "none"
    BY <2>1, <2>3 DEF MainIsOrderly, PullsAreOrderly
  <2>5. inTaken \in Ends
    BY <2>1, <2>4 DEF InputIsKept
  <2>6. IF should_deflate THEN inConsumed = inTaken ELSE MeansNothing(Ahead)
    BY <2>1, <2>4 DEF AheadIs
  <2>7. /\ Given \in Seq(Units) /\ Ahead \in Seq(Units)
        /\ SubSeq(Input, 1, inTaken) = Given \o Ahead /\ AreUnits(Units)
    BY <2>1, InputParts, InputUnits
  <2>8. pushed = made
    <3>1. consumed = Len(made)
      BY <2>2, <2>4 DEF MadeIs
    <3>2. SubSeq(made, 1, Len(made)) = made
      BY SubSeqFull
    <3>3. QED  BY <2>2, <2>3, <3>1, <3>2 DEF Pushed
  <2>9. outError \/ outSink = made
    <3> SUFFICES ASSUME ~outError PROVE outSink = made
      OBVIOUS
    <3>1. outWritten = Len(outBuffer) /\ outBuffer \in Seq(V) /\ outSink \in Seq(V)
      BY <2>2, <2>3 DEF OutputIs
    <3>2. SubSeq(outBuffer, outWritten + 1, Len(outBuffer)) = <<>>
      BY <3>1, NothingBehind
    <3>3. Waiting = <<>>
      BY <2>3, <3>2 DEF Waiting, Busy
    <3>4. outSink \o <<>> = pushed
      BY <2>2, <3>3 DEF OutputIs
    <3>5. outSink \o <<>> = outSink
      BY <3>1, ConcatEmptySeq
    <3>6. QED  BY <2>8, <3>4, <3>5
  <2>10. CASE should_deflate
    <3>1. Plain(made) = SubSeq(Input, 1, inTaken)
      BY <2>2, <2>6, <2>10 DEF Converts, Given
    <3>2. QED  BY <2>4, <2>5, <2>9, <2>10, <3>1 DEF Meaning, Wanted
  <2>11. CASE ~should_deflate
    <3>1. AllUsed(Given) /\ Plain(Given) = made /\ MeansNothing(Ahead)
      BY <2>2, <2>6, <2>11 DEF Converts
    <3>2. /\ Ok(Given \o Ahead) <=> Ok(Ahead)
          /\ Plain(Given \o Ahead) = Plain(Given) \o Plain(Ahead)
      BY <2>7, <3>1, ComposeParts
    <3>3. Ok(Ahead) /\ Plain(Ahead) = <<>>
      BY <3>1 DEF MeansNothing
    <3>4. made \o <<>> = made
      BY ConcatEmptySeq
    <3>5. Ok(SubSeq(Input, 1, inTaken)) /\ Plain(SubSeq(Input, 1, inTaken)) = made
      BY <2>7, <3>1, <3>2, <3>3, <3>4
    <3>6. QED  BY <2>4, <2>5, <2>9, <2>11, <3>5 DEF Meaning, Wanted
  <2>12. QED  BY <2>10, <2>11
<1>2. DzipInv => FailureHasCause
  <2> SUFFICES ASSUME DzipInv, exit = "failure", ~(inErrors > 0), ~outError
               PROVE  /\ ~should_deflate /\ Ok(Given) /\ Used(Given) = inConsumed
                      /\ ~Ok(Ahead)
    BY DEF FailureHasCause, Ok, Used, Given, Ahead
  <2>1. is_error
    BY DEF DzipInv, ExitIsOrderly
  <2>2. ~should_deflate /\ ~Ok(Ahead)
    BY <2>1 DEF DzipInv, AheadIs
  <2>3. AllUsed(Given)
    BY <2>2 DEF DzipInv, Converts
  <2>4. Len(Given) = inConsumed
    BY InputParts DEF DzipInv
  <2>5. QED  BY <2>2, <2>3, <2>4 DEF AllUsed
<1>3. QED  BY <1>1, <1>2, DzipInvariant, PTL DEF StatusIsTrue
-----------------------------------------------------------------------------
(* A chain that inflates what is pushed to it.                             *)

CU == ClientUnits

ConverterBusy == toPc \in {"pushing", "flushing", "closing"}
FdBusy == fdPc \in {"flushing", "closing"}

\* What waits to be converted, and what waits to be written.
ToGo == IF ConverterBusy THEN toInput ELSE SubSeq(toBuffer, toWritten + 1, Len(toBuffer))
FdWaits == IF FdBusy THEN fdInput ELSE SubSeq(fdBuffer, fdWritten + 1, Len(fdBuffer))

\* The first chain has `back` to convert, the end of its cache while it flushes.
ConverterHas(back) ==
  /\ toBuffer \in Seq(CU) /\ toInput \in Seq(CU) /\ toWritten \in 0..Len(toBuffer)
  /\ toError = FALSE /\ toPc \in {"idle", "pushing", "flushing", "closing", "freed"}
  /\ toPc = "pushing" => toWritten = Len(toBuffer)
  /\ toPc \in {"flushing", "closing"} => \E c \in Seq(CU) : toBuffer = c \o toInput
  /\ ToGo = back

\* The second was given `made`, of which it has written all but what waits.
DescriptorHas(made) ==
  /\ fdBuffer \in Seq(CU) /\ fdInput \in Seq(CU) /\ fdWritten \in 0..Len(fdBuffer)
  /\ fdSink \in Seq(CU) /\ fdError = FALSE /\ fdResult # "false"
  /\ fdPc \in {"idle", "flushing", "closing", "freed"}
  /\ fdPc = "freed" => fdWritten = Len(fdBuffer)
  /\ fdSink \o FdWaits = made

\* What was pushed is what was converted, whole chunks, and what waits for it.
Accounted(front, back) ==
  /\ ToConvert = front \o back /\ AllUsed(front)
  /\ ConverterHas(back) /\ DescriptorHas(Plain(front))

\* The update function stops when nothing comes of what waits, and a chain is freed when
\* it has stopped.
OutputIsOrderly ==
  /\ toUpdate # "none" => ConverterBusy
  /\ toUpdate = "stuck" \/ toPc = "freed" => Plain(ToGo) = <<>>
  /\ fdPc \in {"closing", "freed"} => toPc = "freed"

Faithful == \E rest \in Seq(CU) : fdSink \o rest = Plain(ToConvert)

OutputInv ==
  /\ toPushed \in 0..Len(ClientInput) /\ fdSink \in Seq(CU) /\ fdError \in BOOLEAN
  /\ toUpdate \in {"none", "advanced", "stuck"}
  /\ Faithful
  /\ fdError => fdPc \in {"idle", "freed"}
  /\ ~fdError => OutputIsOrderly /\ \E front, back \in Seq(CU) : Accounted(front, back)

\* A stream that is pushed to a chain that inflates.
InflatesStream == Deflating = FALSE /\ Ok(ClientInput)

\* What was pushed goes well, and more of it means more.
LEMMA PushedGoesWell ==
  ASSUME InflatesStream
  PROVE  \A n \in 0..Len(ClientInput) :
           /\ SubSeq(ClientInput, 1, n) \in Seq(CU) /\ Ok(SubSeq(ClientInput, 1, n))
           /\ \A m \in 0..n :
                /\ SubSeq(ClientInput, m + 1, n) \in Seq(CU)
                /\ SubSeq(ClientInput, 1, n)
                     = SubSeq(ClientInput, 1, m) \o SubSeq(ClientInput, m + 1, n)
                /\ \E r \in Seq(CU) : Plain(SubSeq(ClientInput, 1, n))
                                        = Plain(SubSeq(ClientInput, 1, m)) \o r
<1>1. ClientInput \in Seq(CU) /\ AreUnits(CU) /\ Len(ClientInput) \in Nat
  BY OutputAssumption, LenProperties DEF CU
<1>2. 0 + 1 = 1
  OBVIOUS
<1>3. ASSUME NEW n \in 0..Len(ClientInput), NEW m \in 0..n
      PROVE  /\ SubSeq(ClientInput, 1, m) \in Seq(CU) /\ SubSeq(ClientInput, m + 1, n) \in Seq(CU)
             /\ SubSeq(ClientInput, 1, m) \o SubSeq(ClientInput, m + 1, n)
                  = SubSeq(ClientInput, 1, n)
  <2>1. m \in Nat /\ n \in Nat /\ m <= n /\ n <= Len(ClientInput) /\ 0 <= m /\ 0 \in Nat
    BY <1>1
  <2>2. /\ SubSeq(ClientInput, 0 + 1, m) \in Seq(CU) /\ SubSeq(ClientInput, m + 1, n) \in Seq(CU)
        /\ SubSeq(ClientInput, 0 + 1, m) \o SubSeq(ClientInput, m + 1, n)
             = SubSeq(ClientInput, 0 + 1, n)
    BY <1>1, <2>1, Piece, Adjacent
  <2>3. QED  BY <1>2, <2>2
<1>4. ASSUME NEW n \in 0..Len(ClientInput)
      PROVE  SubSeq(ClientInput, 1, n) \in Seq(CU) /\ Ok(SubSeq(ClientInput, 1, n))
  <2> DEFINE a == SubSeq(ClientInput, 1, n)
             b == SubSeq(ClientInput, n + 1, Len(ClientInput))
  <2>1. Len(ClientInput) \in 0..Len(ClientInput) /\ n \in 0..Len(ClientInput)
    BY <1>1
  <2>2. a \in Seq(CU) /\ b \in Seq(CU) /\ a \o b = SubSeq(ClientInput, 1, Len(ClientInput))
    BY <1>3, <2>1
  <2>3. SubSeq(ClientInput, 1, Len(ClientInput)) = ClientInput
    BY <1>1, SubSeqFull
  <2> HIDE DEF a, b
  <2>4. Ok(a \o b)
    BY <2>2, <2>3 DEF InflatesStream
  <2>5. \A p, q \in Seq(CU) : Ok(p \o q) => Ok(p)
    BY <1>1, Monotone
  <2>6. QED  BY <2>2, <2>4, <2>5 DEF a
<1>5. ASSUME NEW n \in 0..Len(ClientInput), NEW m \in 0..n
      PROVE  \E r \in Seq(CU) : Plain(SubSeq(ClientInput, 1, n))
                                  = Plain(SubSeq(ClientInput, 1, m)) \o r
  <2> DEFINE a == SubSeq(ClientInput, 1, m)
             b == SubSeq(ClientInput, m + 1, n)
             c == SubSeq(ClientInput, 1, n)
  <2>1. a \in Seq(CU) /\ b \in Seq(CU) /\ a \o b = c /\ Ok(c)
    BY <1>3, <1>4
  <2> HIDE DEF a, b, c
  <2>2. \E r \in Seq(CU) : Plain(c) = Plain(a) \o r
    BY <1>1, <2>1, Monotone
  <2>3. QED  BY <2>2 DEF a, c
<1>6. QED  BY <1>3, <1>4, <1>5

\* Shortening the cache of the first chain moves nothing that waits.
LEMMA ConverterKept ==
  ASSUME toBuffer \in Seq(CU), toWritten \in 0..Len(toBuffer)
  PROVE  /\ Converter!Kept \in Seq(CU) /\ Converter!KeptWritten \in 0..Len(Converter!Kept)
         /\ SubSeq(Converter!Kept, Converter!KeptWritten + 1, Len(Converter!Kept))
              = SubSeq(toBuffer, toWritten + 1, Len(toBuffer))
<1> DEFINE u == SubSeq(toBuffer, toWritten + 1, Len(toBuffer))
<1>1. Len(toBuffer) \in Nat /\ toWritten \in Nat
  BY LenProperties
<1>2. u \in Seq(CU)
  BY <1>1, Piece
<1> HIDE DEF u
<1>3. CASE Converter!WorthShifting
  <2>1. Converter!Kept = u /\ Converter!KeptWritten = 0
    BY <1>3 DEF Converter!Kept, Converter!KeptWritten, Converter!Unwritten, u
  <2>2. SubSeq(u, 0 + 1, Len(u)) = u /\ Len(u) \in Nat
    BY <1>2, WindowOfAll, LenProperties
  <2>3. 0 \in 0..Len(u)
    BY <2>2
  <2>4. QED  BY <1>2, <2>1, <2>2, <2>3 DEF u
<1>4. CASE ~Converter!WorthShifting
  <2>1. Converter!Kept = toBuffer /\ Converter!KeptWritten = toWritten
    BY <1>4 DEF Converter!Kept, Converter!KeptWritten
  <2>2. QED  BY <2>1
<1>5. QED  BY <1>3, <1>4

\* A cache is what was taken of it, and what waits.
LEMMA CacheParts ==
  ASSUME NEW b \in Seq(CU), NEW w \in 0..Len(b)
  PROVE  /\ SubSeq(b, w + 1, Len(b)) \in Seq(CU)
         /\ \E c \in Seq(CU) : b = c \o SubSeq(b, w + 1, Len(b))
<1>1. Len(b) \in Nat /\ w \in Nat /\ w <= Len(b) /\ 0 \in Nat /\ 0 <= w
  BY LenProperties
<1> DEFINE c == SubSeq(b, 0 + 1, w)
           d == SubSeq(b, w + 1, Len(b))
<1>2. c \in Seq(CU) /\ d \in Seq(CU) /\ c \o d = SubSeq(b, 0 + 1, Len(b))
  <2>1. Len(b) <= Len(b)
    BY <1>1
  <2>2. c \in Seq(CU)
    BY <1>1, Piece
  <2>3. d \in Seq(CU)
    BY <1>1, <2>1, Piece
  <2>4. c \o d = SubSeq(b, 0 + 1, Len(b))
    BY <1>1, <2>1, Adjacent
  <2>5. QED  BY <2>2, <2>3, <2>4
<1>3. SubSeq(b, 0 + 1, Len(b)) = b
  BY WindowOfAll
<1> HIDE DEF c, d
<1>4. b = c \o d
  BY <1>2, <1>3
<1>5. QED  BY <1>2, <1>4 DEF d

\* The first chain starts to hand over what waits in its cache.
LEMMA ConverterHands ==
  ASSUME NEW back \in Seq(CU), NEW b \in Seq(CU), NEW w \in 0..Len(b),
         SubSeq(b, w + 1, Len(b)) = back, toError = FALSE,
         toBuffer' = b, toWritten' = w, UNCHANGED toError,
         toPc' \in {"flushing", "closing"}, toInput' = SubSeq(b, w + 1, Len(b))
  PROVE  ConverterHas(back)'
<1>1. back \in Seq(CU) /\ \E c \in Seq(CU) : b = c \o back
  BY CacheParts
<1>2. toInput' = back
  OBVIOUS
<1>3. ToGo' = back
  BY <1>2 DEF ToGo, ConverterBusy
<1>4. QED  BY <1>1, <1>2, <1>3 DEF ConverterHas

\* chain_push_final, when what waits is as it should be.
LEMMA ConverterSettles ==
  ASSUME NEW back \in Seq(CU), NEW b \in Seq(CU), NEW w \in 0..Len(b),
         SubSeq(b, w + 1, Len(b)) = back, toError = FALSE, toPc = "idle", toInput \in Seq(CU),
         toBuffer' = b, toWritten' = w, UNCHANGED toError,
         Converter!Settle(b, w)
  PROVE  ConverterHas(back)' /\ toPc' \in {"idle", "flushing"}
<1>1. CASE toPc' = "idle" /\ toInput' = toInput
  <2>1. ToGo' = back
    BY <1>1 DEF ToGo, ConverterBusy
  <2>2. QED  BY <1>1, <2>1 DEF ConverterHas
<1>2. CASE toPc' = "flushing" /\ toInput' = SubSeq(b, w + 1, Len(b))
  BY <1>2, ConverterHands
<1>3. QED
  BY <1>1, <1>2 DEF Converter!Settle, Converter!Hand, Converter!Unwritten

\* chain_push adds what is pushed to what waits.
LEMMA ConverterPushes ==
  ASSUME NEW back \in Seq(CU), NEW bytes \in Seq(CU), ConverterHas(back), toPc = "idle",
         Converter!Push(bytes)
  PROVE  ConverterHas(back \o bytes)' /\ toPc' \in {"idle", "pushing", "flushing"}
<1> DEFINE q == back \o bytes
           k == Converter!Kept
           w == Converter!KeptWritten
<1>1. /\ toBuffer \in Seq(CU) /\ toInput \in Seq(CU) /\ toWritten \in 0..Len(toBuffer)
      /\ toError = FALSE /\ ToGo = back
  BY DEF ConverterHas
<1>2. toError' = toError
  BY DEF Converter!Push, Converter!PushNothing, Converter!PushDirect, Converter!PushCached
<1>3. /\ k \in Seq(CU) /\ w \in 0..Len(k) /\ Len(k) \in Nat
      /\ SubSeq(k, w + 1, Len(k)) = back
  BY <1>1, ConverterKept, LenProperties DEF ToGo, ConverterBusy
<1>4. q \in Seq(CU)
  BY ConcatProperties
<1> HIDE DEF q, k, w
<1>5. CASE bytes = <<>> /\ Converter!PushNothing
  <2>1. q = back
    BY <1>5, ConcatEmptySeq DEF q
  <2>2. UNCHANGED <<toBuffer, toWritten, toPc, toInput>>
    BY <1>5 DEF Converter!PushNothing
  <2>3. ConverterHas(back)'
    BY <1>2, <2>2 DEF ConverterHas, ToGo, ConverterBusy
  <2>4. QED  BY <2>1, <2>2, <2>3 DEF q
<1>6. CASE Converter!PushDirect(bytes)
  <2>1. /\ toBuffer' = k /\ toWritten' = w /\ Len(k) = w /\ Converter!Hand(bytes, "pushing")
    BY <1>6 DEF Converter!PushDirect, Converter!SkipsCache, k, w
  <2>2. SubSeq(k, w + 1, Len(k)) = <<>>
    BY <1>3, <2>1, NothingBehind
  <2>3. q = bytes
    BY <1>3, <2>2, ConcatEmptySeq DEF q
  <2>4. toPc' = "pushing" /\ toInput' = bytes
    BY <1>1, <2>1 DEF Converter!Hand
  <2>5. ToGo' = q
    BY <2>3, <2>4 DEF ToGo, ConverterBusy
  <2>6. ConverterHas(q)'
    BY <1>1, <1>2, <1>3, <2>1, <2>4, <2>5 DEF ConverterHas
  <2>7. QED  BY <2>4, <2>6 DEF q
<1>7. CASE Converter!PushCached(bytes)
  <2> DEFINE b == k \o bytes
  <2>1. toBuffer' = b /\ toWritten' = w /\ Converter!Settle(b, w)
    BY <1>7 DEF Converter!PushCached, k, w
  <2>2. w \in Nat /\ w <= Len(k)
    BY <1>3
  <2>3. b \in Seq(CU) /\ SubSeq(b, w + 1, Len(b)) = q
    BY <1>3, <2>2, ConcatProperties, TailOfConcat DEF q
  <2>4. w \in 0..Len(b)
    <3>1. Len(b) = Len(k) + Len(bytes) /\ Len(bytes) \in Nat
      BY <1>3, ConcatProperties, LenProperties
    <3>2. QED  BY <1>3, <2>2, <3>1
  <2> HIDE DEF b
  <2>5. ConverterHas(q)' /\ toPc' \in {"idle", "flushing"}
    BY <1>1, <1>2, <1>4, <2>1, <2>3, <2>4, ConverterSettles
  <2>6. QED  BY <2>5 DEF q
<1>8. QED  BY <1>5, <1>6, <1>7 DEF Converter!Push

\* A flush, or the end of the chain, hands over what waits.
LEMMA ConverterFlushes ==
  ASSUME NEW back \in Seq(CU), ConverterHas(back), Converter!Flush \/ Converter!Free
  PROVE  ConverterHas(back)' /\ toPc = "idle" /\ toPc' \in {"flushing", "closing"}
<1>1. /\ toBuffer \in Seq(CU) /\ toWritten \in 0..Len(toBuffer) /\ toError = FALSE
      /\ toPc = "idle" /\ SubSeq(toBuffer, toWritten + 1, Len(toBuffer)) = back
  BY DEF ConverterHas, ToGo, ConverterBusy, Converter!Flush, Converter!Free
<1>2. /\ UNCHANGED <<toBuffer, toWritten, toError>> /\ toPc' \in {"flushing", "closing"}
      /\ toInput' = SubSeq(toBuffer, toWritten + 1, Len(toBuffer))
  BY <1>1 DEF Converter!Flush, Converter!Free, Converter!Hand, Converter!Unwritten
<1>3. QED  BY <1>1, <1>2, ConverterHands

\* What the update function makes is added to what waits to be written.
LEMMA DescriptorPushes ==
  ASSUME NEW made \in Seq(CU), NEW bytes \in Seq(CU), DescriptorHas(made), fdPc = "idle",
         Descriptor!PushInPlace(bytes), UNCHANGED fdSink
  PROVE  DescriptorHas(made \o bytes)' /\ fdPc' \in {"idle", "flushing"}
<1> DEFINE b == fdBuffer \o bytes
           u == SubSeq(fdBuffer, fdWritten + 1, Len(fdBuffer))
           q == made \o bytes
<1>1. /\ fdBuffer \in Seq(CU) /\ fdInput \in Seq(CU) /\ fdWritten \in 0..Len(fdBuffer)
      /\ fdSink \in Seq(CU) /\ fdError = FALSE /\ fdResult # "false" /\ fdSink \o u = made
  BY DEF DescriptorHas, FdWaits, FdBusy
<1>2. Len(fdBuffer) \in Nat /\ fdWritten \in Nat /\ fdWritten <= Len(fdBuffer)
  BY <1>1, LenProperties
<1>3. /\ fdBuffer' = b /\ UNCHANGED <<fdWritten, fdError>>
      /\ Descriptor!Settle(b, fdWritten)
  BY DEF Descriptor!PushInPlace
<1>4. u \in Seq(CU)
  BY <1>1, <1>2, Piece
<1>5. b \in Seq(CU) /\ Len(b) = Len(fdBuffer) + Len(bytes) /\ Len(bytes) \in Nat
  BY <1>1, ConcatProperties, LenProperties
<1>6. SubSeq(b, fdWritten + 1, Len(b)) = u \o bytes
  BY <1>1, <1>2, TailOfConcat
<1>7. fdWritten \in 0..Len(b)
  BY <1>2, <1>5
<1>8. u \o bytes \in Seq(CU)
  BY <1>4, ConcatProperties
<1>9. fdSink \o (u \o bytes) = q
  <2> HIDE DEF u
  <2>1. Regroups(fdSink, u, bytes)
    BY <1>1, <1>4, Regrouped
  <2>2. QED  BY <1>1, <2>1 DEF Regroups
<1> HIDE DEF b, u, q
<1>10. CASE fdPc' = "idle" /\ fdInput' = fdInput /\ fdResult' = "true"
  <2>1. FdWaits' = u \o bytes
    BY <1>3, <1>6, <1>10 DEF FdWaits, FdBusy
  <2>2. DescriptorHas(q)'
    BY <1>1, <1>3, <1>5, <1>7, <1>9, <1>10, <2>1 DEF DescriptorHas
  <2>3. QED  BY <1>10, <2>2 DEF q
<1>11. CASE fdPc' = "flushing" /\ fdInput' = u \o bytes /\ fdResult' = fdResult
  <2>1. FdWaits' = u \o bytes
    BY <1>11 DEF FdWaits, FdBusy
  <2>2. DescriptorHas(q)'
    BY <1>1, <1>3, <1>5, <1>7, <1>8, <1>9, <1>11, <2>1 DEF DescriptorHas
  <2>3. QED  BY <1>11, <2>2 DEF q
<1>12. QED
  BY <1>1, <1>3, <1>6, <1>10, <1>11 DEF Descriptor!Settle, Descriptor!Hand, Descriptor!Unwritten

\* Freeing the second chain hands over what waits.
LEMMA DescriptorFrees ==
  ASSUME NEW made \in Seq(CU), DescriptorHas(made), Descriptor!Free, UNCHANGED fdSink
  PROVE  DescriptorHas(made)' /\ fdPc = "idle" /\ fdPc' = "closing"
<1>1. /\ fdBuffer \in Seq(CU) /\ fdInput \in Seq(CU) /\ fdWritten \in 0..Len(fdBuffer)
      /\ fdError = FALSE /\ fdPc = "idle"
      /\ fdSink \o SubSeq(fdBuffer, fdWritten + 1, Len(fdBuffer)) = made
  BY DEF DescriptorHas, FdWaits, FdBusy, Descriptor!Free
<1>2. /\ fdPc' = "closing" /\ fdInput' = SubSeq(fdBuffer, fdWritten + 1, Len(fdBuffer))
      /\ UNCHANGED <<fdBuffer, fdWritten, fdError, fdResult>>
  BY <1>1 DEF Descriptor!Free, Descriptor!Unwritten
<1>3. SubSeq(fdBuffer, fdWritten + 1, Len(fdBuffer)) \in Seq(CU)
  BY <1>1, CacheParts
<1>4. QED  BY <1>1, <1>2, <1>3 DEF DescriptorHas, FdWaits, FdBusy

\* A write moves what it takes from what waits to what is written.
LEMMA DescriptorWrites ==
  ASSUME NEW made \in Seq(CU), DescriptorHas(made), Descriptor!Writes
  PROVE  /\ FdBusy /\ fdPc' \in {fdPc, IF fdPc = "closing" THEN "freed" ELSE "idle"}
         /\ \/ DescriptorHas(made)'
            \/ fdError' = TRUE /\ UNCHANGED fdSink /\ fdPc' \in {"idle", "freed"}
<1>1. /\ FdBusy /\ fdError = FALSE /\ fdPc \in {"flushing", "closing"}
  BY DEF Descriptor!Writes, Descriptor!FdUpdate, Descriptor!FdComplete, Descriptor!FdFails,
         Descriptor!Update, Descriptor!Busy, FdBusy, DescriptorHas
<1>2. /\ fdSink \in Seq(CU) /\ fdBuffer \in Seq(CU) /\ fdInput \in Seq(CU)
      /\ fdWritten \in 0..Len(fdBuffer) /\ Len(fdBuffer) \in Nat /\ Len(fdInput) \in Nat
      /\ fdSink \o fdInput = made /\ fdResult # "false"
  BY <1>1, LenProperties DEF DescriptorHas, FdWaits
<1>3. CASE Descriptor!FdUpdate
  <2>1. PICK n \in 1..Len(fdInput) :
          /\ fdSink' = fdSink \o SubSeq(fdInput, 1, n)
          /\ Descriptor!Update(SubSeq(fdInput, n + 1, Len(fdInput)), "incomplete")
    BY <1>3 DEF Descriptor!FdUpdate
  <2> DEFINE a == SubSeq(fdInput, 0 + 1, n)
             c == SubSeq(fdInput, n + 1, Len(fdInput))
  <2>2. n \in Nat /\ n <= Len(fdInput)
    BY <1>2
  <2>3. a \in Seq(CU) /\ c \in Seq(CU) /\ a \o c = SubSeq(fdInput, 0 + 1, Len(fdInput))
    BY <1>2, <2>2, Piece, Adjacent, SMTT(30)
  <2>4. a \o c = fdInput
    BY <1>2, <2>3, WindowOfAll
  <2>5. fdSink' = fdSink \o a
    BY <2>1
  <2>6. /\ fdInput' = c /\ fdError' = fdError
        /\ UNCHANGED <<fdBuffer, fdWritten, fdPc, fdResult>>
    BY <1>1, <2>1 DEF Descriptor!Update
  <2> HIDE DEF a, c
  <2>7. Regroups(fdSink, a, c) /\ fdSink \o a \in Seq(CU)
    BY <1>2, <2>3, Regrouped, ConcatProperties
  <2>8. fdSink' \o c = made /\ fdSink' \in Seq(CU)
    BY <1>2, <2>4, <2>5, <2>7 DEF Regroups
  <2>9. DescriptorHas(made)'
    BY <1>1, <1>2, <2>3, <2>6, <2>8 DEF DescriptorHas, FdWaits, FdBusy
  <2>10. QED  BY <1>1, <2>6, <2>9
<1>4. CASE Descriptor!FdComplete
  <2>1. /\ fdInput = <<>> /\ fdSink' = fdSink /\ fdError' = fdError /\ fdResult' = "true"
        /\ fdInput' = <<>> /\ fdPc' = IF fdPc = "closing" THEN "freed" ELSE "idle"
        /\ fdWritten' = Len(fdBuffer) - Len(<<>>) /\ fdBuffer' = fdBuffer
    BY <1>1, <1>4 DEF Descriptor!FdComplete, Descriptor!Update, Descriptor!Handed,
                      Descriptor!Resting
  <2>2. Len(<<>>) = 0 /\ <<>> \in Seq(CU)
    BY EmptySeq
  <2>3. fdWritten' = Len(fdBuffer)
    BY <1>2, <2>1, <2>2
  <2>4. SubSeq(fdBuffer, Len(fdBuffer) + 1, Len(fdBuffer)) = <<>>
    BY <1>2, NothingBehind
  <2>5. Len(fdBuffer) \in 0..Len(fdBuffer)
    BY <1>2
  <2>6. FdWaits' = <<>>
    BY <2>1, <2>3, <2>4 DEF FdWaits, FdBusy
  <2>7. DescriptorHas(made)'
    BY <1>1, <1>2, <2>1, <2>2, <2>3, <2>5, <2>6 DEF DescriptorHas
  <2>8. QED  BY <1>1, <2>1, <2>7
<1>5. CASE Descriptor!FdFails
  <2>1. /\ fdSink' = fdSink /\ fdError' = TRUE
        /\ fdPc' = IF fdPc = "closing" THEN "freed" ELSE "idle"
    BY <1>1, <1>5 DEF Descriptor!FdFails, Descriptor!Update, Descriptor!Resting
  <2>2. QED  BY <1>1, <2>1
<1>6. QED  BY <1>3, <1>4, <1>5 DEF Descriptor!Writes

\* A chain that has failed writes no more.
LEMMA FailedWritesNothing ==
  ASSUME OutputInv, fdError, OutputNext
  PROVE  fdError' = TRUE /\ UNCHANGED fdSink /\ fdPc' \in {"idle", "freed"}
<1>1. fdError = TRUE /\ fdPc \in {"idle", "freed"}
  BY DEF OutputInv
<1>2. CASE ClientPushes \/ ClientFlushes \/ ClientFrees \/ UpdateReturns
  BY <1>1, <1>2 DEF ClientPushes, ClientFlushes, ClientFrees, UpdateReturns, descriptor
<1>3. CASE ClientFreesOutput
  BY <1>1, <1>3 DEF ClientFreesOutput, Descriptor!Free
<1>4. CASE UpdatePushes
  BY <1>1, <1>4 DEF UpdatePushes, Descriptor!PushInPlace, Descriptor!Settle, Descriptor!Hand
<1>5. CASE OutputWrites
  BY <1>1, <1>5 DEF OutputWrites, Descriptor!Writes, Descriptor!FdUpdate,
                    Descriptor!FdComplete, Descriptor!FdFails, Descriptor!Update,
                    Descriptor!Busy
<1>6. QED  BY <1>2, <1>3, <1>4, <1>5 DEF OutputNext

\* What the update function does to what waits: whole chunks go, and nothing comes of
\* what is left.
LEMMA ConvertedIs ==
  ASSUME NEW back \in Seq(CU), Ok(back), Deflating = FALSE, toInput = back
  PROVE  \E a, b \in Seq(CU) :
           /\ back = a \o b /\ AllUsed(a) /\ Plain(b) = <<>>
           /\ Converted = Plain(a) /\ Rest = b
<1>1. AreUnits(CU)
  BY OutputAssumption DEF CU
<1>2. PICK a \in Seq(CU), b \in Seq(CU) :
        /\ back = a \o b /\ AllUsed(a) /\ Len(a) = Used(back)
        /\ Plain(a) = Plain(back) /\ MeansNothing(b)
  BY <1>1, Split
<1>3. Converted = Plain(a)
  BY <1>2 DEF Converted, Plain
<1>4. Len(a) \in Nat /\ Len(a) <= Len(a)
  BY LenProperties
<1>5. SubSeq(a \o b, Len(a) + 1, Len(a \o b)) = SubSeq(a, Len(a) + 1, Len(a)) \o b
  BY <1>4, TailOfConcat
<1>6. SubSeq(a, Len(a) + 1, Len(a)) = <<>> /\ <<>> \o b = b
  BY NothingBehind, ConcatEmptySeq
<1>7. Rest = SubSeq(back, Used(back) + 1, Len(back))
  BY DEF Rest, Used
<1>8. Rest = b
  BY <1>2, <1>5, <1>6, <1>7
<1>9. QED  BY <1>2, <1>3, <1>8 DEF MeansNothing

\* While it works, the first chain moves on in its range.
LEMMA ConverterMoves ==
  ASSUME NEW a \in Seq(CU), NEW b \in Seq(CU), ConverterHas(a \o b), ConverterBusy,
         UNCHANGED <<toBuffer, toWritten, toError, toPc, toResult>>, toInput' = b
  PROVE  ConverterHas(b)'
<1>1. ToGo' = b
  BY DEF ToGo, ConverterBusy
<1>2. ASSUME toPc \in {"flushing", "closing"}
      PROVE  \E c \in Seq(CU) : toBuffer = c \o b
  <2>1. toInput = a \o b
    BY DEF ConverterHas, ToGo
  <2>2. PICK c \in Seq(CU) : toBuffer = c \o (a \o b)
    BY <1>2, <2>1 DEF ConverterHas
  <2>3. Regroups(c, a, b) /\ c \o a \in Seq(CU)
    BY Regrouped, ConcatProperties
  <2>4. QED  BY <2>2, <2>3 DEF Regroups
<1>3. QED  BY <1>1, <1>2 DEF ConverterHas

\* When the update function is done, what it left is what waits.
LEMMA ConverterRests ==
  ASSUME NEW back \in Seq(CU), ConverterHas(back), ConverterBusy,
         Converter!Update(toInput, "complete")
  PROVE  ConverterHas(back)' /\ toPc' = IF toPc = "closing" THEN "freed" ELSE "idle"
<1>1. /\ toBuffer \in Seq(CU) /\ toInput \in Seq(CU) /\ toWritten \in 0..Len(toBuffer)
      /\ toError = FALSE /\ toInput = back /\ Len(toBuffer) \in Nat /\ Len(toInput) \in Nat
      /\ toPc \in {"pushing", "flushing", "closing"}
  BY LenProperties DEF ConverterHas, ToGo, ConverterBusy
<1>2. /\ toError' = FALSE /\ toInput' = <<>>
      /\ toPc' = IF toPc = "closing" THEN "freed" ELSE "idle"
      /\ Converter!Handed(toInput)
  BY <1>1 DEF Converter!Update, Converter!Resting
<1>3. <<>> \in Seq(CU)
  BY EmptySeq
<1>4. CASE toPc = "pushing"
  <2>1. toBuffer' = toBuffer \o back /\ toWritten' = Len(toBuffer)
    BY <1>1, <1>2, <1>4 DEF Converter!Handed, ConverterHas
  <2>2. toBuffer \o back \in Seq(CU) /\ Len(toBuffer \o back) = Len(toBuffer) + Len(toInput)
    BY <1>1, ConcatProperties
  <2>3. SubSeq(toBuffer \o back, Len(toBuffer) + 1, Len(toBuffer \o back))
          = SubSeq(toBuffer, Len(toBuffer) + 1, Len(toBuffer)) \o back
    <3>1. Len(toBuffer) <= Len(toBuffer)
      BY <1>1
    <3>2. QED  BY <1>1, <3>1, TailOfConcat
  <2>4. SubSeq(toBuffer, Len(toBuffer) + 1, Len(toBuffer)) = <<>> /\ <<>> \o back = back
    BY <1>1, NothingBehind, ConcatEmptySeq
  <2>5. ToGo' = back
    BY <1>2, <1>4, <2>1, <2>3, <2>4 DEF ToGo, ConverterBusy
  <2>6. Len(toBuffer) \in 0..Len(toBuffer \o back)
    BY <1>1, <2>2
  <2>7. QED  BY <1>1, <1>2, <1>3, <1>4, <2>1, <2>2, <2>5, <2>6 DEF ConverterHas
<1>5. CASE toPc # "pushing"
  <2>1. toBuffer' = toBuffer /\ toWritten' = Len(toBuffer) - Len(back)
    BY <1>1, <1>2, <1>5 DEF Converter!Handed
  <2>2. PICK c \in Seq(CU) : toBuffer = c \o back
    BY <1>1, <1>5 DEF ConverterHas
  <2>3. Len(c) \in Nat /\ Len(back) \in Nat /\ Len(toBuffer) = Len(c) + Len(back)
    BY <2>2, LenProperties, ConcatProperties
  <2>4. toWritten' = Len(c) /\ Len(c) \in 0..Len(toBuffer) /\ Len(c) <= Len(c)
    BY <2>1, <2>3
  <2>5. SubSeq(c \o back, Len(c) + 1, Len(c \o back)) = SubSeq(c, Len(c) + 1, Len(c)) \o back
    BY <2>3, <2>4, TailOfConcat
  <2>6. SubSeq(c, Len(c) + 1, Len(c)) = <<>> /\ <<>> \o back = back
    BY NothingBehind, ConcatEmptySeq
  <2>7. ToGo' = back
    BY <1>2, <2>1, <2>2, <2>4, <2>5, <2>6 DEF ToGo, ConverterBusy
  <2>8. QED  BY <1>1, <1>2, <1>3, <2>1, <2>4, <2>7 DEF ConverterHas
<1>6. QED  BY <1>2, <1>4, <1>5

\* What is accounted for is faithful: what waits, and what comes of the rest, is still to
\* be written.
LEMMA AccountedSuffices ==
  ASSUME InflatesStream, NEW front \in Seq(CU), NEW back \in Seq(CU),
         Accounted(front, back)', OutputIsOrderly',
         toPushed' \in 0..Len(ClientInput), toUpdate' \in {"none", "advanced", "stuck"}
  PROVE  OutputInv'
<1>1. /\ fdSink' \in Seq(CU) /\ fdError' = FALSE /\ AllUsed(front)
      /\ fdSink' \o FdWaits' = Plain(front) /\ ToConvert' = front \o back
  BY DEF Accounted, DescriptorHas
<1>2. FdWaits' \in Seq(CU)
  <2>1. /\ fdBuffer' \in Seq(CU) /\ fdInput' \in Seq(CU) /\ fdWritten' \in 0..Len(fdBuffer')
    BY DEF Accounted, DescriptorHas
  <2>2. SubSeq(fdBuffer', fdWritten' + 1, Len(fdBuffer')) \in Seq(CU)
    BY <2>1, CacheParts
  <2>3. QED  BY <2>1, <2>2 DEF FdWaits
<1>3. AreUnits(CU)
  BY OutputAssumption DEF CU
<1>4. Plain(front \o back) = Plain(front) \o Plain(back) /\ Plain(back) \in Seq(CU)
  <2>1. Plain(front \o back) = Plain(front) \o Plain(back)
    BY <1>1, <1>3, ComposeParts
  <2>2. Plain(back) \in Seq(CU)
    BY <1>3, PartsTyped
  <2>3. QED  BY <2>1, <2>2
<1>5. \E rest \in Seq(CU) : fdSink' \o rest = Plain(front \o back)
  <2>1. PICK s \in Seq(CU), w \in Seq(CU), r \in Seq(CU) :
          s = fdSink' /\ w = FdWaits' /\ r = Plain(back)
    BY <1>1, <1>2, <1>4
  <2>2. Regroups(s, w, r) /\ w \o r \in Seq(CU)
    BY Regrouped, ConcatProperties
  <2>3. s \o (w \o r) = Plain(front \o back)
    BY <1>1, <1>4, <2>1, <2>2 DEF Regroups
  <2>4. QED  BY <2>1, <2>2, <2>3
<1>6. Faithful'
  BY <1>1, <1>5 DEF Faithful
<1>7. QED  BY <1>1, <1>6 DEF OutputInv

\* More that is pushed means more.
LEMMA StaysFaithful ==
  ASSUME InflatesStream, OutputInv, UNCHANGED fdSink, toPushed' \in toPushed..Len(ClientInput)
  PROVE  Faithful'
<1>1. toPushed \in 0..Len(ClientInput) /\ fdSink \in Seq(CU) /\ Len(ClientInput) \in Nat
  BY OutputAssumption, LenProperties DEF OutputInv
<1>2. toPushed' \in 0..Len(ClientInput) /\ toPushed \in 0..toPushed'
  BY <1>1
<1>3. PICK r \in Seq(CU) : Plain(ToConvert') = Plain(ToConvert) \o r
  BY <1>2, PushedGoesWell DEF ToConvert
<1>4. PICK rest \in Seq(CU) : fdSink \o rest = Plain(ToConvert)
  BY DEF OutputInv, Faithful
<1>5. Regroups(fdSink, rest, r) /\ rest \o r \in Seq(CU)
  BY <1>1, Regrouped, ConcatProperties
<1>6. fdSink' \o (rest \o r) = Plain(ToConvert')
  BY <1>3, <1>4, <1>5 DEF Regroups
<1>7. QED  BY <1>5, <1>6 DEF Faithful

\* The histories keep their types.
LEMMA HistoriesTyped ==
  ASSUME OutputInv, OutputNext
  PROVE  /\ toPushed' \in toPushed..Len(ClientInput) /\ toPushed' \in 0..Len(ClientInput)
         /\ toUpdate' \in {"none", "advanced", "stuck"}
         /\ ClientPushes \/ UNCHANGED toPushed
<1>1. /\ toPushed \in 0..Len(ClientInput) /\ Len(ClientInput) \in Nat
      /\ toUpdate \in {"none", "advanced", "stuck"} /\ PushSizes \subseteq Nat
  BY OutputAssumption, LenProperties DEF OutputInv
<1>2. CASE ClientPushes
  <2>1. PICK n \in PushSizes : /\ toPushed + n <= Len(ClientInput) /\ toPushed' = toPushed + n
                               /\ toUpdate' = toUpdate
    BY <1>2 DEF ClientPushes
  <2>2. n \in Nat
    BY <1>1, <2>1
  <2>3. QED  BY <1>1, <1>2, <2>1, <2>2
<1>3. CASE \/ ClientFlushes \/ ClientFrees \/ ClientFreesOutput \/ UpdatePushes
           \/ UpdateReturns \/ OutputWrites
  <2>1. toPushed' = toPushed
    BY <1>3 DEF ClientFlushes, ClientFrees, ClientFreesOutput, UpdatePushes,
                UpdateReturns, OutputWrites, Descriptor!Writes
  <2>2. toUpdate' \in {toUpdate, "none", "advanced", "stuck"}
    BY <1>3 DEF ClientFlushes, ClientFrees, ClientFreesOutput, UpdatePushes,
                UpdateReturns, OutputWrites
  <2>3. QED  BY <1>1, <2>1, <2>2
<1>4. QED  BY <1>2, <1>3 DEF OutputNext

-----------------------------------------------------------------------------
\* The steps of the two chains, while no write has failed.

LEMMA ClientPushesStep ==
  ASSUME InflatesStream, OutputInv, ~fdError, ClientPushes
  PROVE  OutputInv'
<1>1. PICK n \in PushSizes :
        /\ toPushed + n <= Len(ClientInput) /\ fdPc = "idle" /\ toPushed' = toPushed + n
        /\ Converter!Push(SubSeq(ClientInput, toPushed + 1, toPushed + n))
        /\ UNCHANGED <<descriptor, toUpdate>>
  BY DEF ClientPushes
<1>2. PICK front \in Seq(CU), back \in Seq(CU) : Accounted(front, back)
  BY DEF OutputInv
<1>3. toPushed' \in 0..Len(ClientInput) /\ toPushed \in 0..toPushed'
      /\ toUpdate' \in {"none", "advanced", "stuck"}
  <2>1. toPushed' \in toPushed..Len(ClientInput) /\ toPushed' \in 0..Len(ClientInput)
        /\ toUpdate' \in {"none", "advanced", "stuck"}
    BY HistoriesTyped DEF OutputNext
  <2>2. toPushed \in 0..Len(ClientInput)
    BY DEF OutputInv
  <2>3. QED  BY <2>1, <2>2
<1>4. PICK bytes \in Seq(CU) :
        bytes = SubSeq(ClientInput, toPushed + 1, toPushed') /\ ToConvert' = ToConvert \o bytes
  BY <1>3, PushedGoesWell DEF ToConvert
<1>5. Converter!Push(bytes)
  BY <1>1, <1>4
<1>6. toPc = "idle"
  BY <1>5 DEF Converter!Push, Converter!PushNothing, Converter!PushDirect,
              Converter!PushCached
<1>7. ConverterHas(back \o bytes)' /\ toPc' \in {"idle", "pushing", "flushing"}
  BY <1>2, <1>4, <1>5, <1>6, ConverterPushes DEF Accounted
<1>8. back \o bytes \in Seq(CU) /\ Regroups(front, back, bytes)
  BY <1>4, ConcatProperties, Regrouped
<1>9. ToConvert' = front \o (back \o bytes)
  BY <1>2, <1>4, <1>8 DEF Accounted, Regroups
<1>10. DescriptorHas(Plain(front))'
  BY <1>1, <1>2 DEF Accounted, DescriptorHas, FdWaits, FdBusy, descriptor
<1>11. Accounted(front, back \o bytes)'
  BY <1>2, <1>7, <1>9, <1>10 DEF Accounted
<1>12. OutputIsOrderly'
  <2>1. toUpdate' = "none" /\ fdPc' = "idle"
    BY <1>1, <1>6 DEF OutputInv, OutputIsOrderly, ConverterBusy, descriptor
  <2>2. QED  BY <1>7, <2>1 DEF OutputIsOrderly
<1>13. QED  BY <1>3, <1>8, <1>11, <1>12, AccountedSuffices

LEMMA ClientFlushesStep ==
  ASSUME InflatesStream, OutputInv, ~fdError, ClientFlushes \/ ClientFrees
  PROVE  OutputInv'
<1>1. /\ Converter!Flush \/ Converter!Free
      /\ fdPc = "idle" /\ UNCHANGED <<descriptor, toPushed, toUpdate>>
  BY DEF ClientFlushes, ClientFrees
<1>2. PICK front \in Seq(CU), back \in Seq(CU) : Accounted(front, back)
  BY DEF OutputInv
<1>3. ConverterHas(back)' /\ toPc = "idle" /\ toPc' \in {"flushing", "closing"}
  BY <1>1, <1>2, ConverterFlushes DEF Accounted
<1>4. DescriptorHas(Plain(front))'
  BY <1>1, <1>2 DEF Accounted, DescriptorHas, FdWaits, FdBusy, descriptor
<1>5. Accounted(front, back)'
  BY <1>1, <1>2, <1>3, <1>4 DEF Accounted, ToConvert
<1>6. OutputIsOrderly'
  <2>1. toUpdate' = "none" /\ fdPc' = "idle"
    BY <1>1, <1>3 DEF OutputInv, OutputIsOrderly, ConverterBusy, descriptor
  <2>2. QED  BY <1>3, <2>1 DEF OutputIsOrderly
<1>7. toPushed' \in 0..Len(ClientInput) /\ toUpdate' \in {"none", "advanced", "stuck"}
  BY HistoriesTyped DEF OutputNext
<1>8. QED  BY <1>5, <1>6, <1>7, AccountedSuffices

LEMMA ClientFreesOutputStep ==
  ASSUME InflatesStream, OutputInv, ~fdError, ClientFreesOutput
  PROVE  OutputInv'
<1>1. /\ toPc = "freed" /\ Descriptor!Free /\ UNCHANGED <<fdSink, converter, toPushed, toUpdate>>
  BY DEF ClientFreesOutput
<1>2. PICK front \in Seq(CU), back \in Seq(CU) : Accounted(front, back)
  BY DEF OutputInv
<1>3. AreUnits(CU) /\ Plain(front) \in Seq(CU)
  BY OutputAssumption, PartsTyped DEF CU
<1>4. DescriptorHas(Plain(front))'
  BY <1>1, <1>2, <1>3, DescriptorFrees DEF Accounted
<1>5. ConverterHas(back)'
  BY <1>1, <1>2 DEF Accounted, ConverterHas, ToGo, ConverterBusy, converter
<1>6. Accounted(front, back)'
  BY <1>1, <1>2, <1>4, <1>5 DEF Accounted, ToConvert
<1>7. OutputIsOrderly'
  BY <1>1 DEF OutputInv, OutputIsOrderly, ConverterBusy, ToGo, converter
<1>8. toPushed' \in 0..Len(ClientInput) /\ toUpdate' \in {"none", "advanced", "stuck"}
  BY HistoriesTyped DEF OutputNext
<1>9. QED  BY <1>6, <1>7, <1>8, AccountedSuffices

LEMMA UpdatePushesStep ==
  ASSUME InflatesStream, OutputInv, ~fdError, UpdatePushes
  PROVE  OutputInv'
<1>1. /\ ConverterBusy /\ toUpdate = "none" /\ fdPc = "idle"
      /\ Descriptor!PushInPlace(Converted) /\ toInput' = Rest
      /\ toUpdate' = IF Rest = toInput THEN "stuck" ELSE "advanced"
      /\ UNCHANGED <<toBuffer, toWritten, toError, toPc, toResult, fdSink, toPushed>>
  BY DEF UpdatePushes, Converter!Busy, ConverterBusy
<1>2. PICK front \in Seq(CU), back \in Seq(CU) : Accounted(front, back)
  BY DEF OutputInv
<1>3. /\ ConverterHas(back) /\ DescriptorHas(Plain(front)) /\ AllUsed(front)
      /\ ToConvert = front \o back /\ toInput = back /\ AreUnits(CU)
  BY <1>1, <1>2, OutputAssumption DEF Accounted, ConverterHas, ToGo, CU
<1>4. Ok(ToConvert)
  <2>1. toPushed \in 0..Len(ClientInput)
    BY DEF OutputInv
  <2>2. QED  BY <2>1, PushedGoesWell DEF ToConvert
<1>5. Ok(back)
  BY <1>3, <1>4, ComposeParts
<1>6. PICK a \in Seq(CU), b \in Seq(CU) :
        /\ back = a \o b /\ AllUsed(a) /\ Plain(b) = <<>>
        /\ Converted = Plain(a) /\ Rest = b
  BY <1>3, <1>5, ConvertedIs DEF InflatesStream
<1>7. ConverterHas(b)'
  BY <1>1, <1>3, <1>6, ConverterMoves
<1>8. Plain(front) \in Seq(CU) /\ Plain(a) \in Seq(CU)
  BY <1>3, PartsTyped
<1>9. DescriptorHas(Plain(front) \o Plain(a))' /\ fdPc' \in {"idle", "flushing"}
  BY <1>1, <1>3, <1>6, <1>8, DescriptorPushes
<1>10. front \o a \in Seq(CU) /\ Len(front \o a) = Len(front) + Len(a)
       /\ Regroups(front, a, b)
  BY ConcatProperties, Regrouped
<1>11. AllUsed(front \o a) /\ Plain(front \o a) = Plain(front) \o Plain(a)
  <2>1. /\ Ok(front \o a) <=> Ok(a)
        /\ Ok(a) => Used(front \o a) = Len(front) + Used(a)
        /\ Plain(front \o a) = Plain(front) \o Plain(a)
    BY <1>3, ComposeParts
  <2>2. QED  BY <1>6, <1>10, <2>1 DEF AllUsed
<1>12. Accounted(front \o a, b)'
  <2>1. ToConvert' = (front \o a) \o b
    BY <1>1, <1>3, <1>6, <1>10 DEF ToConvert, Regroups
  <2>2. QED  BY <1>7, <1>9, <1>11, <2>1 DEF Accounted
<1>13. OutputIsOrderly'
  BY <1>1, <1>6, <1>9 DEF OutputIsOrderly, ConverterBusy, ToGo
<1>14. toPushed' \in 0..Len(ClientInput) /\ toUpdate' \in {"none", "advanced", "stuck"}
  BY HistoriesTyped DEF OutputNext
<1>15. QED  BY <1>10, <1>12, <1>13, <1>14, AccountedSuffices

LEMMA UpdateReturnsStep ==
  ASSUME InflatesStream, OutputInv, ~fdError, UpdateReturns
  PROVE  OutputInv'
<1>1. PICK front \in Seq(CU), back \in Seq(CU) : Accounted(front, back)
  BY DEF OutputInv
<1>2. /\ ConverterHas(back) /\ DescriptorHas(Plain(front)) /\ fdResult # "false"
      /\ OutputIsOrderly /\ toUpdate \in {"none", "advanced", "stuck"} /\ ~Deflating
  BY <1>1 DEF Accounted, DescriptorHas, OutputInv, InflatesStream
<1>3. /\ toUpdate \in {"advanced", "stuck"} /\ fdPc = "idle" /\ ConverterBusy
      /\ Converter!Update(toInput, IF toUpdate = "stuck" THEN "complete" ELSE "incomplete")
      /\ toUpdate' = "none" /\ UNCHANGED <<descriptor, toPushed>>
  BY <1>2 DEF UpdateReturns, OutputIsOrderly
<1>4. DescriptorHas(Plain(front))'
  BY <1>2, <1>3 DEF DescriptorHas, FdWaits, FdBusy, descriptor
<1>5. toPushed' \in 0..Len(ClientInput) /\ toUpdate' \in {"none", "advanced", "stuck"}
  BY HistoriesTyped DEF OutputNext
<1>6. fdPc' = "idle"
  BY <1>3 DEF descriptor
<1>7. CASE toUpdate = "advanced"
  <2>1. UNCHANGED <<toBuffer, toWritten, toPc, toError, toInput>>
    BY <1>2, <1>3, <1>7 DEF Converter!Update, ConverterHas
  <2>2. ConverterHas(back)' /\ toPc' # "freed"
    BY <1>2, <1>3, <2>1 DEF ConverterHas, ToGo, ConverterBusy
  <2>3. Accounted(front, back)'
    BY <1>1, <1>3, <1>4, <2>2 DEF Accounted, ToConvert
  <2>4. OutputIsOrderly'
    BY <1>3, <1>6, <2>2 DEF OutputIsOrderly
  <2>5. QED  BY <1>5, <2>3, <2>4, AccountedSuffices
<1>8. CASE toUpdate = "stuck"
  <2>1. ConverterHas(back)'
    BY <1>2, <1>3, <1>8, ConverterRests
  <2>2. Accounted(front, back)'
    BY <1>1, <1>3, <1>4, <2>1 DEF Accounted, ToConvert
  <2>3. Plain(ToGo') = <<>>
    <3>1. Plain(ToGo) = <<>> /\ ToGo = back /\ ToGo' = back
      BY <1>2, <1>8, <2>1 DEF OutputIsOrderly, ConverterHas
    <3>2. QED  BY <3>1
  <2>4. OutputIsOrderly'
    BY <1>3, <1>6, <2>3 DEF OutputIsOrderly
  <2>5. QED  BY <1>5, <2>2, <2>4, AccountedSuffices
<1>9. QED  BY <1>3, <1>7, <1>8

LEMMA OutputWritesStep ==
  ASSUME InflatesStream, OutputInv, ~fdError, OutputWrites
  PROVE  OutputInv'
<1>1. Descriptor!Writes /\ UNCHANGED <<converter, toUpdate, toPushed>>
  BY DEF OutputWrites, Descriptor!Writes
<1>2. PICK front \in Seq(CU), back \in Seq(CU) : Accounted(front, back)
  BY DEF OutputInv
<1>3. AreUnits(CU) /\ Plain(front) \in Seq(CU) /\ OutputIsOrderly
  BY OutputAssumption, PartsTyped DEF CU, OutputInv
<1>4. /\ FdBusy /\ fdPc' \in {fdPc, IF fdPc = "closing" THEN "freed" ELSE "idle"}
      /\ \/ DescriptorHas(Plain(front))'
         \/ fdError' = TRUE /\ UNCHANGED fdSink /\ fdPc' \in {"idle", "freed"}
  BY <1>1, <1>2, <1>3, DescriptorWrites DEF Accounted
<1>5. toPushed' \in 0..Len(ClientInput) /\ toUpdate' \in {"none", "advanced", "stuck"}
      /\ toPushed' \in toPushed..Len(ClientInput)
  BY HistoriesTyped DEF OutputNext
<1>6. CASE DescriptorHas(Plain(front))'
  <2>1. ConverterHas(back)'
    BY <1>1, <1>2 DEF Accounted, ConverterHas, ToGo, ConverterBusy, converter
  <2>2. Accounted(front, back)'
    BY <1>1, <1>2, <1>6, <2>1 DEF Accounted, ToConvert
  <2>3. OutputIsOrderly'
    BY <1>1, <1>3, <1>4 DEF OutputIsOrderly, ConverterBusy, ToGo, converter, FdBusy
  <2>4. QED  BY <1>5, <2>2, <2>3, AccountedSuffices
<1>7. CASE fdError' = TRUE /\ UNCHANGED fdSink /\ fdPc' \in {"idle", "freed"}
  <2>1. Faithful'
    BY <1>5, <1>7, StaysFaithful
  <2>2. QED  BY <1>5, <1>7, <2>1 DEF OutputInv
<1>8. QED  BY <1>4, <1>6, <1>7

\* Every step keeps the invariant.
LEMMA OutputStep ==
  ASSUME InflatesStream, OutputInv, [OutputNext]_outputVars
  PROVE  OutputInv'
<1>1. CASE UNCHANGED outputVars
  BY <1>1, ZenonT(60) DEF OutputInv, Faithful, ToConvert, OutputIsOrderly, ConverterBusy, ToGo,
              Accounted, ConverterHas, DescriptorHas, FdWaits, FdBusy, outputVars,
              converter, descriptor
<1>2. CASE OutputNext /\ fdError
  <2>1. fdError' = TRUE /\ UNCHANGED fdSink /\ fdPc' \in {"idle", "freed"}
    BY <1>2, FailedWritesNothing
  <2>2. toPushed' \in 0..Len(ClientInput) /\ toUpdate' \in {"none", "advanced", "stuck"}
        /\ toPushed' \in toPushed..Len(ClientInput)
    BY <1>2, HistoriesTyped
  <2>3. Faithful'
    BY <2>1, <2>2, StaysFaithful
  <2>4. QED  BY <2>1, <2>2, <2>3 DEF OutputInv
<1>3. CASE OutputNext /\ ~fdError
  BY <1>3, ClientPushesStep, ClientFlushesStep, ClientFreesOutputStep, UpdatePushesStep,
     UpdateReturnsStep, OutputWritesStep DEF OutputNext
<1>4. QED  BY <1>1, <1>2, <1>3

LEMMA OutputStarts ==
  ASSUME OutputInit
  PROVE  OutputInv
<1>1. /\ toBuffer = <<>> /\ toWritten = 0 /\ toError = FALSE /\ toPc = "idle" /\ toInput = <<>>
      /\ fdBuffer = <<>> /\ fdWritten = 0 /\ fdError = FALSE /\ fdPc = "idle"
      /\ fdInput = <<>> /\ fdResult = "none" /\ fdSink = <<>>
      /\ toPushed = 0 /\ toUpdate = "none"
  BY DEF OutputInit, Converter!ChainInit, Descriptor!ChainInit
<1>2. <<>> \in Seq(CU) /\ Len(<<>>) = 0 /\ <<>> \o <<>> = <<>>
  BY EmptySeq, ConcatEmptySeq
<1>3. AreUnits(CU) /\ Len(ClientInput) \in Nat
  BY OutputAssumption, LenProperties DEF CU
<1>4. AllUsed(<<>>) /\ Plain(<<>>) = <<>>
  BY <1>3, EmptyInflates DEF MeansNothing
<1>5. ToConvert = <<>>
  <2>1. SubSeq(ClientInput, 1, 0) = <<>>
    BY SubSeqEmpty
  <2>2. QED  BY <1>1, <2>1 DEF ToConvert
<1>6. ToGo = <<>> /\ FdWaits = <<>>
  <2>1. SubSeq(<<>>, Len(<<>>) + 1, Len(<<>>)) = <<>>
    BY <1>2, NothingBehind
  <2>2. QED  BY <1>1, <1>2, <2>1 DEF ToGo, ConverterBusy, FdWaits, FdBusy
<1>7. 0 \in 0..0 /\ 0 \in 0..Len(ClientInput)
  BY <1>3
<1>8. ConverterHas(<<>>) /\ DescriptorHas(<<>>)
  BY <1>1, <1>2, <1>6, <1>7 DEF ConverterHas, DescriptorHas
<1>9. Accounted(<<>>, <<>>)
  BY <1>2, <1>4, <1>5, <1>8 DEF Accounted
<1>10. OutputIsOrderly /\ Faithful
  BY <1>1, <1>2, <1>4, <1>5 DEF OutputIsOrderly, Faithful
<1>11. QED  BY <1>1, <1>2, <1>7, <1>9, <1>10 DEF OutputInv

LEMMA OutputInvSuffices ==
  ASSUME InflatesStream, OutputInv
  PROVE  OutputIsWhole
<1>1. ~Deflating /\ MeaningOf(fdSink) = fdSink /\ ToBeWritten = Plain(ToConvert)
  BY DEF InflatesStream, MeaningOf, ToBeWritten
<1>2. OutputIsFaithful
  <2>1. PICK rest \in Seq(CU) : fdSink \o rest = Plain(ToConvert)
    BY DEF OutputInv, Faithful
  <2>2. fdSink \in Seq(CU)
    BY DEF OutputInv
  <2>3. IsPrefix(fdSink, fdSink \o rest)
    BY <2>2, PrefixOf
  <2>4. QED  BY <1>1, <2>1, <2>3 DEF OutputIsFaithful
<1>3. ASSUME fdPc = "freed", ~fdError
      PROVE  fdSink = Plain(ToConvert)
  <2>1. PICK front \in Seq(CU), back \in Seq(CU) : Accounted(front, back)
    BY <1>3 DEF OutputInv
  <2>2. /\ fdSink \in Seq(CU) /\ fdBuffer \in Seq(CU) /\ fdWritten = Len(fdBuffer)
        /\ fdSink \o FdWaits = Plain(front)
        /\ AllUsed(front) /\ ToConvert = front \o back /\ ToGo = back
    BY <1>3, <2>1 DEF Accounted, DescriptorHas, ConverterHas
  <2>3. FdWaits = <<>>
    BY <1>3, <2>2, NothingBehind DEF FdWaits, FdBusy
  <2>4. fdSink = Plain(front)
    BY <2>2, <2>3, ConcatEmptySeq
  <2>5. Plain(back) = <<>>
    BY <1>3, <2>2 DEF OutputInv, OutputIsOrderly
  <2>6. AreUnits(CU)
    BY OutputAssumption DEF CU
  <2>7. Plain(front \o back) = Plain(front) \o Plain(back)
    BY <2>2, <2>6, ComposeParts
  <2>8. QED  BY <2>2, <2>4, <2>5, <2>7, ConcatEmptySeq
<1>4. QED  BY <1>1, <1>2, <1>3 DEF OutputIsWhole, FreedIsWritten

\* What is written of a stream pushed to a chain that inflates is a beginning of what
\* the stream means, and all of it when both chains were freed and no write failed:
\* for every stream that makes sense and every way to cut it into pushes and flushes.
\* (A stream with a chunk that makes no sense is the one exception: chain.c:50-61 takes
\* no notice of what dzip_inflate_range returns, and converts the chunks before it
\* again at the next push.)
THEOREM InflatedIsWritten ==
  InflatesStream => (OutputSpec => []OutputIsWhole)
<1> SUFFICES ASSUME InflatesStream
             PROVE  OutputSpec => []OutputIsWhole
  OBVIOUS
<1>1. OutputInit => OutputInv
  BY OutputStarts
<1>2. OutputInv /\ [OutputNext]_outputVars => OutputInv'
  BY OutputStep
<1>3. OutputInv => OutputIsWhole
  BY OutputInvSuffices
<1>4. QED  BY <1>1, <1>2, <1>3, PTL DEF OutputSpec
=============================================================================
