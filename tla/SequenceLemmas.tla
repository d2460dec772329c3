--------------------------- MODULE SequenceLemmas ---------------------------
(***************************************************************************)
(* What the proofs about several modules need of numbers and sequences: a  *)
(* least element, pieces of a sequence and how they join, and sequences of *)
(* sequences.                                                              *)
(***************************************************************************)
EXTENDS Integers, SequencesExt, SequenceTheorems, WellFoundedInduction, TLAPS

\* Every set of natural numbers has a least element.  It takes the place of
\* induction: a property that fails somewhere fails at a least place.
LEMMA LeastElement ==
  ASSUME NEW T, T \subseteq Nat, T # {}
  PROVE  \E n \in T : \A m \in T : n <= m
<1> DEFINE Less == {p \in Nat \X Nat : p[1] < p[2]}
<1>1. IsWellFoundedOn(Less, Nat)
  BY NatLessThanWellFounded DEF OpToRel
<1>2. PICK n \in T : \A m \in T : <<m, n>> \notin Less
  BY <1>1, WFMin
<1>3. \A m \in T : ~(m < n) /\ m \in Nat /\ n \in Nat
  BY <1>2
<1>4. QED  BY <1>3

\* Two adjacent pieces of a sequence make one.
LEMMA Adjacent ==
  ASSUME NEW S, NEW s \in Seq(S), NEW lo \in Nat, NEW mid \in Nat, NEW hi \in Nat,
         lo <= mid, mid <= hi, hi <= Len(s)
  PROVE  SubSeq(s, lo + 1, mid) \o SubSeq(s, mid + 1, hi) = SubSeq(s, lo + 1, hi)
<1>1. /\ lo + 1 \in 1..Len(s) + 1
      /\ mid \in (lo + 1) - 1..Len(s)
      /\ hi \in mid..Len(s)
  BY LenProperties
<1>2. QED  BY <1>1, ConcatAdjacentSubSeq

\* The end of a piece of a sequence is a piece of it.
LEMMA Suffix ==
  ASSUME NEW S, NEW s \in Seq(S), NEW lo \in Nat, NEW hi \in Nat, NEW r \in Nat,
         hi <= Len(s), lo + r <= hi
  PROVE  SubSeq(SubSeq(s, lo + 1, hi), r + 1, hi - lo) = SubSeq(s, lo + r + 1, hi)
<1>1. \A i \in lo + 1..hi : s[i] \in S
  BY ElementOfSeq, LenProperties
<1> DEFINE t == SubSeq(s, lo + 1, hi)
<1>2. /\ t \in Seq(S) /\ Len(t) = hi - lo
      /\ \A i \in 1..hi - lo : t[i] = s[lo + i]
  BY <1>1, SubSeqProperties
<1> DEFINE u == SubSeq(t, r + 1, hi - lo)
<1> HIDE DEF t
<1>3. \A i \in r + 1..hi - lo : t[i] \in S
  BY <1>2, ElementOfSeq
<1>4. /\ u \in Seq(S) /\ Len(u) = hi - lo - r
      /\ \A i \in 1..hi - lo - r : u[i] = t[r + i]
  BY <1>3, SubSeqProperties
<1> HIDE DEF u
<1> DEFINE v == SubSeq(s, lo + r + 1, hi)
<1>5. /\ v \in Seq(S) /\ Len(v) = hi - lo - r
      /\ \A i \in 1..hi - lo - r : v[i] = s[lo + r + i]
  BY <1>1, SubSeqProperties
<1> HIDE DEF v
<1>6. \A i \in 1..hi - lo - r : u[i] = v[i]
  BY <1>2, <1>4, <1>5
<1>7. u = v
  BY <1>4, <1>5, <1>6, SeqEqual
<1>8. QED  BY <1>7 DEF t, u, v

\* Any piece of a sequence is a sequence of the same elements.
LEMMA Piece ==
  ASSUME NEW S, NEW s \in Seq(S), NEW lo \in Nat, NEW hi \in Nat, hi <= Len(s)
  PROVE  /\ SubSeq(s, lo + 1, hi) \in Seq(S)
         /\ Len(SubSeq(s, lo + 1, hi)) = IF lo <= hi THEN hi - lo ELSE 0
         /\ \A i \in 1..hi - lo : SubSeq(s, lo + 1, hi)[i] = s[lo + i]
<1>1. \A i \in lo + 1..hi : s[i] \in S
  BY ElementOfSeq, LenProperties
<1>2. QED  BY <1>1, SubSeqProperties

\* A sequence is a prefix of what begins with it.
LEMMA PrefixOf ==
  ASSUME NEW U, NEW s \in Seq(U), NEW t \in Seq(U)
  PROVE  IsPrefix(s, s \o t)
<1>1. Len(s) \in Nat /\ Len(t) \in Nat /\ Len(s \o t) = Len(s) + Len(t)
  BY LenProperties, ConcatProperties
<1>2. SubSeq(s \o t, 1, Len(s)) = SubSeq(s, 1, Len(s))
  <2>1. CASE Len(s) = 0
    <3>1. SubSeq(s \o t, 1, 0) = <<>> /\ SubSeq(s, 1, 0) = <<>>
      BY SubSeqEmpty
    <3>2. QED  BY <2>1, <3>1
  <2>2. CASE Len(s) # 0
    <3>1. 1 \in 1..Len(s) /\ Len(s) \in 1..Len(s)
      BY <1>1, <2>2
    <3>2. QED  BY <3>1, SubSeqOfConcat1
  <2>3. QED  BY <2>1, <2>2
<1>3. QED  BY <1>1, <1>2 DEF IsPrefix

-----------------------------------------------------------------------------
(* Sequences that are joined.                                              *)

\* f joins the first sequences of s, for each number of them.
JoinedBy(s, f) == f = [i \in 1..Len(s) |-> IF i = 1 THEN s[i] ELSE f[i - 1] \o s[i]]

\* Joining the first i sequences of s by h, for each i up to n.
JoinsUpTo(s, n, h) ==
  /\ h = [i \in 1..n |-> h[i]]
  /\ \A i \in 1..n : h[i] = IF i = 1 THEN s[i] ELSE h[i - 1] \o s[i]

\* There is a way to join, and it joins sequences of U to one of U.
LEMMA JoinExists ==
  ASSUME NEW U, NEW s \in Seq(Seq(U))
  PROVE  \E f : JoinsUpTo(s, Len(s), f) /\ \A i \in 1..Len(s) : f[i] \in Seq(U)
<1> DEFINE Done(n, f) == JoinsUpTo(s, n, f) /\ \A i \in 1..n : f[i] \in Seq(U)
           Undone == {n \in 0..Len(s) : ~\E f : Done(n, f)}
<1>1. Len(s) \in Nat /\ \A i \in 1..Len(s) : s[i] \in Seq(U)
  BY LenProperties, ElementOfSeq
<1>2. Undone = {}
  <2> SUFFICES ASSUME Undone # {} PROVE FALSE
    OBVIOUS
  <2>1. PICK n \in Undone : \A m \in Undone : n <= m
    <3>1. Undone \subseteq Nat
      BY <1>1
    <3> HIDE DEF Undone
    <3>2. QED  BY <3>1, LeastElement
  <2>2. n \in 0..Len(s) /\ ~\E f : Done(n, f)
    OBVIOUS
  <2>3. n # 0
    <3>1. Done(0, [i \in 1..0 |-> s])
      BY DEF JoinsUpTo
    <3> HIDE DEF Done
    <3>2. QED  BY <2>2, <3>1
  <2>4. n \in Nat /\ n - 1 \in 0..Len(s) /\ ~(n <= n - 1)
    BY <1>1, <2>2, <2>3
  <2>5. PICK f : Done(n - 1, f)
    <3>1. n - 1 \notin Undone
      BY <2>1, <2>4
    <3> HIDE DEF Done
    <3>2. QED  BY <2>4, <3>1
  <2> DEFINE last == IF n = 1 THEN s[n] ELSE f[n - 1] \o s[n]
             g == [i \in 1..n |-> IF i < n THEN f[i] ELSE last]
  <2>6. last \in Seq(U)
    <3>1. s[n] \in Seq(U)
      BY <1>1, <2>2, <2>3
    <3>2. CASE n = 1
      BY <3>1, <3>2
    <3>3. CASE n # 1
      <4>1. n - 1 \in 1..n - 1
        BY <1>1, <2>2, <2>3, <3>3
      <4>2. f[n - 1] \in Seq(U)
        BY <2>5, <4>1
      <4>3. QED  BY <3>1, <3>3, <4>2, ConcatProperties
    <3>4. QED  BY <3>2, <3>3
  <2>7. \A i \in 1..n : g[i] \in Seq(U)
    BY <1>1, <2>2, <2>5, <2>6
  <2>8. ASSUME NEW i \in 1..n
        PROVE  g[i] = IF i = 1 THEN s[i] ELSE g[i - 1] \o s[i]
    <3>1. CASE i < n
      <4>1. g[i] = f[i] /\ (i # 1 => i - 1 \in 1..n /\ g[i - 1] = f[i - 1])
        BY <1>1, <2>2, <3>1
      <4>2. i \in 1..n - 1
        BY <1>1, <2>2, <3>1
      <4>3. QED  BY <2>5, <4>1, <4>2 DEF JoinsUpTo
    <3>2. CASE i = n
      <4>1. g[i] = last /\ (i # 1 => i - 1 \in 1..n /\ g[i - 1] = f[i - 1])
        BY <1>1, <2>2, <3>2
      <4>2. QED  BY <3>2, <4>1
    <3>3. QED  BY <1>1, <2>2, <3>1, <3>2
  <2>9. g = [i \in 1..n |-> g[i]]
    OBVIOUS
  <2> HIDE DEF g
  <2>10. Done(n, g)
    BY <2>7, <2>8, <2>9 DEF JoinsUpTo
  <2>11. QED  BY <2>2, <2>10
<1>3. Len(s) \notin Undone /\ Len(s) \in 0..Len(s)
  BY <1>1, <1>2
<1>4. QED  BY <1>3

\* There is only one.
LEMMA JoinsAgree ==
  ASSUME NEW n \in Nat, NEW s, NEW t, NEW f, NEW g, NEW m \in Nat, n <= m,
         JoinsUpTo(s, n, f), JoinsUpTo(t, m, g), \A i \in 1..n : s[i] = t[i]
  PROVE  \A i \in 1..n : f[i] = g[i]
<1> DEFINE Differ == {i \in 1..n : f[i] # g[i]}
<1> SUFFICES ASSUME Differ # {} PROVE FALSE
  OBVIOUS
<1>1. PICK k \in Differ : \A i \in Differ : k <= i
  <2>1. Differ \subseteq Nat
    OBVIOUS
  <2> HIDE DEF Differ
  <2>2. QED  BY <2>1, LeastElement
<1>2. k \in 1..n /\ k \in 1..m /\ f[k] # g[k]
  OBVIOUS
<1>3. /\ f[k] = IF k = 1 THEN s[k] ELSE f[k - 1] \o s[k]
      /\ g[k] = IF k = 1 THEN t[k] ELSE g[k - 1] \o t[k]
  BY <1>2 DEF JoinsUpTo
<1>4. k # 1 => k - 1 \in 1..n /\ k - 1 \notin Differ
  BY <1>1, <1>2
<1>5. k # 1 => f[k - 1] = g[k - 1]
  BY <1>4
<1>6. QED  BY <1>2, <1>3, <1>5

\* FlattenSeq joins them all.
LEMMA FlattenJoins ==
  ASSUME NEW U, NEW s \in Seq(Seq(U)), NEW f, JoinsUpTo(s, Len(s), f)
  PROVE  FlattenSeq(s) = IF Len(s) = 0 THEN <<>> ELSE f[Len(s)]
<1>1. Len(s) \in Nat
  BY LenProperties
<1>2. CASE Len(s) = 0
  <2>1. s = <<>>
    BY <1>2, EmptySeq
  <2>2. QED  BY <1>2, <2>1 DEF FlattenSeq
<1>3. CASE Len(s) # 0
  <2> DEFINE h == CHOOSE h : JoinedBy(s, h)
  <2>1. FlattenSeq(s) = h[Len(s)]
    BY <1>3 DEF FlattenSeq, JoinedBy
  <2>2. JoinedBy(s, f)
    BY DEF JoinsUpTo, JoinedBy
  <2>3. JoinedBy(s, h)
    BY <2>2
  <2> HIDE DEF h
  <2>4. JoinsUpTo(s, Len(s), h)
    BY <2>3 DEF JoinsUpTo, JoinedBy
  <2>5. \A i \in 1..Len(s) : f[i] = h[i]
    BY <1>1, <2>4, JoinsAgree
  <2>6. Len(s) \in 1..Len(s)
    BY <1>1, <1>3
  <2>7. QED  BY <1>3, <2>1, <2>5, <2>6
<1>4. QED  BY <1>2, <1>3

\* What has been joined so far is the beginning of what is joined next.
LEMMA FlattenNext ==
  ASSUME NEW U, NEW s \in Seq(Seq(U)), NEW i \in 1..Len(s)
  PROVE  /\ FlattenSeq(SubSeq(s, 1, i - 1)) \in Seq(U) /\ s[i] \in Seq(U)
         /\ FlattenSeq(SubSeq(s, 1, i)) = FlattenSeq(SubSeq(s, 1, i - 1)) \o s[i]
<1> DEFINE a == SubSeq(s, 1, i - 1)
           b == SubSeq(s, 1, i)
<1>1. Len(s) \in Nat /\ s[i] \in Seq(U)
  BY LenProperties, ElementOfSeq
<1>2. /\ a \in Seq(Seq(U)) /\ Len(a) = i - 1 /\ \A j \in 1..i - 1 : a[j] = s[j]
      /\ b \in Seq(Seq(U)) /\ Len(b) = i /\ \A j \in 1..i : b[j] = s[j]
  <2>1. i - 1 \in Nat /\ i \in Nat /\ i - 1 <= Len(s) /\ i <= Len(s)
        /\ ~(i - 1 < 0) /\ 0 <= i
    BY <1>1
  <2>2. /\ SubSeq(s, 0 + 1, i - 1) \in Seq(Seq(U))
        /\ Len(SubSeq(s, 0 + 1, i - 1)) = i - 1 - 0
        /\ \A j \in 1..i - 1 - 0 : SubSeq(s, 0 + 1, i - 1)[j] = s[0 + j]
    BY <2>1, Piece
  <2>3. /\ SubSeq(s, 0 + 1, i) \in Seq(Seq(U))
        /\ Len(SubSeq(s, 0 + 1, i)) = i - 0
        /\ \A j \in 1..i - 0 : SubSeq(s, 0 + 1, i)[j] = s[0 + j]
    BY <2>1, Piece
  <2>4. QED  BY <2>1, <2>2, <2>3
<1> HIDE DEF a, b
<1>3. PICK f : JoinsUpTo(a, i - 1, f) /\ \A j \in 1..i - 1 : f[j] \in Seq(U)
  <2>1. \E f : JoinsUpTo(a, Len(a), f) /\ \A j \in 1..Len(a) : f[j] \in Seq(U)
    BY <1>2, JoinExists
  <2>2. Len(a) = i - 1
    BY <1>2
  <2> HIDE <1>2
  <2>3. QED  BY <2>1, <2>2
<1>4. PICK g : JoinsUpTo(b, i, g) /\ \A j \in 1..i : g[j] \in Seq(U)
  BY <1>2, JoinExists
<1>5. \A j \in 1..i - 1 : f[j] = g[j]
  <2>1. i - 1 \in Nat /\ i \in Nat /\ i - 1 <= i /\ \A j \in 1..i - 1 : j \in 1..i
    BY <1>1
  <2>3. \A j \in 1..i - 1 : a[j] = b[j]
    BY <1>2, <2>1
  <2>2. QED  BY <1>3, <1>4, <2>1, <2>3, JoinsAgree, SMTT(30)
<1>6. FlattenSeq(a) = IF i = 1 THEN <<>> ELSE f[i - 1]
  <2>1. FlattenSeq(a) = IF i - 1 = 0 THEN <<>> ELSE f[i - 1]
    BY <1>2, <1>3, FlattenJoins
  <2>2. QED  BY <1>1, <2>1
<1>7. FlattenSeq(b) = g[i]
  BY <1>1, <1>2, <1>4, FlattenJoins
<1>8. g[i] = IF i = 1 THEN s[i] ELSE g[i - 1] \o s[i]
  <2>1. i \in 1..i /\ b[i] = s[i]
    BY <1>1, <1>2
  <2>2. QED  BY <1>4, <2>1 DEF JoinsUpTo
<1>9. CASE i = 1
  <2>1. FlattenSeq(a) = <<>> /\ FlattenSeq(b) = s[i]
    BY <1>6, <1>7, <1>8, <1>9
  <2>2. <<>> \o s[i] = s[i] /\ <<>> \in Seq(U)
    BY <1>1, ConcatSimplifications, EmptySeq
  <2>3. QED  BY <1>1, <2>1, <2>2 DEF a, b
<1>10. CASE i # 1
  <2>1. i - 1 \in 1..i - 1
    BY <1>1, <1>10
  <2>2. FlattenSeq(a) = f[i - 1] /\ f[i - 1] \in Seq(U) /\ FlattenSeq(b) = f[i - 1] \o s[i]
    BY <1>3, <1>5, <1>6, <1>7, <1>8, <1>10, <2>1
  <2>3. QED  BY <1>1, <2>2 DEF a, b
<1>11. QED  BY <1>9, <1>10

\* One sequence more is joined at the end.
LEMMA FlattenAppend ==
  ASSUME NEW U, NEW s \in Seq(Seq(U)), NEW x \in Seq(U)
  PROVE  /\ FlattenSeq(s) \in Seq(U)
         /\ FlattenSeq(Append(s, x)) = FlattenSeq(s) \o x
<1> DEFINE t == Append(s, x)
           n == Len(s) + 1
<1>1. /\ t \in Seq(Seq(U)) /\ Len(t) = n /\ n \in 1..Len(t) /\ n - 1 = Len(s) /\ t[n] = x
      /\ Len(s) \in Nat /\ \A i \in 1..Len(s) : t[i] = s[i]
  BY AppendProperties, LenProperties
<1> HIDE DEF t
<1>2. SubSeq(t, 1, Len(t)) = t
  BY <1>1, SubSeqFull
<1>3. SubSeq(t, 1, n - 1) = s
  <2>1. 0 \in Nat /\ Len(s) <= Len(t) /\ 0 <= Len(s)
    BY <1>1
  <2>2. /\ SubSeq(t, 0 + 1, Len(s)) \in Seq(Seq(U)) /\ Len(SubSeq(t, 0 + 1, Len(s))) = Len(s) - 0
        /\ \A i \in 1..Len(s) - 0 : SubSeq(t, 0 + 1, Len(s))[i] = t[0 + i]
    BY <1>1, <2>1, Piece
  <2>3. /\ SubSeq(t, 1, Len(s)) \in Seq(Seq(U)) /\ Len(SubSeq(t, 1, Len(s))) = Len(s)
        /\ \A i \in 1..Len(s) : SubSeq(t, 1, Len(s))[i] = s[i]
    BY <1>1, <2>2
  <2>4. SubSeq(t, 1, Len(s)) = s
    BY <2>3, SeqEqual
  <2>5. QED  BY <1>1, <2>4
<1>4. /\ FlattenSeq(SubSeq(t, 1, n - 1)) \in Seq(U)
      /\ FlattenSeq(SubSeq(t, 1, n)) = FlattenSeq(SubSeq(t, 1, n - 1)) \o t[n]
  BY <1>1, FlattenNext
<1>5. QED  BY <1>1, <1>2, <1>3, <1>4 DEF t

-----------------------------------------------------------------------------
(* Prefixes, of one another and of a third.                                *)

LEMMA PrefixIs ==
  ASSUME NEW S, NEW s \in Seq(S), NEW t \in Seq(S)
  PROVE  IsPrefix(s, t) <=> Len(s) <= Len(t) /\ \A i \in 1..Len(s) : s[i] = t[i]
<1>1. Len(s) \in Nat /\ Len(t) \in Nat /\ SubSeq(s, 1, Len(s)) = s
  BY LenProperties, SubSeqFull
<1>2. CASE Len(s) <= Len(t)
  <2>1. 0 \in Nat /\ 0 <= Len(s) /\ Len(s) - 0 = Len(s)
    BY <1>1
  <2>2. /\ SubSeq(t, 0 + 1, Len(s)) \in Seq(S) /\ Len(SubSeq(t, 0 + 1, Len(s))) = Len(s) - 0
        /\ \A i \in 1..Len(s) - 0 : SubSeq(t, 0 + 1, Len(s))[i] = t[0 + i]
    BY <1>1, <1>2, <2>1, Piece
  <2> DEFINE u == SubSeq(t, 1, Len(s))
  <2>3. u \in Seq(S) /\ Len(u) = Len(s) /\ \A i \in 1..Len(s) : u[i] = t[i]
    BY <1>1, <2>2
  <2>4. IsPrefix(s, t) <=> s = u
    BY <1>1, <1>2 DEF IsPrefix
  <2> HIDE DEF u
  <2>5. (\A i \in 1..Len(s) : s[i] = u[i]) => s = u
    BY <2>3, SeqEqual
  <2>6. QED  BY <1>2, <2>3, <2>4, <2>5
<1>3. CASE ~(Len(s) <= Len(t))
  BY <1>3 DEF IsPrefix
<1>4. QED  BY <1>2, <1>3

LEMMA PrefixSame ==
  ASSUME NEW S, NEW s \in Seq(S)
  PROVE  IsPrefix(s, s)
<1>1. Len(s) <= Len(s)
  BY LenProperties
<1>2. QED  BY <1>1, PrefixIs

LEMMA PrefixTrans ==
  ASSUME NEW S, NEW s \in Seq(S), NEW t \in Seq(S), NEW u \in Seq(S),
         IsPrefix(s, t), IsPrefix(t, u)
  PROVE  IsPrefix(s, u)
<1>1. Len(s) \in Nat /\ Len(t) \in Nat /\ Len(u) \in Nat
  BY LenProperties
<1>2. Len(s) <= Len(t) /\ \A i \in 1..Len(s) : s[i] = t[i]
  BY PrefixIs
<1>3. Len(t) <= Len(u) /\ \A i \in 1..Len(t) : t[i] = u[i]
  BY PrefixIs
<1>4. Len(s) <= Len(u) /\ \A i \in 1..Len(s) : s[i] = u[i]
  BY <1>1, <1>2, <1>3
<1>5. QED  BY <1>4, PrefixIs

\* A prefix that is not shorter is the whole.
LEMMA PrefixWhole ==
  ASSUME NEW S, NEW s \in Seq(S), NEW t \in Seq(S), IsPrefix(s, t), Len(t) <= Len(s)
  PROVE  s = t
<1>1. Len(s) \in Nat /\ Len(t) \in Nat
  BY LenProperties
<1>2. Len(s) <= Len(t) /\ \A i \in 1..Len(s) : s[i] = t[i]
  BY PrefixIs
<1>3. Len(s) = Len(t)
  BY <1>1, <1>2
<1>4. QED  BY <1>2, <1>3, SeqEqual

\* Of two prefixes of one sequence, one is the other's.
LEMMA PrefixBoth ==
  ASSUME NEW S, NEW s \in Seq(S), NEW t \in Seq(S), NEW u \in Seq(S),
         IsPrefix(s, u), IsPrefix(t, u), Len(s) <= Len(t)
  PROVE  IsPrefix(s, t)
<1>1. Len(s) \in Nat /\ Len(t) \in Nat /\ Len(u) \in Nat
  BY LenProperties
<1>2. \A i \in 1..Len(s) : s[i] = u[i]
  BY PrefixIs
<1>3. \A i \in 1..Len(t) : t[i] = u[i]
  BY PrefixIs
<1>4. \A i \in 1..Len(s) : s[i] = t[i]
  BY <1>1, <1>2, <1>3
<1>5. QED  BY <1>4, PrefixIs

\* Between a sequence and one it is a prefix of there is one that is longer by one.
LEMMA PrefixNext ==
  ASSUME NEW S, NEW s \in Seq(S), NEW t \in Seq(S), IsPrefix(s, t), s # t
  PROVE  /\ Len(s) < Len(t) /\ s = SubSeq(t, 1, Len(s))
         /\ SubSeq(t, 1, Len(s) + 1) \in Seq(S) /\ Len(SubSeq(t, 1, Len(s) + 1)) = Len(s) + 1
         /\ IsPrefix(s, SubSeq(t, 1, Len(s) + 1)) /\ IsPrefix(SubSeq(t, 1, Len(s) + 1), t)
<1> DEFINE q == SubSeq(t, 1, Len(s) + 1)
<1>1. Len(s) \in Nat /\ Len(t) \in Nat
  BY LenProperties
<1>2. Len(s) <= Len(t) /\ \A i \in 1..Len(s) : s[i] = t[i]
  BY PrefixIs
<1>3. Len(s) < Len(t)
  BY <1>1, <1>2, PrefixWhole
<1>4. s = SubSeq(t, 1, Len(s))
  <2>1. SubSeq(s, 1, Len(s)) = s
    BY SubSeqFull
  <2>2. QED  BY <2>1 DEF IsPrefix
<1>5. q \in Seq(S) /\ Len(q) = Len(s) + 1 /\ \A i \in 1..Len(s) + 1 : q[i] = t[i]
  <2>1. 0 \in Nat /\ Len(s) + 1 \in Nat /\ Len(s) + 1 <= Len(t) /\ 0 <= Len(s) + 1
        /\ (Len(s) + 1) - 0 = Len(s) + 1
    BY <1>1, <1>3
  <2>2. /\ SubSeq(t, 0 + 1, Len(s) + 1) \in Seq(S)
        /\ Len(SubSeq(t, 0 + 1, Len(s) + 1)) = (Len(s) + 1) - 0
        /\ \A i \in 1..(Len(s) + 1) - 0 : SubSeq(t, 0 + 1, Len(s) + 1)[i] = t[0 + i]
    BY <1>1, <2>1, Piece
  <2>3. QED  BY <1>1, <2>1, <2>2
<1> HIDE DEF q
<1>6. Len(s) <= Len(q) /\ \A i \in 1..Len(s) : s[i] = q[i]
  BY <1>1, <1>2, <1>5
<1>7. Len(q) <= Len(t) /\ \A i \in 1..Len(q) : q[i] = t[i]
  BY <1>1, <1>3, <1>5
<1>8. IsPrefix(s, q) /\ IsPrefix(q, t)
  BY <1>5, <1>6, <1>7, PrefixIs
<1>9. QED  BY <1>3, <1>4, <1>5, <1>8 DEF q
=============================================================================
