---- MODULE SequenceLemmas ----
(***************************************************************************)
(* Facts the proofs of several components need: induction over the naturals, *)
(* concatenation, what FlattenSeq does, and what a batch adds to a log.      *)
(***************************************************************************)
EXTENDS Integers, SequencesExt, Batches, TLAPS, WellFoundedInduction, SequenceTheorems

\* A set of naturals with 0 and the successor of each of its members has them
\* all: a least natural outside it would be the successor of one inside.
LEMMA Induction ==
    ASSUME NEW S, 0 \in S, \A n \in Nat : n \in S => n + 1 \in S
    PROVE  Nat \subseteq S
<1> DEFINE T == {n \in Nat : n \notin S}
           R == OpToRel(<, Nat)
<1> SUFFICES ASSUME T # {} PROVE FALSE
  OBVIOUS
<1>1. T \subseteq Nat
  OBVIOUS
<1>2. IsWellFoundedOn(R, Nat)
  BY NatLessThanWellFounded, Zenon
<1>3. \A x, y \in Nat : x < y => <<x, y>> \in R
  BY Zenon DEF OpToRel
<1>4. PICK x \in T : \A y \in T : ~ (<<y, x>> \in R)
  <2> HIDE DEF T, R
  <2> QED
    BY <1>1, <1>2, WFMin, Zenon
<1> HIDE DEF R
<1>5. \A y \in T : ~(y < x)
  BY <1>1, <1>3, <1>4
<1>6. x \in Nat /\ x \notin S /\ x # 0 /\ x - 1 \in Nat
  OBVIOUS
<1>7. x - 1 \in S
  BY <1>5, <1>6
<1>8. QED
  BY <1>6, <1>7

\* f starts with b, and its n steps are those of the function g.
Iterates(f, n, b, g) ==
    /\ f = [i \in 0 .. n |-> f[i]]
    /\ f[0] = b
    /\ \A i \in 1 .. n : f[i] = g[<<i, f[i - 1]>>]

\* Every function can be iterated any number of times.
LEMMA IterationExists ==
    ASSUME NEW n \in Nat, NEW b, NEW g
    PROVE  \E f : Iterates(f, n, b, g)
<1> DEFINE S == {m \in Nat : \E f : Iterates(f, m, b, g)}
<1>1. 0 \in S
  <2>1. Iterates([i \in 0 .. 0 |-> b], 0, b, g)
    BY DEF Iterates
  <2>2. QED
    BY <2>1
<1>2. ASSUME NEW m \in Nat, m \in S PROVE m + 1 \in S
  <2>1. PICK f : Iterates(f, m, b, g)
    BY <1>2
  <2> DEFINE h == [i \in 0 .. m + 1 |-> IF i = m + 1 THEN g[<<m + 1, f[m]>>] ELSE f[i]]
  <2>2. h = [i \in 0 .. m + 1 |-> h[i]] /\ h[0] = b
    BY <2>1 DEF Iterates
  <2>3. ASSUME NEW i \in 1 .. m + 1 PROVE h[i] = g[<<i, h[i - 1]>>]
    <3>1. h[i - 1] = f[i - 1]
      OBVIOUS
    <3>2. CASE i = m + 1
      BY <3>1, <3>2
    <3>3. CASE i # m + 1
      <4>1. i \in 1 .. m /\ h[i] = f[i]
        BY <3>3
      <4>2. QED
        BY <2>1, <3>1, <4>1 DEF Iterates
    <3>4. QED
      BY <3>2, <3>3
  <2>4. Iterates(h, m + 1, b, g)
    <3> HIDE DEF h
    <3> QED
      BY <2>2, <2>3 DEF Iterates
  <2>5. QED
    BY <2>4
<1>3. Nat \subseteq S
  <2> HIDE DEF S
  <2> QED
    BY <1>1, <1>2, Induction
<1>4. QED
  BY <1>3

\* Two functions that start alike and stay alike with every step are alike.
LEMMA IterationsAgree ==
    ASSUME NEW n \in Nat, NEW f, NEW h, f[0] = h[0],
           \A i \in 1 .. n : f[i - 1] = h[i - 1] => f[i] = h[i]
    PROVE  \A i \in 0 .. n : f[i] = h[i]
<1> DEFINE S == {m \in Nat : m <= n => f[m] = h[m]}
<1>1. 0 \in S
  OBVIOUS
<1>2. ASSUME NEW m \in Nat, m \in S PROVE m + 1 \in S
  <2>1. CASE m + 1 <= n
    <3>1. m + 1 \in 1 .. n /\ (m + 1) - 1 = m /\ f[m] = h[m]
      BY <1>2, <2>1
    <3>2. QED
      BY <3>1
  <2>2. QED
    BY <2>1
<1>3. Nat \subseteq S
  <2> HIDE DEF S
  <2> QED
    BY <1>1, <1>2, Induction
<1>4. QED
  BY <1>3

\* Whatever holds at the start and is kept by every step holds all along.
LEMMA IterationKeeps ==
    ASSUME NEW n \in Nat, NEW f, NEW P, f[0] \in P,
           \A i \in 1 .. n : f[i - 1] \in P => f[i] \in P
    PROVE  \A i \in 0 .. n : f[i] \in P
<1> DEFINE S == {m \in Nat : m <= n => f[m] \in P}
<1>1. 0 \in S
  OBVIOUS
<1>2. ASSUME NEW m \in Nat, m \in S PROVE m + 1 \in S
  <2>1. CASE m + 1 <= n
    <3>1. m + 1 \in 1 .. n /\ (m + 1) - 1 = m /\ f[m] \in P
      BY <1>2, <2>1
    <3>2. QED
      BY <3>1
  <2>2. QED
    BY <2>1
<1>3. Nat \subseteq S
  <2> HIDE DEF S
  <2> QED
    BY <1>1, <1>2, Induction
<1>4. QED
  BY <1>3

---------------------------------------------------------------------------
\* Concatenation.

\* A concatenation: its type, its length and its elements.
LEMMA ConcatParts ==
    ASSUME NEW S, NEW c \in Seq(S), NEW d \in Seq(S)
    PROVE  /\ c \o d \in Seq(S) /\ Len(c \o d) = Len(c) + Len(d)
           /\ \A i \in 1 .. Len(c) : (c \o d)[i] = c[i]
           /\ \A i \in 1 .. Len(d) : (c \o d)[Len(c) + i] = d[i]
BY LenProperties, ConcatProperties

\* Appending to the second part of a concatenation.
LEMMA ConcatAppend ==
    ASSUME NEW S, NEW c \in Seq(S), NEW d \in Seq(S), NEW m \in S
    PROVE  c \o Append(d, m) = Append(c \o d, m)
<1>1. Append(d, m) = d \o <<m>> /\ <<m>> \in Seq(S) /\ c \o d \in Seq(S)
  BY AppendIsConcat, ConcatParts
<1>2. Append(c \o d, m) = (c \o d) \o <<m>>
  BY <1>1, AppendIsConcat
<1>3. (c \o d) \o <<m>> = c \o (d \o <<m>>)
  BY <1>1, ConcatAssociative
<1>4. QED
  BY <1>1, <1>2, <1>3

\* Three parts.
LEMMA ConcatThree ==
    \A X : \A c, d, e \in Seq(X) : (c \o d) \o e = c \o (d \o e)
BY ConcatAssociative

\* A concatenation without the first of its two parts.
LEMMA ConcatDrop ==
    ASSUME NEW S, NEW c \in Seq(S), NEW d \in Seq(S)
    PROVE  /\ SubSeq(c \o d, Len(c) + 1, Len(c) + Len(d)) = d
           /\ SubSeq(c \o d, 1, Len(c)) = c
<1>1. /\ c \o d \in Seq(S) /\ Len(c \o d) = Len(c) + Len(d)
      /\ Len(c) \in Nat /\ Len(d) \in Nat
      /\ \A i \in 1 .. Len(c) : (c \o d)[i] = c[i]
      /\ \A i \in 1 .. Len(d) : (c \o d)[Len(c) + i] = d[i]
  BY ConcatParts, LenProperties
<1> DEFINE e == c \o d
           r == SubSeq(e, Len(c) + 1, Len(c) + Len(d))
           f == SubSeq(e, 1, Len(c))
<1> HIDE DEF e
<1>2. r \in Seq(S) /\ Len(r) = Len(d) /\ \A i \in 1 .. Len(d) : r[i] = d[i]
  BY <1>1 DEF e
<1>3. f \in Seq(S) /\ Len(f) = Len(c) /\ \A i \in 1 .. Len(c) : f[i] = c[i]
  BY <1>1 DEF e
<1> HIDE DEF r, f
<1>4. r = d /\ f = c
  BY <1>2, <1>3, SeqEqual
<1>5. QED
  BY <1>4 DEF r, f, e

\* The same first part leaves the same second part.
LEMMA ConcatCancel ==
    ASSUME NEW S, NEW c \in Seq(S), NEW d \in Seq(S), NEW e \in Seq(S), c \o d = c \o e
    PROVE  d = e
<1>1. Len(c \o d) = Len(c) + Len(d) /\ Len(c \o e) = Len(c) + Len(e)
  BY ConcatParts
<1>2. Len(d) = Len(e)
  BY <1>1, LenProperties
<1>3. /\ SubSeq(c \o d, Len(c) + 1, Len(c) + Len(d)) = d
      /\ SubSeq(c \o e, Len(c) + 1, Len(c) + Len(e)) = e
  BY ConcatDrop
<1>4. QED
  BY <1>2, <1>3

\* One element and the others.
StartsWith(r, c, q) ==
    Len(r) = Len(q) + 1 /\ r[1] = c /\ \A k \in 1 .. Len(q) : r[1 + k] = q[k]

\* A sequence that starts with c and goes on as q is <<c>> \o q.
LEMMA FirstAndRest ==
    ASSUME NEW S, NEW c \in S, NEW r \in Seq(S), NEW q \in Seq(S),
           StartsWith(r, c, q)
    PROVE  r = <<c>> \o q
<1>1. <<c>> \in Seq(S) /\ Len(<<c>>) = 1 /\ <<c>>[1] = c
  OBVIOUS
<1>2. /\ <<c>> \o q \in Seq(S) /\ Len(<<c>> \o q) = Len(<<c>>) + Len(q)
      /\ \A i \in 1 .. Len(<<c>>) : (<<c>> \o q)[i] = <<c>>[i]
      /\ \A i \in 1 .. Len(q) : (<<c>> \o q)[Len(<<c>>) + i] = q[i]
  BY <1>1, ConcatParts
<1> DEFINE e == <<c>> \o q
<1>3. StartsWith(e, c, q) /\ e \in Seq(S)
  BY <1>1, <1>2 DEF StartsWith
<1> HIDE DEF e
<1>4. Len(q) \in Nat
  BY LenProperties
<1>5. ASSUME NEW k \in 1 .. Len(r) PROVE r[k] = e[k]
  <2>1. CASE k = 1
    BY <1>3, <2>1 DEF StartsWith
  <2>2. CASE k # 1
    <3>1. k - 1 \in 1 .. Len(q) /\ 1 + (k - 1) = k
      BY <1>4, <2>2 DEF StartsWith
    <3>2. r[1 + (k - 1)] = q[k - 1] /\ e[1 + (k - 1)] = q[k - 1]
      BY <1>3, <3>1 DEF StartsWith
    <3>3. QED
      BY <3>1, <3>2
  <2>3. QED
    BY <2>1, <2>2
<1>6. Len(r) = Len(e)
  BY <1>3 DEF StartsWith
<1>7. r = e
  BY <1>3, <1>5, <1>6, SeqEqual
<1>8. QED
  BY <1>7 DEF e

\* A sequence cut in two.
LEMMA CutAndJoin ==
    ASSUME NEW S, NEW c \in Seq(S), NEW n \in 0 .. Len(c)
    PROVE  /\ SubSeq(c, 1, n) \in Seq(S) /\ SubSeq(c, n + 1, Len(c)) \in Seq(S)
           /\ SubSeq(c, 1, n) \o SubSeq(c, n + 1, Len(c)) = c
<1>1. Len(c) \in Nat /\ \A i \in 1 .. Len(c) : c[i] \in S
  BY LenProperties, ElementOfSeq
<1>2. SubSeq(c, 1, n) \in Seq(S) /\ SubSeq(c, n + 1, Len(c)) \in Seq(S)
  BY <1>1
<1>3. 1 \in 1 .. Len(c) + 1 /\ n \in 1 - 1 .. Len(c) /\ Len(c) \in n .. Len(c)
  BY <1>1
<1>4. SubSeq(c, 1, n) \o SubSeq(c, n + 1, Len(c)) = SubSeq(c, 1, Len(c))
  BY <1>3, ConcatAdjacentSubSeq
<1>5. QED
  BY <1>2, <1>4, SubSeqFull

\* The head of the second part moves to the end of the first.
LEMMA HeadMoves ==
    ASSUME NEW S, NEW c \in Seq(S), NEW d \in Seq(S), d # <<>>
    PROVE  /\ Head(d) \in S /\ Tail(d) \in Seq(S) /\ Append(c, Head(d)) \in Seq(S)
           /\ Append(c, Head(d)) \o Tail(d) = c \o d
<1>1. /\ Head(d) \in S /\ Tail(d) \in Seq(S) /\ Append(c, Head(d)) \in Seq(S)
      /\ <<Head(d)>> \in Seq(S)
  OBVIOUS
<1>2. Append(c, Head(d)) = c \o <<Head(d)>>
  BY <1>1, AppendIsConcat
<1>3. StartsWith(d, Head(d), Tail(d))
  BY <1>1 DEF StartsWith
<1>4. d = <<Head(d)>> \o Tail(d)
  BY <1>1, <1>3, FirstAndRest
<1>5. (c \o <<Head(d)>>) \o Tail(d) = c \o (<<Head(d)>> \o Tail(d))
  BY <1>1, ConcatThree
<1>6. QED
  BY <1>1, <1>2, <1>4, <1>5

---------------------------------------------------------------------------
\* FlattenSeq.

IsFlattening(f, ss) ==
    f = [n \in 1 .. Len(ss) |-> IF n = 1 THEN ss[n] ELSE f[n - 1] \o ss[n]]

\* There is one for every sequence of sequences.
LEMMA FlatteningExists ==
    ASSUME NEW S, NEW ss \in Seq(Seq(S))
    PROVE  \E f : IsFlattening(f, ss)
<1> DEFINE F(f, n) == f = [m \in 1 .. n |-> IF m = 1 THEN ss[m] ELSE f[m - 1] \o ss[m]]
           T == {n \in Nat : \E f : F(f, n)}
<1>1. 0 \in T
  <2>1. F([m \in 1 .. 0 |-> <<>>], 0)
    OBVIOUS
  <2> HIDE DEF F
  <2>2. QED
    BY <2>1
<1>2. ASSUME NEW n \in Nat, n \in T PROVE n + 1 \in T
  <2>1. PICK f : F(f, n)
    <3> HIDE DEF F
    <3> QED
      BY <1>2
  <2> DEFINE last == IF n + 1 = 1 THEN ss[n + 1] ELSE f[n] \o ss[n + 1]
             g == [m \in 1 .. n + 1 |-> IF m = n + 1 THEN last ELSE f[m]]
  <2> HIDE DEF last
  <2>2. \A m \in 1 .. n : f[m] = IF m = 1 THEN ss[m] ELSE f[m - 1] \o ss[m]
    BY <2>1, Zenon
  <2>3. ASSUME NEW m \in 1 .. n + 1
        PROVE  g[m] = IF m = 1 THEN ss[m] ELSE g[m - 1] \o ss[m]
    <3>1. CASE m = n + 1
      <4>1. g[m] = last /\ (n # 0 => g[n] = f[n]) /\ m - 1 = n
        BY <3>1
      <4>2. QED
        BY <3>1, <4>1 DEF last
    <3>2. CASE m # n + 1
      <4>1. m \in 1 .. n /\ g[m] = f[m] /\ (m # 1 => g[m - 1] = f[m - 1])
        BY <3>2
      <4>2. QED
        BY <2>2, <4>1
    <3>3. QED
      BY <3>1, <3>2
  <2>4. F(g, n + 1)
    <3>1. g = [m \in 1 .. n + 1 |-> g[m]]
      OBVIOUS
    <3> HIDE DEF g
    <3>2. QED
      BY <2>3, <3>1
  <2> HIDE DEF F, g
  <2>5. QED
    BY <2>4
<1>3. Nat \subseteq T
  <2> HIDE DEF T
  <2> QED
    BY <1>1, <1>2, Induction
<1>4. Len(ss) \in T
  BY <1>3, LenProperties
<1> HIDE DEF F
<1>5. PICK f : F(f, Len(ss))
  BY <1>4
<1>6. IsFlattening(f, ss)
  BY <1>5, Zenon DEF F, IsFlattening
<1>7. QED
  BY <1>6

\* Its values.
LEMMA FlatteningSteps ==
    ASSUME NEW ss, Len(ss) \in Nat, NEW f, IsFlattening(f, ss)
    PROVE  /\ Len(ss) > 0 => f[1] = ss[1]
           /\ \A n \in 2 .. Len(ss) : f[n] = f[n - 1] \o ss[n]
<1>1. \A n \in 1 .. Len(ss) : f[n] = IF n = 1 THEN ss[n] ELSE f[n - 1] \o ss[n]
  BY Zenon DEF IsFlattening
<1>2. ASSUME Len(ss) > 0 PROVE f[1] = ss[1]
  <2>1. 1 \in 1 .. Len(ss)
    BY <1>2
  <2>2. QED
    BY <1>1, <2>1, Zenon
<1>3. ASSUME NEW n \in 2 .. Len(ss) PROVE f[n] = f[n - 1] \o ss[n]
  <2>1. n \in 1 .. Len(ss) /\ n # 1
    OBVIOUS
  <2>2. QED
    BY <1>1, <2>1, Zenon
<1>4. QED
  BY <1>2, <1>3

\* The steps of a flattening are sequences over the same set.
LEMMA FlatteningType ==
    ASSUME NEW S, NEW ss \in Seq(Seq(S)), NEW f, IsFlattening(f, ss)
    PROVE  \A n \in 1 .. Len(ss) : f[n] \in Seq(S)
<1>1. Len(ss) \in Nat
  BY LenProperties
<1>2. \A n \in 1 .. Len(ss) : ss[n] \in Seq(S)
  BY ElementOfSeq
<1>3. /\ Len(ss) > 0 => f[1] = ss[1]
      /\ \A n \in 2 .. Len(ss) : f[n] = f[n - 1] \o ss[n]
  BY <1>1, FlatteningSteps
<1> DEFINE T == {n \in Nat : n + 1 <= Len(ss) => f[n + 1] \in Seq(S)}
<1>4. 0 \in T
  BY <1>1, <1>2, <1>3
<1>5. ASSUME NEW n \in Nat, n \in T PROVE n + 1 \in T
  <2> SUFFICES ASSUME n + 2 <= Len(ss) PROVE f[n + 2] \in Seq(S)
    OBVIOUS
  <2>1. n + 2 \in 2 .. Len(ss) /\ n + 2 \in 1 .. Len(ss) /\ (n + 2) - 1 = n + 1
    BY <1>1
  <2>2. f[n + 1] \in Seq(S)
    BY <1>5, <2>1
  <2>3. ss[n + 2] \in Seq(S) /\ f[n + 2] = f[n + 1] \o ss[n + 2]
    BY <1>2, <1>3, <2>1
  <2>4. QED
    BY <2>2, <2>3, ConcatParts
<1>6. Nat \subseteq T
  <2> HIDE DEF T
  <2> QED
    BY <1>4, <1>5, Induction
<1>7. ASSUME NEW n \in 1 .. Len(ss) PROVE f[n] \in Seq(S)
  <2>1. n - 1 \in Nat /\ (n - 1) + 1 = n /\ n <= Len(ss)
    BY <1>1
  <2>2. n - 1 \in T
    <3> HIDE DEF T
    <3> QED
      BY <1>6, <2>1
  <2>3. QED
    BY <2>1, <2>2
<1>8. QED
  BY <1>7

\* FlattenSeq of a list that is not empty is the last step of a flattening.
LEMMA FlattenIs ==
    ASSUME NEW S, NEW ss \in Seq(Seq(S)), ss # <<>>
    PROVE  \E f : IsFlattening(f, ss) /\ FlattenSeq(ss) = f[Len(ss)]
<1> DEFINE f == CHOOSE f : IsFlattening(f, ss)
<1>1. IsFlattening(f, ss)
  BY FlatteningExists, Zenon
<1>2. Len(ss) # 0
  BY EmptySeq, LenProperties
<1>3. FlattenSeq(ss) = f[Len(ss)]
  BY <1>2, Zenon DEF FlattenSeq, IsFlattening
<1> HIDE DEF f
<1>4. QED
  BY <1>1, <1>3

\* Two flattenings agree as far as the sequences do.
LEMMA FlatteningsAgree ==
    ASSUME NEW ss, NEW tt, NEW f, NEW g,
           Len(ss) \in Nat, Len(tt) \in Nat, Len(ss) <= Len(tt),
           \A n \in 1 .. Len(ss) : ss[n] = tt[n],
           IsFlattening(f, ss), IsFlattening(g, tt)
    PROVE  \A n \in 1 .. Len(ss) : f[n] = g[n]
<1>1. /\ Len(ss) > 0 => f[1] = ss[1]
      /\ \A n \in 2 .. Len(ss) : f[n] = f[n - 1] \o ss[n]
  BY FlatteningSteps
<1>2. /\ Len(tt) > 0 => g[1] = tt[1]
      /\ \A n \in 2 .. Len(tt) : g[n] = g[n - 1] \o tt[n]
  BY FlatteningSteps
<1> DEFINE T == {n \in Nat : n + 1 <= Len(ss) => f[n + 1] = g[n + 1]}
<1>4. 0 \in T
  BY <1>1, <1>2
<1>5. ASSUME NEW n \in Nat, n \in T PROVE n + 1 \in T
  <2> SUFFICES ASSUME n + 2 <= Len(ss) PROVE f[n + 2] = g[n + 2]
    OBVIOUS
  <2>1. /\ n + 2 \in 2 .. Len(ss) /\ n + 2 \in 2 .. Len(tt)
        /\ n + 2 \in 1 .. Len(ss) /\ (n + 2) - 1 = n + 1
    OBVIOUS
  <2>2. f[n + 1] = g[n + 1]
    BY <1>5, <2>1
  <2>3. f[n + 2] = f[n + 1] \o ss[n + 2] /\ g[n + 2] = g[n + 1] \o tt[n + 2]
    BY <1>1, <1>2, <2>1
  <2>4. ss[n + 2] = tt[n + 2]
    BY <2>1
  <2>5. QED
    BY <2>2, <2>3, <2>4
<1>6. Nat \subseteq T
  <2> HIDE DEF T
  <2> QED
    BY <1>4, <1>5, Induction
<1>7. ASSUME NEW n \in 1 .. Len(ss) PROVE f[n] = g[n]
  <2>1. n - 1 \in T /\ (n - 1) + 1 = n
    <3>1. n - 1 \in Nat /\ (n - 1) + 1 = n
      OBVIOUS
    <3> HIDE DEF T
    <3>2. QED
      BY <1>6, <3>1
  <2>2. QED
    BY <2>1
<1>8. QED
  BY <1>7

\* One sequence more.
LEMMA FlatteningsGrow ==
    ASSUME NEW ss, NEW tt, NEW f, NEW g,
           Len(ss) \in Nat \ {0}, Len(tt) = Len(ss) + 1,
           \A n \in 1 .. Len(ss) : ss[n] = tt[n],
           IsFlattening(f, ss), IsFlattening(g, tt)
    PROVE  g[Len(tt)] = f[Len(ss)] \o tt[Len(ss) + 1]
<1>1. /\ Len(ss) \in Nat /\ Len(tt) \in Nat /\ Len(ss) <= Len(tt)
      /\ Len(ss) \in 1 .. Len(ss) /\ Len(ss) + 1 \in 2 .. Len(tt)
  OBVIOUS
<1>2. \A n \in 1 .. Len(ss) : f[n] = g[n]
  BY <1>1, FlatteningsAgree
<1>3. \A n \in 2 .. Len(tt) : g[n] = g[n - 1] \o tt[n]
  BY <1>1, FlatteningSteps
<1>4. g[Len(ss) + 1] = g[(Len(ss) + 1) - 1] \o tt[Len(ss) + 1]
  BY <1>1, <1>3
<1>5. (Len(ss) + 1) - 1 = Len(ss)
  BY <1>1
<1>6. QED
  BY <1>1, <1>2, <1>4, <1>5

\* Flattening one part more appends that part.
LEMMA FlattenGrows ==
    ASSUME NEW S, NEW ss \in Seq(Seq(S)), NEW tt \in Seq(Seq(S)), ss # <<>>,
           Len(tt) = Len(ss) + 1, \A n \in 1 .. Len(ss) : ss[n] = tt[n]
    PROVE  FlattenSeq(tt) = FlattenSeq(ss) \o tt[Len(ss) + 1]
<1>1. Len(ss) \in Nat \ {0} /\ tt # <<>>
  BY EmptySeq, LenProperties
<1>2. PICK f : IsFlattening(f, ss) /\ FlattenSeq(ss) = f[Len(ss)]
  BY FlattenIs
<1>3. PICK g : IsFlattening(g, tt) /\ FlattenSeq(tt) = g[Len(tt)]
  BY <1>1, FlattenIs
<1>4. g[Len(tt)] = f[Len(ss)] \o tt[Len(ss) + 1]
  BY <1>1, <1>2, <1>3, FlatteningsGrow
<1>5. QED
  BY <1>2, <1>3, <1>4

\* FlattenSeq of nothing, and of one sequence more.
LEMMA FlattenAppend ==
    /\ FlattenSeq(<<>>) = <<>>
    /\ \A S : \A ss \in Seq(Seq(S)) : \A s \in Seq(S) :
           /\ FlattenSeq(ss) \in Seq(S)
           /\ FlattenSeq(Append(ss, s)) = FlattenSeq(ss) \o s
<1>1. FlattenSeq(<<>>) = <<>>
  BY DEF FlattenSeq
<1>2. ASSUME NEW S, NEW ss \in Seq(Seq(S)) PROVE FlattenSeq(ss) \in Seq(S)
  <2>1. CASE ss = <<>>
    BY <1>1, <2>1, EmptySeq
  <2>2. CASE ss # <<>>
    <3>1. PICK f : IsFlattening(f, ss) /\ FlattenSeq(ss) = f[Len(ss)]
      BY <2>2, FlattenIs
    <3>2. Len(ss) \in 1 .. Len(ss)
      BY <2>2, EmptySeq, LenProperties
    <3>3. \A n \in 1 .. Len(ss) : f[n] \in Seq(S)
      BY <3>1, FlatteningType, Zenon
    <3>4. QED
      BY <3>1, <3>2, <3>3
  <2>3. QED
    BY <2>1, <2>2
<1>3. ASSUME NEW S, NEW s \in Seq(S) PROVE FlattenSeq(<<s>>) = s
  <2> DEFINE tt == <<s>>
  <2>1. tt \in Seq(Seq(S)) /\ tt # <<>> /\ Len(tt) = 1 /\ tt[1] = s
    OBVIOUS
  <2> HIDE DEF tt
  <2>2. PICK g : IsFlattening(g, tt) /\ FlattenSeq(tt) = g[Len(tt)]
    BY <2>1, FlattenIs
  <2>3. Len(tt) \in Nat /\ Len(tt) > 0 /\ IsFlattening(g, tt)
    BY <2>1, <2>2
  <2>5. g[1] = tt[1]
    BY <2>3, FlatteningSteps
  <2>4. QED
    BY <2>1, <2>2, <2>5 DEF tt
<1>4. ASSUME NEW S, NEW ss \in Seq(Seq(S)), NEW s \in Seq(S)
      PROVE  FlattenSeq(Append(ss, s)) = FlattenSeq(ss) \o s
  <2>1. CASE ss = <<>>
    <3>1. Append(ss, s) = <<s>> /\ FlattenSeq(ss) \o s = s
      BY <1>1, <2>1, ConcatEmptySeq
    <3>2. QED
      BY <1>3, <3>1
  <2>2. CASE ss # <<>>
    <3>1. /\ Append(ss, s) \in Seq(Seq(S)) /\ Len(Append(ss, s)) = Len(ss) + 1
          /\ Append(ss, s)[Len(ss) + 1] = s
          /\ \A n \in 1 .. Len(ss) : ss[n] = Append(ss, s)[n]
      BY AppendProperties
    <3>2. QED
      BY <2>2, <3>1, FlattenGrows
  <2>3. QED
    BY <2>1, <2>2
<1>5. QED
  BY <1>1, <1>2, <1>4

\* The first n + 1 elements of a sequence.
LEMMA PrefixGrows ==
    ASSUME NEW S, NEW c \in Seq(S), NEW n \in Nat, n + 1 <= Len(c)
    PROVE  /\ SubSeq(c, 1, n) \in Seq(S) /\ c[n + 1] \in S
           /\ SubSeq(c, 1, n + 1) = Append(SubSeq(c, 1, n), c[n + 1])
<1>1. Len(c) \in Nat /\ \A i \in 1 .. Len(c) : c[i] \in S
  BY LenProperties, ElementOfSeq
<1>2. SubSeq(c, 1, n) \in Seq(S) /\ c[n + 1] \in S
  BY <1>1
<1> DEFINE a == SubSeq(c, 1, n)
           b == SubSeq(c, 1, n + 1)
<1>3. a \in Seq(S) /\ Len(a) = n /\ \A i \in 1 .. n : a[i] = c[i]
  BY <1>1
<1>4. b \in Seq(S) /\ Len(b) = n + 1 /\ \A i \in 1 .. n + 1 : b[i] = c[i]
  BY <1>1
<1> HIDE DEF a, b
<1>5. /\ Append(a, c[n + 1]) \in Seq(S) /\ Len(Append(a, c[n + 1])) = n + 1
      /\ \A i \in 1 .. n + 1 : Append(a, c[n + 1])[i] = c[i]
  BY <1>2, <1>3
<1>6. b = Append(a, c[n + 1])
  BY <1>4, <1>5, SeqEqual
<1>7. QED
  BY <1>2, <1>6 DEF a, b

\* What flattening does to an empty list and to one part more.  V is Seq(S).
FlattensBySteps(S, V) ==
    /\ FlattenSeq(<<>>) = <<>>
    /\ \A s \in V : s \in Seq(S)
    /\ \A c \in Seq(V) : \A s \in V :
           /\ FlattenSeq(c) \in Seq(S)
           /\ FlattenSeq(Append(c, s)) = FlattenSeq(c) \o s

\* Then flattening two lists after one another concatenates the results.
LEMMA FlattenConcatIn ==
    ASSUME NEW S, NEW V, NEW ss \in Seq(V), NEW tt \in Seq(V),
           FlattensBySteps(S, V)
    PROVE  FlattenSeq(ss \o tt) = FlattenSeq(ss) \o FlattenSeq(tt)
<1>0. \A a, b, c \in Seq(S) : (a \o b) \o c = a \o (b \o c)
  BY ConcatThree
<1>1. \A c, d \in Seq(V) : \A m \in V :
          c \o Append(d, m) = Append(c \o d, m) /\ c \o d \in Seq(V)
  <2>1. \A c, d \in Seq(V) : \A m \in V : c \o Append(d, m) = Append(c \o d, m)
    BY ConcatAppend
  <2>2. \A c, d \in Seq(V) : c \o d \in Seq(V)
    BY ConcatParts
  <2>3. QED
    BY <2>1, <2>2
<1> DEFINE part(n) == SubSeq(tt, 1, n)
           Is(n)   == FlattenSeq(ss \o part(n)) = FlattenSeq(ss) \o FlattenSeq(part(n))
           T       == {n \in Nat : n <= Len(tt) => Is(n)}
<1>2. Len(tt) \in Nat /\ \A n \in Nat : n <= Len(tt) => part(n) \in Seq(V)
  BY LenProperties
<1>3. 0 \in T
  <2>1. part(0) = <<>>
    BY <1>2
  <2> HIDE DEF part
  <2>2. ss \o part(0) = ss /\ FlattenSeq(part(0)) = <<>>
    BY <2>1, ConcatEmptySeq DEF FlattensBySteps
  <2>3. FlattenSeq(ss) \in Seq(S)
    BY DEF FlattensBySteps
  <2>6. FlattenSeq(ss) \o <<>> = FlattenSeq(ss)
    BY <2>3, ConcatEmptySeq
  <2>4. QED
    BY <2>2, <2>6
<1>4. ASSUME NEW n \in Nat, n \in T PROVE n + 1 \in T
  <2> SUFFICES ASSUME n + 1 <= Len(tt) PROVE Is(n + 1)
    OBVIOUS
  <2> DEFINE s == tt[n + 1]
  <2>1. part(n) \in Seq(V) /\ s \in V /\ part(n + 1) = Append(part(n), s)
    BY PrefixGrows
  <2>2. FlattenSeq(ss \o part(n)) = FlattenSeq(ss) \o FlattenSeq(part(n))
    BY <1>2, <1>4
  <2> HIDE DEF part, s
  <2>3. ss \o part(n + 1) = Append(ss \o part(n), s) /\ ss \o part(n) \in Seq(V)
    <3>1. ss \o part(n) \in Seq(V)
      BY <1>1, <2>1
    <3>2. \A d \in Seq(V) : \A m \in V : ss \o Append(d, m) = Append(ss \o d, m)
      BY <1>1
    <3>3. ss \o Append(part(n), s) = Append(ss \o part(n), s)
      BY <2>1, <3>2
    <3>4. QED
      BY <2>1, <3>1, <3>3, Zenon
  <2>4. FlattenSeq(ss \o part(n + 1)) = (FlattenSeq(ss) \o FlattenSeq(part(n))) \o s
    BY <2>1, <2>2, <2>3 DEF FlattensBySteps
  <2>5. FlattenSeq(part(n + 1)) = FlattenSeq(part(n)) \o s
    BY <2>1 DEF FlattensBySteps
  <2>6. /\ FlattenSeq(ss) \in Seq(S) /\ FlattenSeq(part(n)) \in Seq(S) /\ s \in Seq(S)
    BY <2>1 DEF FlattensBySteps
  <2>7. (FlattenSeq(ss) \o FlattenSeq(part(n))) \o s = FlattenSeq(ss) \o (FlattenSeq(part(n)) \o s)
    BY <1>0, <2>6, Zenon
  <2>8. QED
    BY <2>4, <2>5, <2>7
<1>5. Nat \subseteq T
  <2> HIDE DEF T
  <2> QED
    BY <1>3, <1>4, Induction
<1>6. part(Len(tt)) = tt /\ Is(Len(tt))
  <2>1. part(Len(tt)) = tt
    BY SubSeqFull
  <2> HIDE DEF Is, part
  <2>2. Is(Len(tt))
    BY <1>2, <1>5
  <2>3. QED
    BY <2>1, <2>2
<1> HIDE DEF part
<1>7. QED
  BY <1>6

\* Flattening two lists after one another concatenates the results.  V is
\* whatever name the caller has for Seq(S).
LEMMA FlattenConcat ==
    ASSUME NEW S, NEW V, V = Seq(S), NEW ss \in Seq(V), NEW tt \in Seq(V)
    PROVE  FlattenSeq(ss \o tt) = FlattenSeq(ss) \o FlattenSeq(tt)
<1>1. FlattensBySteps(S, V)
  BY FlattenAppend, Zenon DEF FlattensBySteps
<1>2. QED
  BY <1>1, FlattenConcatIn

---------------------------------------------------------------------------
\* What a batch adds to a log, header by header (Batches).

\* f is the run of a save over b: what its first n headers add, for every n.
IsRun(f, s, b) ==
    f = [n \in 0 .. Len(b) |->
             IF n = 0 THEN <<>> ELSE WithNew(s, f[n - 1], b[n])]

\* A run starts with nothing and goes on header by header.
LEMMA RunStep ==
    ASSUME NEW f, NEW s, NEW b, Len(b) \in Nat, IsRun(f, s, b)
    PROVE  /\ f[0] = <<>>
           /\ \A n \in 1 .. Len(b) : f[n] = WithNew(s, f[n - 1], b[n])
<1>1. \A n \in 0 .. Len(b) :
          f[n] = IF n = 0 THEN <<>> ELSE WithNew(s, f[n - 1], b[n])
  BY Zenon DEF IsRun
<1>2. QED
  BY <1>1

\* There is a run over every batch: one over its first n headers is one step
\* short of one over its first n + 1.
LEMMA RunExists ==
    ASSUME NEW H, NEW s \in Seq(H), NEW b \in Seq(H)
    PROVE  \E f : IsRun(f, s, b)
<1>0. Len(b) \in Nat
  BY LenProperties
<1> DEFINE Runs(f, n) == /\ f = [m \in 0 .. n |-> f[m]]
                         /\ f[0] = <<>>
                         /\ \A m \in 1 .. n : f[m] = WithNew(s, f[m - 1], b[m])
           S == {n \in Nat : n <= Len(b) => \E f : Runs(f, n)}
<1>1. 0 \in S
  <2>1. Runs([m \in 0 .. 0 |-> <<>>], 0)
    OBVIOUS
  <2>2. QED
    BY <2>1
<1>2. \A n \in Nat : n \in S => n + 1 \in S
  <2> SUFFICES ASSUME NEW n \in Nat, n \in S, n + 1 <= Len(b)
               PROVE  \E f : Runs(f, n + 1)
    <3> HIDE DEF Runs
    <3> QED
      OBVIOUS
  <2>1. PICK f : Runs(f, n)
    <3> HIDE DEF Runs
    <3> QED
      BY <1>0
  <2> DEFINE g == [m \in 0 .. n + 1 |->
                       IF m = n + 1 THEN WithNew(s, f[n], b[n + 1]) ELSE f[m]]
  <2>2. g[0] = <<>> /\ g = [m \in 0 .. n + 1 |-> g[m]]
    BY <2>1
  <2>3. ASSUME NEW m \in 1 .. n + 1 PROVE g[m] = WithNew(s, g[m - 1], b[m])
    <3>1. g[m - 1] = f[m - 1]
      OBVIOUS
    <3>2. CASE m = n + 1
      BY <3>1, <3>2
    <3>3. CASE m # n + 1
      <4>1. m \in 1 .. n /\ g[m] = f[m]
        BY <3>3
      <4>2. QED
        BY <2>1, <3>1, <4>1
    <3>4. QED
      BY <3>2, <3>3
  <2>4. QED
    BY <2>2, <2>3
<1>3. Len(b) \in S
  <2> HIDE DEF S
  <2> QED
    BY <1>1, <1>2, Induction, LenProperties
<1>4. PICK f : Runs(f, Len(b))
  BY <1>3
<1>5. ASSUME NEW n \in 0 .. Len(b)
      PROVE  f[n] = IF n = 0 THEN <<>> ELSE WithNew(s, f[n - 1], b[n])
  <2>1. n = 0 \/ n \in 1 .. Len(b)
    BY <1>0
  <2>2. f[0] = <<>> /\ \A m \in 1 .. Len(b) : f[m] = WithNew(s, f[m - 1], b[m])
    BY <1>4
  <2>3. QED
    BY <2>1, <2>2
<1>6. IsRun(f, s, b)
  <2>1. f = [n \in 0 .. Len(b) |-> f[n]]
    BY <1>4
  <2>2. QED
    BY <1>5, <2>1, Zenon DEF IsRun
<1>7. QED
  BY <1>6

\* NewIn is the end of a run.
LEMMA NewInRun ==
    ASSUME NEW H, NEW s \in Seq(H), NEW b \in Seq(H)
    PROVE  \E f : IsRun(f, s, b) /\ NewIn(s, b) = f[Len(b)]
<1> DEFINE f == CHOOSE f : IsRun(f, s, b)
<1>1. IsRun(f, s, b)
  BY RunExists, Zenon
<1>2. NewIn(s, b) = f[Len(b)]
  BY Zenon DEF NewIn, IsRun
<1>3. QED
  <2> HIDE DEF f
  <2> QED
    BY <1>1, <1>2

\* A run over the first k headers of a batch is the start of the one over all.
LEMMA RunsAgree ==
    ASSUME NEW H, NEW s \in Seq(H), NEW b \in Seq(H), NEW k \in 0 .. Len(b),
           NEW f, IsRun(f, s, b), NEW g, IsRun(g, s, SubSeq(b, 1, k))
    PROVE  \A n \in 0 .. k : g[n] = f[n]
<1>1. /\ Len(b) \in Nat /\ Len(SubSeq(b, 1, k)) = k
      /\ \A n \in 1 .. k : SubSeq(b, 1, k)[n] = b[n]
  BY LenProperties
<1>2. /\ f[0] = <<>> /\ g[0] = <<>>
      /\ \A n \in 1 .. k : /\ f[n] = WithNew(s, f[n - 1], b[n])
                           /\ g[n] = WithNew(s, g[n - 1], b[n])
  <2>1. Len(SubSeq(b, 1, k)) \in Nat
    BY <1>1
  <2>2. f[0] = <<>> /\ \A n \in 1 .. Len(b) : f[n] = WithNew(s, f[n - 1], b[n])
    BY <1>1, RunStep
  <2>3. g[0] = <<>> /\ \A n \in 1 .. Len(SubSeq(b, 1, k)) :
                           g[n] = WithNew(s, g[n - 1], SubSeq(b, 1, k)[n])
    <3> DEFINE c == SubSeq(b, 1, k)
    <3>1. Len(c) \in Nat /\ IsRun(g, s, c)
      BY <2>1
    <3> HIDE DEF c
    <3>2. g[0] = <<>> /\ \A n \in 1 .. Len(c) : g[n] = WithNew(s, g[n - 1], c[n])
      BY <3>1, RunStep
    <3>3. QED
      BY <3>2 DEF c
  <2>4. QED
    BY <1>1, <2>2, <2>3
<1> DEFINE S == {n \in Nat : n <= k => g[n] = f[n]}
<1>3. 0 \in S
  BY <1>2
<1>4. \A n \in Nat : n \in S => n + 1 \in S
  BY <1>2
<1>5. Nat \subseteq S
  <2> HIDE DEF S
  <2> QED
    BY <1>3, <1>4, Induction
<1>6. QED
  BY <1>5

\* What the first k headers add is where the run is after k.
LEMMA NewInAlong ==
    ASSUME NEW H, NEW s \in Seq(H), NEW b \in Seq(H), NEW f, IsRun(f, s, b)
    PROVE  /\ \A k \in 0 .. Len(b) : NewIn(s, SubSeq(b, 1, k)) = f[k]
           /\ NewIn(s, b) = f[Len(b)]
<1>1. ASSUME NEW k \in 0 .. Len(b) PROVE NewIn(s, SubSeq(b, 1, k)) = f[k]
  <2>1. SubSeq(b, 1, k) \in Seq(H) /\ Len(SubSeq(b, 1, k)) = k
    BY LenProperties
  <2>2. PICK g : IsRun(g, s, SubSeq(b, 1, k))
                 /\ NewIn(s, SubSeq(b, 1, k)) = g[Len(SubSeq(b, 1, k))]
    BY <2>1, NewInRun
  <2>3. k \in 0 .. k
    BY LenProperties
  <2>4. QED
    BY <2>1, <2>2, <2>3, RunsAgree
<1>2. Len(b) \in 0 .. Len(b) /\ SubSeq(b, 1, Len(b)) = b
  BY LenProperties, SubSeqFull
<1>3. QED
  BY <1>1, <1>2

\* A run over headers consists of sequences of headers.
LEMMA RunType ==
    ASSUME NEW H, NEW s \in Seq(H), NEW b \in Seq(H), NEW f, IsRun(f, s, b)
    PROVE  \A n \in 0 .. Len(b) : f[n] \in Seq(H)
<1>1. /\ Len(b) \in Nat /\ f[0] = <<>>
      /\ \A n \in 1 .. Len(b) : b[n] \in H /\ f[n] = WithNew(s, f[n - 1], b[n])
  BY RunStep, LenProperties
<1> DEFINE S == {n \in Nat : n <= Len(b) => f[n] \in Seq(H)}
<1>2. 0 \in S
  <2>1. f[0] \in Seq(H)
    BY <1>1
  <2>2. QED
    BY <2>1
<1>3. ASSUME NEW n \in Nat, n \in S PROVE n + 1 \in S
  <2> SUFFICES ASSUME n + 1 <= Len(b) PROVE f[n + 1] \in Seq(H)
    OBVIOUS
  <2>1. f[n] \in Seq(H) /\ b[n + 1] \in H /\ f[n + 1] = WithNew(s, f[n], b[n + 1])
    BY <1>1, <1>3
  <2>2. Append(f[n], b[n + 1]) \in Seq(H)
    BY <2>1
  <2>3. QED
    BY <2>1, <2>2, Zenon DEF WithNew
<1>4. Nat \subseteq S
  <2> HIDE DEF S
  <2> QED
    BY <1>2, <1>3, Induction
<1>5. QED
  BY <1>4

\* A run only appends.
LEMMA RunGrows ==
    ASSUME NEW H, NEW s \in Seq(H), NEW b \in Seq(H), NEW f, IsRun(f, s, b)
    PROVE  \A n \in 0 .. Len(b) : \A k \in 0 .. n :
               \E j \in 0 .. Len(f[n]) : f[k] = SubSeq(f[n], 1, j)
<1>1. /\ Len(b) \in Nat
      /\ \A n \in 1 .. Len(b) : b[n] \in H /\ f[n] = WithNew(s, f[n - 1], b[n])
      /\ \A n \in 0 .. Len(b) : f[n] \in Seq(H)
  BY RunStep, RunType, LenProperties
<1> DEFINE Prefix(c, e) == \E j \in 0 .. Len(e) : c = SubSeq(e, 1, j)
           S == {n \in Nat : n <= Len(b) => \A k \in 0 .. n : Prefix(f[k], f[n])}
<1>2. ASSUME NEW c \in Seq(H) PROVE Prefix(c, c)
  BY LenProperties, SubSeqFull
<1>3. ASSUME NEW c \in Seq(H), NEW e \in Seq(H), NEW h \in H, Prefix(c, e)
      PROVE  Prefix(c, Append(e, h))
  <2>1. PICK j \in 0 .. Len(e) : c = SubSeq(e, 1, j)
    BY <1>3
  <2>2. SubSeq(Append(e, h), 1, j) = SubSeq(e, 1, j) /\ j \in 0 .. Len(Append(e, h))
    BY <2>1
  <2>3. QED
    BY <2>1, <2>2
<1> HIDE DEF Prefix
<1>4. 0 \in S
  BY <1>1, <1>2
<1>5. ASSUME NEW n \in Nat, n \in S PROVE n + 1 \in S
  <2> SUFFICES ASSUME n + 1 <= Len(b), NEW k \in 0 .. n + 1
               PROVE  Prefix(f[k], f[n + 1])
    OBVIOUS
  <2>1. /\ f[n + 1] = WithNew(s, f[n], b[n + 1]) /\ f[n + 1] \in Seq(H)
        /\ f[n] \in Seq(H) /\ b[n + 1] \in H /\ f[k] \in Seq(H)
    BY <1>1, <1>5
  <2>2. CASE k = n + 1
    BY <1>2, <2>1, <2>2
  <2>3. CASE k \in 0 .. n
    <3>1. Prefix(f[k], f[n])
      BY <1>1, <1>5, <2>3
    <3>2. Prefix(f[k], Append(f[n], b[n + 1]))
      BY <1>3, <2>1, <3>1
    <3>3. QED
      BY <2>1, <3>1, <3>2, Zenon DEF WithNew
  <2>4. QED
    BY <2>2, <2>3
<1>6. Nat \subseteq S
  <2> HIDE DEF S
  <2> QED
    BY <1>4, <1>5, Induction
<1>7. QED
  BY <1>1, <1>6 DEF Prefix

---------------------------------------------------------------------------
\* The facts the proofs about the store and header synchronisation cite.

\* Header by header: what a longer part of the batch adds is what the shorter
\* part adds, and the next header if it is new.
LEMMA NewInSteps ==
    ASSUME NEW H, NEW s \in Seq(H), NEW b \in Seq(H)
    PROVE  /\ NewIn(s, SubSeq(b, 1, 0)) = <<>>
           /\ \A k \in 1 .. Len(b) :
                  NewIn(s, SubSeq(b, 1, k))
                      = WithNew(s, NewIn(s, SubSeq(b, 1, k - 1)), b[k])
           /\ \A k \in 0 .. Len(b) : NewIn(s, SubSeq(b, 1, k)) \in Seq(H)
           /\ NewIn(s, SubSeq(b, 1, Len(b))) = NewIn(s, b)
<1>1. PICK f : IsRun(f, s, b)
  BY RunExists
<1>2. /\ \A k \in 0 .. Len(b) : NewIn(s, SubSeq(b, 1, k)) = f[k]
      /\ NewIn(s, b) = f[Len(b)]
  BY <1>1, NewInAlong
<1>3. /\ f[0] = <<>> /\ \A k \in 1 .. Len(b) : f[k] = WithNew(s, f[k - 1], b[k])
      /\ \A k \in 0 .. Len(b) : f[k] \in Seq(H)
  BY <1>1, RunStep, RunType, LenProperties
<1>4. /\ 0 \in 0 .. Len(b) /\ Len(b) \in 0 .. Len(b)
      /\ \A k \in 1 .. Len(b) : k \in 0 .. Len(b) /\ k - 1 \in 0 .. Len(b)
  BY LenProperties
<1>5. QED
  BY <1>2, <1>3, <1>4, Zenon

\* What a part of a batch adds is the start of what all of it adds.
LEMMA NewInPrefix ==
    ASSUME NEW H, NEW s \in Seq(H), NEW b \in Seq(H), NEW k \in 0 .. Len(b)
    PROVE  \E j \in 0 .. Len(NewIn(s, b)) :
               NewIn(s, SubSeq(b, 1, k)) = SubSeq(NewIn(s, b), 1, j)
<1>1. PICK f : IsRun(f, s, b)
  BY RunExists
<1>2. NewIn(s, SubSeq(b, 1, k)) = f[k] /\ NewIn(s, b) = f[Len(b)]
  BY <1>1, NewInAlong
<1>3. Len(b) \in 0 .. Len(b) /\ k \in 0 .. Len(b)
  BY LenProperties
<1>4. \E j \in 0 .. Len(f[Len(b)]) : f[k] = SubSeq(f[Len(b)], 1, j)
  BY <1>1, <1>3, RunGrows
<1>5. QED
  BY <1>2, <1>4, Zenon
====
