---- MODULE MessagesProofs ----
EXTENDS Messages, SequenceLemmas

---------------------------------------------------------------------------
\* Where a reader stands.

\* It has read v and s is left.
At(s, v) == [ok |-> TRUE, rest |-> s, read |-> v]

\* It has failed.
Fails(x) == x = Failed(x)

\* s ends before w does.
Short(s, w) == \E u \in Cells : u # <<>> /\ w = s \o u

\* x has read v from s if s starts with w, and has failed if s ends within w.
Reads(x, s, w, v) ==
    /\ \A q \in Cells : s = w \o q => x = At(q, v)
    /\ Short(s, w) => Fails(x)

\* A failure is one, and a reader knows whether it has failed.
LEMMA Outcomes ==
    /\ \A x : Fails(Failed(x)) /\ (Fails(x) => ~x.ok)
    /\ \A s, v : At(s, v).ok /\ At(s, v).rest = s /\ At(s, v).read = v
BY DEF Fails, Failed, At

\* Another record of fields leaves the reader where it is.
LEMMA HoldingOutcome ==
    /\ \A s, v, w : Holding(At(s, v), w) = At(s, w)
    /\ \A x, w : Fails(x) => Fails(Holding(x, w))
<1>1. \A s, v, w : Holding(At(s, v), w) = At(s, w)
  BY DEF Holding, At
<1>2. ASSUME NEW x, NEW w, Fails(x) PROVE Fails(Holding(x, w))
  <2>1. x.ok = FALSE
    BY <1>2 DEF Fails, Failed
  <2>2. QED
    BY <1>2, <2>1 DEF Fails, Failed, Holding
<1>3. QED
  BY <1>1, <1>2

\* Payloads can be put together in any grouping.
LEMMA PartsJoin ==
    /\ \A a, b \in Cells : a \o b \in Cells
    /\ \A a, b, c \in Cells : (a \o b) \o c = a \o (b \o c)
<1> USE DEF Cells
<1>1. \A a, b \in Cells : a \o b \in Cells
  BY ConcatParts
<1>2. ASSUME NEW a \in Cells, NEW b \in Cells, NEW c \in Cells
      PROVE  (a \o b) \o c = a \o (b \o c)
  BY ConcatAssociative
<1>3. QED
  BY <1>1, <1>2

\* Two payloads are the same.
Same(s, w) == s = w

\* Three payloads one after the other, bracketed either way.
LEMMA JoinThree ==
    ASSUME NEW a \in Cells, NEW b \in Cells, NEW c \in Cells
    PROVE  Same((a \o b) \o c, a \o (b \o c))
BY PartsJoin DEF Same

\* Four payloads one after the other, bracketed from either end.
LEMMA JoinFour ==
    ASSUME NEW a \in Cells, NEW b \in Cells, NEW c \in Cells, NEW d \in Cells
    PROVE  Same(((a \o b) \o c) \o d, a \o (b \o (c \o d)))
<1>1. a \o b \in Cells /\ c \o d \in Cells
  BY PartsJoin
<1>2. Same(((a \o b) \o c) \o d, (a \o b) \o (c \o d))
  BY <1>1, JoinThree, Zenon
<1>3. Same((a \o b) \o (c \o d), a \o (b \o (c \o d)))
  BY <1>1, JoinThree, Zenon
<1>4. QED
  BY <1>2, <1>3, Zenon DEF Same

\* Five payloads, as a transaction with witnesses brackets them.
LEMMA JoinFive ==
    ASSUME NEW a \in Cells, NEW b \in Cells, NEW c \in Cells, NEW d \in Cells,
           NEW e \in Cells
    PROVE  Same((((a \o b) \o c) \o d) \o e, a \o (b \o ((c \o d) \o e)))
<1>1. a \o b \in Cells /\ c \o d \in Cells
  BY PartsJoin
<1>2. (c \o d) \o e \in Cells
  BY <1>1, PartsJoin
<1>3. Same((((a \o b) \o c) \o d) \o e, (a \o b) \o (c \o (d \o e)))
  BY <1>1, JoinFour, Zenon
<1>4. Same((c \o d) \o e, c \o (d \o e))
  BY JoinThree, Zenon
<1>5. Same((a \o b) \o ((c \o d) \o e), a \o (b \o ((c \o d) \o e)))
  BY <1>2, JoinThree, Zenon
<1>6. QED
  BY <1>3, <1>4, <1>5, Zenon DEF Same

\* What is short of two parts is short of the first, or the first and short
\* of the second.
LEMMA ShortOfParts ==
    ASSUME NEW s \in Cells, NEW w \in Cells, NEW z \in Cells, Short(s, w \o z)
    PROVE  Short(s, w) \/ \E q \in Cells : s = w \o q /\ Short(q, z)
<1>1. PICK u \in Cells : u # <<>> /\ w \o z = s \o u
  BY DEF Short
<1> DEFINE e == w \o z
<1>2. /\ e \in Seq(Int) /\ Len(e) = Len(w) + Len(z) /\ Len(e) = Len(s) + Len(u)
      /\ \A i \in 1 .. Len(w) : e[i] = w[i]
      /\ \A i \in 1 .. Len(z) : e[Len(w) + i] = z[i]
      /\ \A i \in 1 .. Len(s) : e[i] = s[i]
      /\ \A i \in 1 .. Len(u) : e[Len(s) + i] = u[i]
  <2>1. /\ e \in Seq(Int) /\ Len(e) = Len(w) + Len(z)
        /\ \A i \in 1 .. Len(w) : e[i] = w[i]
        /\ \A i \in 1 .. Len(z) : e[Len(w) + i] = z[i]
    BY ConcatParts DEF Cells
  <2> DEFINE g == s \o u
  <2>2. /\ Len(g) = Len(s) + Len(u)
        /\ \A i \in 1 .. Len(s) : g[i] = s[i]
        /\ \A i \in 1 .. Len(u) : g[Len(s) + i] = u[i]
    BY ConcatParts DEF Cells
  <2>3. e = g
    BY <1>1
  <2> HIDE DEF e, g
  <2>4. QED
    BY <2>1, <2>2, <2>3
<1>3. Len(w) \in Nat /\ Len(z) \in Nat /\ Len(s) \in Nat /\ Len(u) \in Nat \ {0}
  BY <1>1, LenProperties, EmptySeq DEF Cells
<1>4. /\ e = SubSeq(e, 1, Len(s)) \o SubSeq(e, Len(s) + 1, Len(e))
      /\ SubSeq(e, 1, Len(s)) = s /\ SubSeq(e, Len(s) + 1, Len(e)) = u
  <2>1. SubSeq(s \o u, Len(s) + 1, Len(s) + Len(u)) = u /\ SubSeq(s \o u, 1, Len(s)) = s
    BY ConcatDrop DEF Cells
  <2>2. QED
    BY <1>1, <1>2, <2>1
<1> HIDE DEF e
<1>5. CASE Len(s) < Len(w)
  <2> DEFINE t == SubSeq(w, Len(s) + 1, Len(w))
             a == SubSeq(w, 1, Len(s))
  <2>1. Len(s) \in 0 .. Len(w)
    BY <1>3, <1>5
  <2>2. a \in Seq(Int) /\ t \in Seq(Int) /\ a \o t = w
    BY <2>1, CutAndJoin DEF Cells
  <2>3. Len(a) = Len(s) /\ \A i \in 1 .. Len(s) : a[i] = w[i]
    BY <1>3, <1>5 DEF Cells
  <2>4. Len(t) = Len(w) - Len(s)
    BY <1>3, <1>5 DEF Cells
  <2> HIDE DEF a, t
  <2>5. \A i \in 1 .. Len(s) : a[i] = s[i]
    BY <1>2, <1>3, <1>5, <2>3
  <2>6. a = s
    BY <2>2, <2>3, <2>5, SeqEqual DEF Cells
  <2>7. t # <<>>
    BY <1>3, <1>5, <2>4
  <2>8. Short(s, w)
    BY <2>2, <2>6, <2>7 DEF Short, Cells
  <2>9. QED
    BY <2>8
<1>6. CASE Len(s) >= Len(w)
  <2> DEFINE q == SubSeq(s, Len(w) + 1, Len(s))
             a == SubSeq(s, 1, Len(w))
  <2>1. Len(w) \in 0 .. Len(s)
    BY <1>3, <1>6
  <2>2. a \in Seq(Int) /\ q \in Seq(Int) /\ a \o q = s
    BY <2>1, CutAndJoin DEF Cells
  <2>3. Len(a) = Len(w) /\ \A i \in 1 .. Len(w) : a[i] = s[i]
    BY <1>3, <1>6 DEF Cells
  <2> HIDE DEF a, q
  <2>4. \A i \in 1 .. Len(w) : a[i] = w[i]
    BY <1>2, <1>3, <1>6, <2>3
  <2>5. a = w
    BY <2>2, <2>3, <2>4, SeqEqual DEF Cells
  <2>6. w \o z = w \o (q \o u)
    <3>1. (w \o q) \o u = w \o (q \o u)
      <4>1. q \in Cells
        BY <2>2 DEF Cells
      <4>2. QED
        BY <4>1, PartsJoin
    <3>2. QED
      BY <1>1, <2>2, <2>5, <3>1
  <2>7. q \o u \in Seq(Int)
    BY <2>2, ConcatParts DEF Cells
  <2>8. z = q \o u
    BY <2>6, <2>7, ConcatCancel DEF Cells
  <2>9. Short(q, z)
    BY <1>1, <2>8 DEF Short
  <2>10. QED
    BY <2>2, <2>5, <2>9 DEF Cells
<1>7. QED
  BY <1>3, <1>5, <1>6

\* One part after another: y goes on from where x stands.
LEMMA Then ==
    ASSUME NEW s \in Cells, NEW w \in Cells, NEW z \in Cells, NEW x, NEW y, NEW v, NEW t,
           Reads(x, s, w, v), Fails(x) => Fails(y),
           \A q \in Cells : s = w \o q /\ x = At(q, v) => Reads(y, q, z, t)
    PROVE  Reads(y, s, w \o z, t)
<1>1. ASSUME NEW q \in Cells, s = (w \o z) \o q PROVE y = At(q, t)
  <2>1. s = w \o (z \o q) /\ z \o q \in Cells
    BY <1>1, PartsJoin
  <2>2. x = At(z \o q, v)
    BY <2>1 DEF Reads
  <2>3. Reads(y, z \o q, z, t)
    BY <2>1, <2>2
  <2>4. QED
    BY <2>3 DEF Reads
<1>2. ASSUME Short(s, w \o z) PROVE Fails(y)
  <2>1. CASE Short(s, w)
    BY <2>1 DEF Reads
  <2>2. ASSUME NEW q \in Cells, s = w \o q, Short(q, z) PROVE Fails(y)
    <3>1. x = At(q, v)
      BY <2>2 DEF Reads
    <3>2. Reads(y, q, z, t)
      BY <2>2, <3>1
    <3>3. QED
      BY <2>2, <3>2 DEF Reads
  <2>3. QED
    BY <1>2, <2>1, <2>2, ShortOfParts
<1>3. QED
  BY <1>1, <1>2 DEF Reads

\* A reader that has to read nothing, and one that goes on without reading.
LEMMA ReadsNothing ==
    ASSUME NEW q \in Cells, NEW v
    PROVE  Reads(At(q, v), q, <<>>, v)
<1>1. \A u \in Cells : <<>> \o u = u
  BY ConcatEmptySeq DEF Cells
<1>2. ~Short(q, <<>>)
  <2>1. ASSUME NEW u \in Cells, u # <<>>, <<>> = q \o u PROVE FALSE
    <3>1. Len(q \o u) = Len(q) + Len(u) /\ Len(q) \in Nat /\ Len(u) \in Nat \ {0}
      BY <2>1, ConcatParts, LenProperties, EmptySeq DEF Cells
    <3>2. QED
      BY <2>1, <3>1
  <2>2. QED
    BY <2>1 DEF Short
<1>3. QED
  BY <1>1, <1>2 DEF Reads

---------------------------------------------------------------------------
\* Fields.

\* A payload of which n cells are read.
LEMMA FirstCells ==
    ASSUME NEW q \in Cells, NEW w \in Cells, NEW u \in Cells, q = w \o u
    PROVE  /\ Len(w) <= Len(q) /\ SubSeq(q, 1, Len(w)) = w
           /\ SubSeq(q, Len(w) + 1, Len(q)) = u
           /\ \A i \in 1 .. Len(w) : q[i] = w[i]
<1>1. /\ Len(w \o u) = Len(w) + Len(u) /\ Len(w) \in Nat /\ Len(u) \in Nat
      /\ \A i \in 1 .. Len(w) : (w \o u)[i] = w[i]
      /\ SubSeq(w \o u, Len(w) + 1, Len(w) + Len(u)) = u
      /\ SubSeq(w \o u, 1, Len(w)) = w
  BY ConcatParts, ConcatDrop, LenProperties DEF Cells
<1>2. QED
  BY <1>1

\* A short payload has fewer cells.
LEMMA ShortLen ==
    ASSUME NEW q \in Cells, NEW w \in Cells, Short(q, w)
    PROVE  /\ Len(q) < Len(w) /\ Len(q) \in Nat /\ Len(w) \in Nat
           /\ \A i \in 1 .. Len(q) : q[i] = w[i]
<1>1. PICK u \in Cells : u # <<>> /\ w = q \o u
  BY DEF Short
<1>2. /\ Len(w) = Len(q) + Len(u) /\ Len(q) \in Nat /\ Len(u) \in Nat \ {0}
      /\ \A i \in 1 .. Len(q) : (q \o u)[i] = q[i]
  BY <1>1, ConcatParts, LenProperties, EmptySeq DEF Cells
<1>3. QED
  BY <1>1, <1>2

\* read_exact of as many cells as w has.
LEMMA ExactReads ==
    ASSUME NEW q \in Cells, NEW w \in Cells, NEW v, NEW name
    PROVE  Reads(Exact(At(q, v), name, Len(w)), q, w, With(v, name, w))
<1>1. ASSUME NEW u \in Cells, q = w \o u
      PROVE  Exact(At(q, v), name, Len(w)) = At(u, With(v, name, w))
  <2>1. Len(w) <= Len(q) /\ SubSeq(q, 1, Len(w)) = w /\ SubSeq(q, Len(w) + 1, Len(q)) = u
    BY <1>1, FirstCells, LenProperties DEF Cells
  <2>2. At(q, v).ok /\ At(q, v).rest = q /\ At(q, v).read = v
    BY Outcomes
  <2>3. QED
    BY <2>1, <2>2, Zenon DEF Exact, At
<1>2. ASSUME Short(q, w) PROVE Fails(Exact(At(q, v), name, Len(w)))
  <2>1. ~(Len(w) <= Len(q))
    BY <1>2, ShortLen
  <2>2. Exact(At(q, v), name, Len(w)) = Failed(At(q, v))
    BY <2>1, Outcomes, Zenon DEF Exact
  <2>3. QED
    BY <2>2, Outcomes
<1>3. QED
  BY <1>1, <1>2 DEF Reads

\* The fields of v, and those of m under some names.
Merged(v, m, names) ==
    [f \in DOMAIN v \cup Range(names) |-> IF f \in Range(names) THEN m[f] ELSE v[f]]

\* Fields of fixed width, as they were written.
LEMMA FieldsRead ==
    ASSUME NEW q \in Cells, NEW v, NEW m, NEW names, Len(names) \in Nat,
           DOMAIN names = 1 .. Len(names), WriteFields(m, names) \in Cells
    PROVE  Reads(Fields(At(q, v), names), q, WriteFields(m, names), Merged(v, m, names))
<1> DEFINE w == WriteFields(m, names)
<1>1. Len(w) = Len(names) /\ \A i \in 1 .. Len(names) : w[i] = m[names[i]]
  BY DEF WriteFields, Cells
<1>2. \A f \in Range(names) :
          LET i == CHOOSE i \in DOMAIN names : names[i] = f
          IN  i \in 1 .. Len(names) /\ names[i] = f
  BY DEF Range
<1> HIDE DEF w
<1>3. ASSUME NEW u \in Cells, q = w \o u
      PROVE  Fields(At(q, v), names) = At(u, Merged(v, m, names))
  <2>1. /\ Len(names) <= Len(q) /\ SubSeq(q, Len(names) + 1, Len(q)) = u
        /\ \A i \in 1 .. Len(names) : q[i] = w[i]
    <3>1. w \in Cells
      BY DEF w
    <3>2. /\ Len(w) <= Len(q) /\ SubSeq(q, Len(w) + 1, Len(q)) = u
          /\ \A i \in 1 .. Len(w) : q[i] = w[i]
      BY <1>3, <3>1, FirstCells, LenProperties DEF Cells
    <3>3. QED
      BY <1>1, <3>2
  <2> DEFINE r == At(q, v)
             place(f) == CHOOSE i \in DOMAIN names : names[i] = f
             fields == [f \in DOMAIN r.read \cup Range(names) |->
                           IF f \in Range(names) THEN r.rest[place(f)] ELSE r.read[f]]
  <2>2. r.ok /\ r.rest = q /\ r.read = v
    BY Outcomes
  <2> HIDE DEF r
  <2>3. Fields(r, names)
            = [ok |-> TRUE, rest |-> SubSeq(r.rest, Len(names) + 1, Len(r.rest)),
               read |-> fields]
    <3>1. Len(names) <= Len(r.rest)
      BY <2>1, <2>2
    <3>2. QED
      BY <2>2, <3>1, Zenon DEF Fields
  <2>4. \A f \in Range(names) : q[place(f)] = m[f]
    BY <1>1, <1>2, <2>1
  <2> HIDE DEF place
  <2>5. fields = Merged(v, m, names)
    BY <2>2, <2>4, Zenon DEF Merged
  <2> HIDE DEF fields
  <2>6. Fields(r, names) = At(u, Merged(v, m, names))
    BY <2>1, <2>2, <2>3, <2>5 DEF At
  <2>7. QED
    BY <2>6 DEF r
<1>4. ASSUME Short(q, w) PROVE Fails(Fields(At(q, v), names))
  <2>1. w \in Cells
    BY DEF w
  <2>2. ~(Len(names) <= Len(q))
    BY <1>1, <1>4, <2>1, ShortLen
  <2>3. Fields(At(q, v), names) = Failed(At(q, v))
    BY <2>2, Outcomes, Zenon DEF Fields
  <2>4. QED
    BY <2>3, Outcomes
<1>5. QED
  BY <1>3, <1>4 DEF Reads, w

\* Once failed, failed.
LEMMA StaysFailed ==
    ASSUME NEW x, Fails(x)
    PROVE  /\ \A names : Fails(Fields(x, names))
           /\ \A name, n : Fails(Exact(x, name, n))
           /\ \A name : Fails(Length(x, name)) /\ Fails(Counted(x, name))
           /\ \A name, item : Fails(Many(x, name, item))
<1>1. ~x.ok /\ Fails(Failed(x))
  BY Outcomes
<1>2. \A names : Fails(Fields(x, names))
  BY <1>1, Zenon DEF Fields
<1>3. \A name, n : Fails(Exact(x, name, n))
  BY <1>1, Zenon DEF Exact
<1>4. \A name : read_varint(x, name) = Exact(x, name, 1)
  BY <1>1, <1>3, Outcomes DEF read_varint
<1>5. \A name : Fails(Length(x, name)) /\ ~Length(x, name).ok
  <2>1. ASSUME NEW name PROVE Fails(Length(x, name))
    <3>1. Fails(read_varint(x, name)) /\ ~read_varint(x, name).ok
      BY <1>3, <1>4, Outcomes
    <3>2. Length(x, name) = read_varint(x, name)
      BY <3>1, Zenon DEF Length
    <3>3. QED
      BY <3>1, <3>2
  <2>2. QED
    BY <2>1, Outcomes
<1>6. \A name : Fails(Counted(x, name))
  BY <1>5, Zenon DEF Counted
<1>7. \A name, item : Fails(Many(x, name, item))
  BY <1>5, Zenon DEF Many
<1>8. QED
  BY <1>2, <1>3, <1>5, <1>6, <1>7

---------------------------------------------------------------------------
\* Counts and lengths.

\* A field under a name.
LEMMA WithNamed ==
    \A a, name, v : With(a, name, v)[name] = v
BY DEF With

\* The other fields.
LEMMA WithOthers ==
    \A a, name, v : /\ DOMAIN With(a, name, v) = DOMAIN a \cup {name}
                    /\ \A f \in DOMAIN a : f # name => With(a, name, v)[f] = a[f]
BY DEF With

\* One field in the place of another.
LEMMA WithTwice ==
    \A a, name, v, u : With(With(a, name, v), name, u) = With(a, name, u)
<1> SUFFICES ASSUME NEW a, NEW name, NEW v, NEW u
             PROVE  With(With(a, name, v), name, u) = With(a, name, u)
  OBVIOUS
<1> DEFINE b == With(a, name, v)
<1>1. /\ DOMAIN a \cup {name} = DOMAIN b \cup {name}
      /\ \A f \in DOMAIN a \cup {name} : f # name => b[f] = a[f]
  BY WithOthers
<1> HIDE DEF b
<1>2. With(b, name, u) = With(a, name, u)
  BY <1>1 DEF With
<1>3. QED
  BY <1>2 DEF b

\* Eight bytes of which the first few are t.
Padded(t) == [i \in 1 .. 8 |-> IF i <= Len(t) THEN t[i] ELSE 0]

\* The form of a varint: its first byte says how many follow, and the bytes
\* that hold the number are all of it that is not 0.
LEMMA VarintForm ==
    ASSUME NEW n \in [1 .. 8 -> Int]
    PROVE  \E first \in Int, tail \in Cells :
               /\ write_varint(n) = <<first>> \o tail
               /\ VarintTail(first) = Len(tail)
               /\ n = Padded(IF Len(tail) = 0 THEN <<first>> ELSE tail)
               /\ (\E i \in 1 .. 8 : n[i] # 0) => first # 0
<1> DEFINE w == write_varint(n)
<1>1. n \in Seq(Int) /\ Len(n) = 8 /\ \A i \in 1 .. 8 : n[i] \in Int
  <2>1. n \in Seq(Int)
    BY SeqDef
  <2>2. Len(n) = 8
    BY <2>1, LenProperties
  <2>3. QED
    BY <2>1, <2>2
<1>2. CASE Below(n, 1) /\ n[1] < 253
  <2>1. w = <<n[1]>>
    BY <1>2 DEF write_varint, Below
  <2>2. <<n[1]>> = <<n[1]>> \o <<>> /\ <<>> \in Cells /\ n[1] \in Int /\ Len(<<>>) = 0
    BY <1>1, ConcatEmptySeq DEF Cells
  <2>3. VarintTail(n[1]) = 0
    BY <1>1, <1>2 DEF VarintTail
  <2>4. n = Padded(<<n[1]>>)
    BY <1>1, <1>2 DEF Padded, Below
  <2>5. (\E i \in 1 .. 8 : n[i] # 0) => n[1] # 0
    BY <1>1, <1>2 DEF Below
  <2>6. QED
    BY <2>1, <2>2, <2>3, <2>4, <2>5
<1>3. CASE Below(n, 2) /\ ~(Below(n, 1) /\ n[1] < 253)
  <2> DEFINE t == SubSeq(n, 1, 2)
  <2>1. w = <<253>> \o t
    BY <1>3 DEF write_varint, Below
  <2>2. t \in Cells /\ Len(t) = 2 /\ \A i \in 1 .. 2 : t[i] = n[i]
    BY <1>1 DEF Cells
  <2> HIDE DEF t
  <2>3. n = Padded(t)
    BY <1>1, <1>3, <2>2 DEF Padded, Below
  <2>4. VarintTail(253) = 2 /\ 253 # 0 /\ 253 \in Int
    BY DEF VarintTail
  <2>5. VarintTail(253) = Len(t) /\ Len(t) # 0
    BY <2>2, <2>4
  <2>6. QED
    BY <2>1, <2>2, <2>3, <2>4, <2>5, Zenon
<1>4. CASE Below(n, 4) /\ ~Below(n, 2)
  <2> DEFINE t == SubSeq(n, 1, 4)
  <2>0. ~Below(n, 1)
    BY <1>4 DEF Below
  <2>1. w = <<254>> \o t
    BY <1>4, <2>0, Zenon DEF write_varint
  <2>2. t \in Cells /\ Len(t) = 4 /\ \A i \in 1 .. 4 : t[i] = n[i]
    BY <1>1 DEF Cells
  <2> HIDE DEF t
  <2>3. n = Padded(t)
    BY <1>1, <1>4, <2>2 DEF Padded, Below
  <2>4. VarintTail(254) = 4 /\ 254 # 0 /\ 254 \in Int
    BY DEF VarintTail
  <2>5. VarintTail(254) = Len(t) /\ Len(t) # 0
    BY <2>2, <2>4
  <2>6. QED
    BY <2>1, <2>2, <2>3, <2>4, <2>5, Zenon
<1>5. CASE ~Below(n, 4)
  <2>0. ~Below(n, 1) /\ ~Below(n, 2)
    BY <1>5 DEF Below
  <2>1. w = <<255>> \o n
    BY <1>5, <2>0, Zenon DEF write_varint
  <2>2. n = Padded(n)
    BY <1>1 DEF Padded
  <2>3. VarintTail(255) = 8 /\ 255 # 0 /\ 255 \in Int
    BY DEF VarintTail
  <2>4. n \in Cells
    BY <1>1 DEF Cells
  <2>5. VarintTail(255) = Len(n) /\ Len(n) # 0
    BY <1>1, <2>3
  <2>6. n = Padded(IF Len(n) = 0 THEN <<255>> ELSE n)
    BY <2>2, <2>5, Zenon
  <2> DEFINE P == (\E i \in 1 .. 8 : n[i] # 0) => 255 # 0
  <2>7. P
    BY <2>3
  <2> HIDE DEF w, P
  <2>8. 255 \in Int /\ n \in Cells /\ w = <<255>> \o n /\ VarintTail(255) = Len(n)
        /\ n = Padded(IF Len(n) = 0 THEN <<255>> ELSE n) /\ P
    BY <2>1, <2>3, <2>4, <2>5, <2>6, <2>7
  <2>9. QED
    BY <2>8, Zenon DEF w, P
<1>6. Below(n, 2) => Below(n, 4)
  BY DEF Below
<1>7. QED
  BY <1>2, <1>3, <1>4, <1>5, <1>6, Zenon

\* A varint is a payload, and what is read from it is the number written.
LEMMA VarintReads ==
    ASSUME NEW q \in Cells, NEW a, NEW name, NEW n \in [1 .. 8 -> Int]
    PROVE  /\ write_varint(n) \in Cells /\ write_varint(n) # <<>>
           /\ (\E i \in 1 .. 8 : n[i] # 0) => write_varint(n)[1] # 0
           /\ Reads(read_varint(At(q, a), name), q, write_varint(n), With(a, name, n))
<1>1. PICK first \in Int, tail \in Cells :
          /\ write_varint(n) = <<first>> \o tail
          /\ VarintTail(first) = Len(tail)
          /\ n = Padded(IF Len(tail) = 0 THEN <<first>> ELSE tail)
          /\ (\E i \in 1 .. 8 : n[i] # 0) => first # 0
  BY VarintForm
<1> DEFINE w == <<first>>
           x == Exact(At(q, a), name, 1)
           y == read_varint(At(q, a), name)
           one == With(a, name, w)
<1>2. w \in Cells /\ Len(w) = 1 /\ w[1] = first
  BY DEF Cells
<1>3. Reads(x, q, w, one)
  BY <1>2, ExactReads
<1>4. ASSUME Fails(x) PROVE Fails(y)
  <2>1. ~x.ok
    BY <1>4, Outcomes
  <2>2. y = x
    BY <2>1, Zenon DEF read_varint
  <2>3. QED
    BY <1>4, <2>2
<1>5. ASSUME NEW u \in Cells, x = At(u, one) PROVE Reads(y, u, tail, With(a, name, n))
  <2>1. x.ok /\ x.read = one
    BY <1>5, Outcomes
  <2>2. one[name] = w
    BY WithNamed
  <2>3. VarintTail(x.read[name][1]) = Len(tail)
    BY <1>1, <1>2, <2>1, <2>2
  <2> DEFINE b == Exact(x, name, Len(tail))
             t == IF Len(tail) = 0 THEN x.read[name] ELSE b.read[name]
  <2>4. y = IF ~b.ok THEN b ELSE Holding(b, With(x.read, name, Padded(t)))
    <3> HIDE DEF x
    <3>1. read_varint(At(q, a), name)
              = IF ~Exact(x, name, VarintTail(x.read[name][1])).ok
                THEN Exact(x, name, VarintTail(x.read[name][1]))
                ELSE Holding(Exact(x, name, VarintTail(x.read[name][1])),
                             With(x.read, name,
                                  Padded(IF VarintTail(x.read[name][1]) = 0 THEN x.read[name]
                                         ELSE Exact(x, name, VarintTail(x.read[name][1])).read[name])))
      BY <2>1, Zenon DEF read_varint, Padded, x
    <3>2. QED
      BY <2>3, <3>1, Zenon
  <2>5. Reads(b, u, tail, With(one, name, tail))
    BY <1>5, ExactReads
  <2>6. ASSUME NEW r \in Cells, b = At(r, With(one, name, tail))
        PROVE  y = At(r, With(a, name, n))
    <3>0. With(one, name, tail)[name] = tail
      BY WithNamed
    <3>1. b.ok /\ b.read[name] = tail
      BY <2>6, <3>0, Outcomes
    <3>2. t = IF Len(tail) = 0 THEN <<first>> ELSE tail
      BY <2>1, <2>2, <3>1, Zenon
    <3>3. n = Padded(t)
      BY <1>1, <3>2
    <3> HIDE DEF b, t
    <3>4. y = Holding(b, With(one, name, n))
      BY <2>1, <2>4, <3>1, <3>3, Zenon
    <3>5. With(one, name, n) = With(a, name, n)
      BY WithTwice
    <3>6. QED
      BY <2>6, <3>4, <3>5, HoldingOutcome
  <2>7. ASSUME Fails(b) PROVE Fails(y)
    <3>1. ~b.ok
      BY <2>7, Outcomes
    <3>2. y = b
      BY <2>4, <3>1, Zenon
    <3>3. QED
      BY <2>7, <3>2
  <2> HIDE DEF b, y
  <2>8. QED
    BY <2>5, <2>6, <2>7 DEF Reads
<1>6. Reads(y, q, w \o tail, With(a, name, n))
  <2> HIDE DEF x, y, w
  <2> QED
    BY <1>2, <1>3, <1>4, <1>5, Then
<1>7. w \o tail \in Cells /\ Len(w \o tail) = 1 + Len(tail) /\ (w \o tail)[1] = first
  BY <1>2, ConcatParts DEF Cells
<1>8. w \o tail # <<>>
  BY <1>7, LenProperties DEF Cells
<1>9. QED
  BY <1>1, <1>6, <1>7, <1>8

\* A count is what is written for it, and its varint starts with 0 only for 0.
LEMMA NumberOfU64 ==
    ASSUME NEW k \in Nat
    PROVE  /\ U64(k) \in [1 .. 8 -> Int] /\ Number(U64(k)) = k
           /\ k # 0 => \E i \in 1 .. 8 : U64(k)[i] # 0
<1>1. k % 256 \in Int /\ (k \div 256) % 256 \in Int /\ k \div 65536 \in Int
  OBVIOUS
<1>2. (k % 256) + 256 * ((k \div 256) % 256) + 65536 * (k \div 65536) = k
  OBVIOUS
<1>3. U64(k) \in [1 .. 8 -> Int]
  BY <1>1 DEF U64
<1>4. /\ U64(k)[1] = k % 256 /\ U64(k)[2] = (k \div 256) % 256
      /\ U64(k)[3] = k \div 65536
  BY DEF U64
<1>5. Number(U64(k)) = k
  BY <1>2, <1>4 DEF Number
<1>6. k # 0 => \E i \in 1 .. 3 : U64(k)[i] # 0
  BY <1>2, <1>4
<1>7. QED
  BY <1>3, <1>5, <1>6

\* A count that was written.
LEMMA LengthReads ==
    ASSUME NEW q \in Cells, NEW a, NEW name, NEW k \in Nat
    PROVE  /\ write_varint(U64(k)) \in Cells /\ write_varint(U64(k)) # <<>>
           /\ k # 0 => write_varint(U64(k))[1] # 0
           /\ Reads(Length(At(q, a), name), q, write_varint(U64(k)), With(a, name, k))
<1> DEFINE w == write_varint(U64(k))
           b == With(a, name, U64(k))
           x == read_varint(At(q, a), name)
           y == Length(At(q, a), name)
<1>1. U64(k) \in [1 .. 8 -> Int] /\ Number(U64(k)) = k
      /\ (k # 0 => \E i \in 1 .. 8 : U64(k)[i] # 0)
  BY NumberOfU64
<1>2. /\ w \in Cells /\ w # <<>> /\ (k # 0 => w[1] # 0)
      /\ Reads(x, q, w, b)
  BY <1>1, VarintReads
<1>3. y = IF x.ok THEN Holding(x, With(x.read, name, Number(x.read[name]))) ELSE x
  BY Zenon DEF Length
<1>4. ASSUME NEW u \in Cells, x = At(u, b) PROVE y = At(u, With(a, name, k))
  <2>1. x.ok /\ x.read = b
    BY <1>4, Outcomes
  <2>2. b[name] = U64(k) /\ With(b, name, k) = With(a, name, k)
    BY WithNamed, WithTwice
  <2> HIDE DEF x, y, b
  <2>3. y = Holding(x, With(a, name, k))
    BY <1>1, <1>3, <2>1, <2>2, Zenon
  <2>4. QED
    BY <1>4, <2>3, HoldingOutcome
<1>5. ASSUME Fails(x) PROVE Fails(y)
  <2>1. ~x.ok
    BY <1>5, Outcomes
  <2>2. QED
    BY <1>3, <1>5, <2>1, Zenon
<1>6. Reads(y, q, w, With(a, name, k))
  <2> HIDE DEF x, y, w, b
  <2> QED
    BY <1>2, <1>4, <1>5 DEF Reads
<1>7. QED
  BY <1>2, <1>6

\* Cells after their count.
LEMMA CountedReads ==
    ASSUME NEW q \in Cells, NEW a, NEW name, NEW c \in Cells
    PROVE  /\ WriteCounted(c) \in Cells
           /\ Reads(Counted(At(q, a), name), q, WriteCounted(c), With(a, name, c))
<1> DEFINE w == Count(c)
           b == With(a, name, Len(c))
           x == Length(At(q, a), name)
           y == Counted(At(q, a), name)
<1>1. w \in Cells /\ Reads(x, q, w, b)
  BY LengthReads, LenProperties DEF Count, Cells
<1>2. ASSUME NEW u \in Cells, x = At(u, b) PROVE Reads(y, u, c, With(a, name, c))
  <2>1. x.ok /\ x.read[name] = Len(c)
    BY <1>2, Outcomes, WithNamed
  <2>2. y = Exact(x, name, Len(c))
    BY <2>1, Zenon DEF Counted
  <2>3. Reads(Exact(At(u, b), name, Len(c)), u, c, With(b, name, c))
    BY ExactReads
  <2>4. With(b, name, c) = With(a, name, c)
    BY WithTwice
  <2> HIDE DEF x, y, b
  <2>5. QED
    BY <1>2, <2>2, <2>3, <2>4
<1>3. ASSUME Fails(x) PROVE Fails(y)
  <2>1. ~x.ok
    BY <1>3, Outcomes
  <2>2. y = x
    BY <2>1, Zenon DEF Counted
  <2>3. QED
    BY <1>3, <2>2
<1>4. Reads(y, q, w \o c, With(a, name, c)) /\ w \o c \in Cells
  <2> HIDE DEF x, y, w, b
  <2>1. Reads(y, q, w \o c, With(a, name, c))
    BY <1>1, <1>2, <1>3, Then
  <2>2. QED
    BY <1>1, <2>1, PartsJoin
<1>5. QED
  BY <1>4 DEF WriteCounted

---------------------------------------------------------------------------
\* Records.

\* The reader after each of n records.
Steps(f, r, name, n, item) ==
    f = [i \in 0 .. n |->
            IF i = 0 THEN Holding(r, With(r.read, name, <<>>))
            ELSE IF f[i - 1].ok
            THEN Holding(item[f[i - 1].rest],
                         With(f[i - 1].read, name,
                              Append(f[i - 1].read[name], item[f[i - 1].rest].read)))
            ELSE f[i - 1]]

\* They exist, for every number of records.
LEMMA StepsExist ==
    ASSUME NEW r, NEW name, NEW n \in Nat, NEW item
    PROVE  \E f : Steps(f, r, name, n, item)
<1> DEFINE Base(f) == f[0] = Holding(r, With(r.read, name, <<>>))
           Add(p) == IF p.ok
                     THEN Holding(item[p.rest],
                                  With(p.read, name, Append(p.read[name], item[p.rest].read)))
                     ELSE p
           F(f, m) == /\ f = [i \in 0 .. m |-> f[i]] /\ Base(f)
                      /\ \A i \in 1 .. m : f[i] = Add(f[i - 1])
           S == {m \in Nat : \E f : F(f, m)}
<1> HIDE DEF Add
<1>1. 0 \in S
  <2> DEFINE g == [i \in 0 .. 0 |-> Holding(r, With(r.read, name, <<>>))]
  <2>1. F(g, 0)
    OBVIOUS
  <2> HIDE DEF F
  <2>2. QED
    BY <2>1
<1>2. ASSUME NEW m \in Nat, m \in S PROVE m + 1 \in S
  <2>1. PICK f : F(f, m)
    BY <1>2
  <2> DEFINE g == [i \in 0 .. m + 1 |-> IF i = m + 1 THEN Add(f[m]) ELSE f[i]]
  <2>2. g = [i \in 0 .. m + 1 |-> g[i]] /\ Base(g)
    BY <2>1
  <2>3. ASSUME NEW i \in 1 .. m + 1 PROVE g[i] = Add(g[i - 1])
    <3>1. g[i - 1] = f[i - 1]
      OBVIOUS
    <3>2. CASE i = m + 1
      BY <3>1, <3>2
    <3>3. CASE i # m + 1
      <4>1. i \in 1 .. m /\ g[i] = f[i]
        BY <3>3
      <4>2. QED
        BY <2>1, <3>1, <4>1
    <3>4. QED
      BY <3>2, <3>3
  <2>4. F(g, m + 1)
    <3> HIDE DEF g
    <3> QED
      BY <2>2, <2>3
  <2> HIDE DEF F
  <2>5. QED
    BY <2>4
<1>3. Nat \subseteq S
  <2> HIDE DEF S
  <2> QED
    BY <1>1, <1>2, Induction
<1>4. PICK f : F(f, n)
  BY <1>3
<1>5. \A i \in 0 .. n : f[i] = IF i = 0 THEN Holding(r, With(r.read, name, <<>>))
                               ELSE Add(f[i - 1])
  BY <1>4
<1>6. Steps(f, r, name, n, item)
  BY <1>4, <1>5, Zenon DEF Steps, Add
<1>7. QED
  BY <1>6

\* Records ends where they end.
LEMMA RecordsAre ==
    ASSUME NEW r, NEW name, NEW n \in Nat, NEW item
    PROVE  \E f : Steps(f, r, name, n, item) /\ Records(r, name, n, item) = f[n]
<1> DEFINE f == CHOOSE f : Steps(f, r, name, n, item)
<1>1. Steps(f, r, name, n, item)
  BY StepsExist, Zenon
<1>2. Records(r, name, n, item) = f[n]
  BY Zenon DEF Records, Steps
<1> HIDE DEF f
<1>3. QED
  BY <1>1, <1>2

\* n records that were written one after another, each of which is read as it
\* was written.
LEMMA RecordsRead ==
    ASSUME NEW q \in Cells, NEW a, NEW name, NEW n \in Nat, NEW item,
           NEW ws \in Seq(Cells), Len(ws) = n, NEW V, NEW vs \in Seq(V), Len(vs) = n,
           \A i \in 1 .. n : \A u \in Cells : Reads(item[u], u, ws[i], vs[i])
    PROVE  /\ FlattenSeq(ws) \in Cells
           /\ Reads(Records(At(q, a), name, n, item), q, FlattenSeq(ws), With(a, name, vs))
<1> DEFINE W(k) == FlattenSeq(SubSeq(ws, 1, k))
           T(k) == With(a, name, SubSeq(vs, 1, k))
<1>1. PICK f : /\ Steps(f, At(q, a), name, n, item)
               /\ Records(At(q, a), name, n, item) = f[n]
  BY RecordsAre
<1>2. \A k \in 0 .. n :
          f[k] = IF k = 0 THEN Holding(At(q, a), With(At(q, a).read, name, <<>>))
                 ELSE IF f[k - 1].ok
                 THEN Holding(item[f[k - 1].rest],
                              With(f[k - 1].read, name,
                                   Append(f[k - 1].read[name], item[f[k - 1].rest].read)))
                 ELSE f[k - 1]
  BY <1>1, Zenon DEF Steps
<1>3. ASSUME NEW k \in Nat, k + 1 <= n
      PROVE  /\ W(k) \in Cells /\ ws[k + 1] \in Cells /\ W(k + 1) = W(k) \o ws[k + 1]
             /\ SubSeq(vs, 1, k + 1) = Append(SubSeq(vs, 1, k), vs[k + 1])
  <2>1. /\ SubSeq(ws, 1, k) \in Seq(Cells) /\ ws[k + 1] \in Cells
        /\ SubSeq(ws, 1, k + 1) = Append(SubSeq(ws, 1, k), ws[k + 1])
    BY <1>3, PrefixGrows
  <2>2. SubSeq(vs, 1, k + 1) = Append(SubSeq(vs, 1, k), vs[k + 1])
    BY <1>3, PrefixGrows
  <2>3. FlattenSeq(Append(SubSeq(ws, 1, k), ws[k + 1]))
            = FlattenSeq(SubSeq(ws, 1, k)) \o ws[k + 1]
        /\ FlattenSeq(SubSeq(ws, 1, k)) \in Cells
    BY <2>1, FlattenAppend DEF Cells
  <2>4. QED
    BY <2>1, <2>2, <2>3
<1> DEFINE S == {k \in Nat : k <= n => Reads(f[k], q, W(k), T(k)) /\ W(k) \in Cells}
<1>4. 0 \in S
  <2>1. f[0] = Holding(At(q, a), With(a, name, <<>>))
    BY <1>2, Outcomes
  <2>2. f[0] = At(q, With(a, name, <<>>))
    BY <2>1, HoldingOutcome
  <2>3. SubSeq(ws, 1, 0) = <<>> /\ SubSeq(vs, 1, 0) = <<>> /\ FlattenSeq(<<>>) = <<>>
    BY FlattenAppend
  <2>4. W(0) = <<>> /\ T(0) = With(a, name, <<>>) /\ <<>> \in Cells
    <3>1. <<>> \in Cells
      BY DEF Cells
    <3>2. QED
      BY <2>3, <3>1, Zenon
  <2> HIDE DEF W, T
  <2>5. Reads(f[0], q, W(0), T(0))
    BY <2>2, <2>4, ReadsNothing
  <2>6. QED
    BY <2>4, <2>5
<1>5. ASSUME NEW k \in Nat, k \in S PROVE k + 1 \in S
  <2> SUFFICES ASSUME k + 1 <= n
               PROVE  Reads(f[k + 1], q, W(k + 1), T(k + 1)) /\ W(k + 1) \in Cells
    OBVIOUS
  <2> DEFINE x == f[k]
             y == f[k + 1]
             c == SubSeq(vs, 1, k)
  <2>1. /\ Reads(x, q, W(k), T(k)) /\ W(k) \in Cells /\ ws[k + 1] \in Cells
        /\ W(k + 1) = W(k) \o ws[k + 1] /\ W(k + 1) \in Cells
        /\ T(k) = With(a, name, c) /\ T(k + 1) = With(a, name, Append(c, vs[k + 1]))
    <3>1. W(k) \o ws[k + 1] \in Cells
      BY <1>3, PartsJoin
    <3>2. Reads(x, q, W(k), T(k))
      BY <1>5
    <3>3. QED
      BY <1>3, <3>1, <3>2
  <2>2. y = IF x.ok
            THEN Holding(item[x.rest],
                         With(x.read, name, Append(x.read[name], item[x.rest].read)))
            ELSE x
    <3>1. k + 1 \in 0 .. n /\ k + 1 # 0 /\ (k + 1) - 1 = k
      OBVIOUS
    <3>2. QED
      BY <1>2, <3>1, Zenon
  <2>3. ASSUME Fails(x) PROVE Fails(y)
    <3>1. ~x.ok
      BY <2>3, Outcomes
    <3>2. y = x
      BY <2>2, <3>1, Zenon
    <3>3. QED
      BY <2>3, <3>2
  <2> HIDE DEF x, y, c, W, T
  <2>4. ASSUME NEW u \in Cells, x = At(u, T(k)) PROVE Reads(y, u, ws[k + 1], T(k + 1))
    <3> DEFINE z == item[u]
               old == T(k)
    <3>1. x.ok /\ x.rest = u /\ x.read = old /\ old[name] = c
      BY <2>1, <2>4, Outcomes, WithNamed
    <3>2. y = Holding(z, With(old, name, Append(c, z.read)))
      BY <2>2, <3>1, Zenon
    <3>3. Reads(z, u, ws[k + 1], vs[k + 1])
      <4>1. k + 1 \in 1 .. n
        OBVIOUS
      <4>2. QED
        BY <4>1
    <3>4. With(old, name, Append(c, vs[k + 1])) = T(k + 1)
      BY <2>1, WithTwice
    <3> HIDE DEF z, old
    <3>5. ASSUME NEW s \in Cells, z = At(s, vs[k + 1]) PROVE y = At(s, T(k + 1))
      <4>1. z.read = vs[k + 1]
        BY <3>5, Outcomes
      <4>2. y = Holding(z, T(k + 1))
        BY <3>2, <3>4, <4>1
      <4>3. QED
        BY <3>5, <4>2, HoldingOutcome
    <3>6. ASSUME Fails(z) PROVE Fails(y)
      BY <3>2, <3>6, HoldingOutcome
    <3>7. QED
      BY <3>3, <3>5, <3>6 DEF Reads
  <2>5. Reads(y, q, W(k) \o ws[k + 1], T(k + 1))
    BY <2>1, <2>3, <2>4, Then
  <2>6. QED
    BY <2>1, <2>5 DEF y
<1>6. Nat \subseteq S
  <2> HIDE DEF S
  <2> QED
    BY <1>4, <1>5, Induction
<1>7. Reads(f[n], q, W(n), T(n)) /\ W(n) \in Cells
  BY <1>6
<1>8. SubSeq(ws, 1, n) = ws /\ SubSeq(vs, 1, n) = vs
  BY SubSeqFull
<1>9. QED
  BY <1>1, <1>7, <1>8

\* Records after their count.
LEMMA ManyRead ==
    ASSUME NEW q \in Cells, NEW a, NEW name, NEW item,
           NEW ws \in Seq(Cells), NEW V, NEW vs \in Seq(V), Len(ws) = Len(vs),
           \A i \in 1 .. Len(vs) : \A u \in Cells : Reads(item[u], u, ws[i], vs[i])
    PROVE  /\ Count(vs) \o FlattenSeq(ws) \in Cells
           /\ Count(vs) \o FlattenSeq(ws) # <<>>
           /\ vs # <<>> => (Count(vs) \o FlattenSeq(ws))[1] # 0
           /\ Reads(Many(At(q, a), name, item), q, Count(vs) \o FlattenSeq(ws),
                    With(a, name, vs))
<1> DEFINE w == Count(vs)
           z == FlattenSeq(ws)
           n == Len(vs)
           b == With(a, name, n)
           x == Length(At(q, a), name)
           y == Many(At(q, a), name, item)
<1>1. n \in Nat /\ (vs # <<>> => n # 0)
  BY LenProperties, EmptySeq
<1>2. w \in Cells /\ w # <<>> /\ (n # 0 => w[1] # 0) /\ Reads(x, q, w, b)
  BY <1>1, LengthReads DEF Count
<1>3. ASSUME NEW u \in Cells, x = At(u, b) PROVE Reads(y, u, z, With(a, name, vs))
  <2>1. x.ok /\ x.read[name] = n
    BY <1>3, Outcomes, WithNamed
  <2>2. y = Records(x, name, n, item)
    BY <2>1, Zenon DEF Many
  <2>3. Reads(Records(At(u, b), name, n, item), u, z, With(b, name, vs))
    BY <1>1, RecordsRead
  <2>4. With(b, name, vs) = With(a, name, vs)
    BY WithTwice
  <2> HIDE DEF x, y, b, z
  <2>5. QED
    BY <1>3, <2>2, <2>3, <2>4
<1>4. ASSUME Fails(x) PROVE Fails(y)
  <2>1. ~x.ok
    BY <1>4, Outcomes
  <2>2. y = x
    BY <2>1, Zenon DEF Many
  <2>3. QED
    BY <1>4, <2>2
<1>5. z \in Cells
  BY FlattenAppend DEF Cells
<1>6. Reads(y, q, w \o z, With(a, name, vs))
  <2> HIDE DEF x, y, w, z, b
  <2> QED
    BY <1>2, <1>3, <1>4, <1>5, Then
<1>7. w \o z \in Cells /\ w \o z # <<>> /\ (vs # <<>> => (w \o z)[1] # 0)
  <2> HIDE DEF w, z
  <2>1. /\ w \o z \in Cells /\ Len(w \o z) = Len(w) + Len(z)
        /\ \A i \in 1 .. Len(w) : (w \o z)[i] = w[i]
        /\ Len(w) \in Nat \ {0} /\ Len(z) \in Nat
    BY <1>2, <1>5, ConcatParts, LenProperties, EmptySeq DEF Cells
  <2>2. QED
    BY <1>1, <1>2, <2>1
<1>8. QED
  BY <1>6, <1>7

---------------------------------------------------------------------------
\* The records of a transaction.

\* The names of the fields that are written together.
LEMMA OneField ==
    ASSUME NEW name, NEW m, m[name] \in Int
    PROVE  /\ Len(<<name>>) \in Nat /\ DOMAIN <<name>> = 1 .. Len(<<name>>)
           /\ Range(<<name>>) = {name}
           /\ WriteFields(m, <<name>>) = <<m[name]>> /\ <<m[name]>> \in Cells
<1>1. Range(<<name>>) = {name}
  BY DEF Range
<1>2. <<m[name]>> \in Cells
  BY DEF Cells
<1>3. WriteFields(m, <<name>>) = <<m[name]>>
  BY DEF WriteFields
<1>4. QED
  BY <1>1, <1>2, <1>3

\* One field after others.
LEMMA FieldReads ==
    ASSUME NEW q \in Cells, NEW v, NEW m, NEW name, m[name] \in Int
    PROVE  /\ <<m[name]>> \in Cells
           /\ Reads(Fields(At(q, v), <<name>>), q, <<m[name]>>, With(v, name, m[name]))
<1>1. /\ Len(<<name>>) \in Nat /\ DOMAIN <<name>> = 1 .. Len(<<name>>)
      /\ Range(<<name>>) = {name}
      /\ WriteFields(m, <<name>>) = <<m[name]>> /\ <<m[name]>> \in Cells
  BY OneField
<1>2. Reads(Fields(At(q, v), <<name>>), q, <<m[name]>>, Merged(v, m, <<name>>))
  BY <1>1, FieldsRead
<1>3. Merged(v, m, <<name>>) = With(v, name, m[name])
  BY <1>1 DEF Merged, With
<1>4. QED
  BY <1>1, <1>2, <1>3

\* The reader of a payload has read nothing.
LEMMA ReaderAt == \A q : Reader(q) = At(q, <<>>)
BY DEF Reader, At

\* TxIn::read reads an input as encode_legacy writes it, whole and followed by
\* anything, and refuses it short of any cells.
LEMMA TxInReads ==
    ASSUME NEW in \in TxIn
    PROVE  /\ WriteTxIn(in) \in Cells
           /\ \A u \in Cells : Reads(ReadTxIn[u], u, WriteTxIn(in), in)
<1> DEFINE w1 == WriteFields(in, Outpoint)
           w2 == WriteCounted(in.script_sig)
           w3 == <<in.sequence>>
           v1 == Merged(<<>>, in, Outpoint)
           v2 == With(v1, "script_sig", in.script_sig)
           v3 == With(v2, "sequence", in.sequence)
<1>1. /\ in.hash \in Int /\ in.index \in Int /\ in.script_sig \in Cells
      /\ in.sequence \in Int
      /\ in = [hash |-> in.hash, index |-> in.index, script_sig |-> in.script_sig,
               sequence |-> in.sequence]
  BY DEF TxIn
<1>2. /\ Len(Outpoint) \in Nat /\ DOMAIN Outpoint = 1 .. Len(Outpoint)
      /\ Range(Outpoint) = {"hash", "index"}
      /\ w1 \in Cells
  BY <1>1 DEF Outpoint, Range, WriteFields, Cells
<1>3. w2 \in Cells /\ w3 \in Cells
  BY <1>1, CountedReads, FieldReads
<1>4. v3 = in
  BY <1>1, <1>2 DEF With, Merged
<1>5. w1 \o w2 \in Cells /\ (w1 \o w2) \o w3 \in Cells
  BY <1>2, <1>3, PartsJoin
<1> HIDE DEF v1, v2, v3
<1>6. ASSUME NEW u \in Cells PROVE Reads(ReadTxIn[u], u, (w1 \o w2) \o w3, in)
  <2> DEFINE x1 == Fields(Reader(u), Outpoint)
             x2 == Counted(x1, "script_sig")
             x3 == Fields(x2, <<"sequence">>)
  <2>1. ReadTxIn[u] = x3
    BY Zenon DEF ReadTxIn
  <2>2. Reads(x1, u, w1, v1)
    BY <1>2, FieldsRead, ReaderAt DEF v1
  <2>3. (Fails(x1) => Fails(x2)) /\ (Fails(x2) => Fails(x3))
    BY StaysFailed
  <2>4. ASSUME NEW q \in Cells, x1 = At(q, v1) PROVE Reads(x2, q, w2, v2)
    BY <1>1, <2>4, CountedReads DEF v2
  <2>5. ASSUME NEW q \in Cells, x2 = At(q, v2) PROVE Reads(x3, q, w3, v3)
    BY <1>1, <2>5, FieldReads DEF v3
  <2> HIDE DEF x1, x2, x3, w1, w2, w3
  <2>6. Reads(x2, u, w1 \o w2, v2)
    BY <1>2, <1>3, <2>2, <2>3, <2>4, Then
  <2>7. Reads(x3, u, (w1 \o w2) \o w3, v3)
    BY <1>3, <1>5, <2>3, <2>5, <2>6, Then
  <2>8. QED
    BY <1>4, <2>1, <2>7
<1>7. WriteTxIn(in) = (w1 \o w2) \o w3
  BY Zenon DEF WriteTxIn
<1>8. QED
  BY <1>5, <1>6, <1>7, Zenon

\* TxOut::read does so for an output.
LEMMA TxOutReads ==
    ASSUME NEW out \in TxOut
    PROVE  /\ WriteTxOut(out) \in Cells
           /\ \A u \in Cells : Reads(ReadTxOut[u], u, WriteTxOut(out), out)
<1> DEFINE w1 == <<out.value>>
           w2 == WriteCounted(out.pk_script)
           v1 == With(<<>>, "value", out.value)
           v2 == With(v1, "pk_script", out.pk_script)
<1>1. /\ out.value \in Int /\ out.pk_script \in Cells
      /\ out = [value |-> out.value, pk_script |-> out.pk_script]
  BY DEF TxOut
<1>2. w1 \in Cells /\ w2 \in Cells
  BY <1>1, CountedReads, FieldReads
<1>3. v2 = out
  BY <1>1 DEF With
<1> HIDE DEF v1, v2
<1>4. ASSUME NEW u \in Cells PROVE Reads(ReadTxOut[u], u, w1 \o w2, out)
  <2> DEFINE x1 == Fields(Reader(u), <<"value">>)
             x2 == Counted(x1, "pk_script")
  <2>1. ReadTxOut[u] = x2
    BY Zenon DEF ReadTxOut
  <2>2. Reads(x1, u, w1, v1)
    BY <1>1, FieldReads, ReaderAt DEF v1
  <2>3. Fails(x1) => Fails(x2)
    BY StaysFailed
  <2>4. ASSUME NEW q \in Cells, x1 = At(q, v1) PROVE Reads(x2, q, w2, v2)
    BY <1>1, <2>4, CountedReads DEF v2
  <2> HIDE DEF x1, x2, w1, w2
  <2>5. Reads(x2, u, w1 \o w2, v2)
    BY <1>2, <2>2, <2>3, <2>4, Then
  <2>6. QED
    BY <1>3, <2>1, <2>5
<1>5. WriteTxOut(out) = w1 \o w2 /\ w1 \o w2 \in Cells
  <2>1. WriteTxOut(out) = w1 \o w2
    BY Zenon DEF WriteTxOut
  <2>2. QED
    BY <1>2, <2>1, PartsJoin
<1>6. QED
  BY <1>4, <1>5, Zenon

\* And TxWitness::read for one item of a witness.
LEMMA ItemReads ==
    ASSUME NEW item \in [witness_data : Cells]
    PROVE  /\ WriteCounted(item.witness_data) \in Cells
           /\ \A u \in Cells :
                  Reads(ReadItem[u], u, WriteCounted(item.witness_data), item)
<1>1. /\ item.witness_data \in Cells
      /\ item = [witness_data |-> item.witness_data]
  OBVIOUS
<1>2. With(<<>>, "witness_data", item.witness_data) = item
  BY <1>1 DEF With
<1>3. ASSUME NEW u \in Cells
      PROVE  /\ WriteCounted(item.witness_data) \in Cells
             /\ Reads(ReadItem[u], u, WriteCounted(item.witness_data), item)
  <2>1. ReadItem[u] = Counted(At(u, <<>>), "witness_data")
    BY ReaderAt, Zenon DEF ReadItem
  <2>2. /\ WriteCounted(item.witness_data) \in Cells
        /\ Reads(Counted(At(u, <<>>), "witness_data"), u, WriteCounted(item.witness_data),
                 With(<<>>, "witness_data", item.witness_data))
    BY <1>1, CountedReads
  <2>3. QED
    BY <1>2, <2>1, <2>2
<1>4. <<>> \in Cells
  BY DEF Cells
<1>5. QED
  BY <1>3, <1>4

\* The inputs.
LEMMA InputsRead ==
    ASSUME NEW s \in Seq(TxIn)
    PROVE  LET w == WriteMany(s, WriteTxIn)
           IN  /\ w \in Cells /\ w # <<>> /\ (s # <<>> => w[1] # 0)
               /\ \A q \in Cells : \A a :
                      Reads(Many(At(q, a), "tx_in", ReadTxIn), q, w, With(a, "tx_in", s))
<1> DEFINE ws == [i \in DOMAIN s |-> WriteTxIn(s[i])]
           w == Count(s) \o FlattenSeq(ws)
<1>1. Len(s) \in Nat /\ DOMAIN s = 1 .. Len(s) /\ \A i \in 1 .. Len(s) : s[i] \in TxIn
  BY LenProperties, ElementOfSeq
<1>2. \A i \in 1 .. Len(s) : /\ ws[i] \in Cells
                             /\ \A u \in Cells : Reads(ReadTxIn[u], u, ws[i], s[i])
  BY <1>1, TxInReads
<1>3. ws \in Seq(Cells) /\ Len(ws) = Len(s)
  BY <1>1, <1>2
<1>4. WriteMany(s, WriteTxIn) = w
  BY Zenon DEF WriteMany
<1> HIDE DEF ws
<1>5. /\ w \in Cells /\ w # <<>> /\ (s # <<>> => w[1] # 0)
      /\ \A q \in Cells : \A a :
             Reads(Many(At(q, a), "tx_in", ReadTxIn), q, w, With(a, "tx_in", s))
  <2>1. <<>> \in Cells
    BY DEF Cells
  <2>2. ASSUME NEW q \in Cells, NEW a
        PROVE  /\ w \in Cells /\ w # <<>> /\ (s # <<>> => w[1] # 0)
               /\ Reads(Many(At(q, a), "tx_in", ReadTxIn), q, w, With(a, "tx_in", s))
    BY <1>2, <1>3, ManyRead
  <2>3. QED
    BY <2>1, <2>2
<1> HIDE DEF w
<1>6. QED
  BY <1>4, <1>5, Zenon

\* The outputs.
LEMMA OutputsRead ==
    ASSUME NEW s \in Seq(TxOut)
    PROVE  LET w == WriteMany(s, WriteTxOut)
           IN  /\ w \in Cells /\ w # <<>> /\ (s # <<>> => w[1] # 0)
               /\ \A q \in Cells : \A a :
                      Reads(Many(At(q, a), "tx_out", ReadTxOut), q, w, With(a, "tx_out", s))
<1> DEFINE ws == [i \in DOMAIN s |-> WriteTxOut(s[i])]
           w == Count(s) \o FlattenSeq(ws)
<1>1. Len(s) \in Nat /\ DOMAIN s = 1 .. Len(s) /\ \A i \in 1 .. Len(s) : s[i] \in TxOut
  BY LenProperties, ElementOfSeq
<1>2. \A i \in 1 .. Len(s) : /\ ws[i] \in Cells
                             /\ \A u \in Cells : Reads(ReadTxOut[u], u, ws[i], s[i])
  BY <1>1, TxOutReads
<1>3. ws \in Seq(Cells) /\ Len(ws) = Len(s)
  BY <1>1, <1>2
<1>4. WriteMany(s, WriteTxOut) = w
  BY Zenon DEF WriteMany
<1> HIDE DEF ws
<1>5. /\ w \in Cells /\ w # <<>> /\ (s # <<>> => w[1] # 0)
      /\ \A q \in Cells : \A a :
             Reads(Many(At(q, a), "tx_out", ReadTxOut), q, w, With(a, "tx_out", s))
  <2>1. <<>> \in Cells
    BY DEF Cells
  <2>2. ASSUME NEW q \in Cells, NEW a
        PROVE  /\ w \in Cells /\ w # <<>> /\ (s # <<>> => w[1] # 0)
               /\ Reads(Many(At(q, a), "tx_out", ReadTxOut), q, w, With(a, "tx_out", s))
    BY <1>2, <1>3, ManyRead
  <2>3. QED
    BY <2>1, <2>2
<1> HIDE DEF w
<1>6. QED
  BY <1>4, <1>5, Zenon

\* The items of a witness.
LEMMA ItemsRead ==
    ASSUME NEW s \in Seq([witness_data : Cells])
    PROVE  LET w == WriteMany(s, LAMBDA item : WriteCounted(item.witness_data))
           IN  /\ w \in Cells /\ w # <<>> /\ (s # <<>> => w[1] # 0)
               /\ \A q \in Cells : \A a :
                      Reads(Many(At(q, a), "witness", ReadItem), q, w, With(a, "witness", s))
<1> DEFINE ws == [i \in DOMAIN s |-> WriteCounted(s[i].witness_data)]
           w == Count(s) \o FlattenSeq(ws)
<1>1. Len(s) \in Nat /\ DOMAIN s = 1 .. Len(s) /\ \A i \in 1 .. Len(s) : s[i] \in [witness_data : Cells]
  BY LenProperties, ElementOfSeq
<1>2. \A i \in 1 .. Len(s) : /\ ws[i] \in Cells
                             /\ \A u \in Cells : Reads(ReadItem[u], u, ws[i], s[i])
  BY <1>1, ItemReads
<1>3. ws \in Seq(Cells) /\ Len(ws) = Len(s)
  BY <1>1, <1>2
<1>4. WriteMany(s, LAMBDA item : WriteCounted(item.witness_data)) = w
  BY Zenon DEF WriteMany
<1> HIDE DEF ws
<1>5. /\ w \in Cells /\ w # <<>> /\ (s # <<>> => w[1] # 0)
      /\ \A q \in Cells : \A a :
             Reads(Many(At(q, a), "witness", ReadItem), q, w, With(a, "witness", s))
  <2>1. <<>> \in Cells
    BY DEF Cells
  <2>2. ASSUME NEW q \in Cells, NEW a
        PROVE  /\ w \in Cells /\ w # <<>> /\ (s # <<>> => w[1] # 0)
               /\ Reads(Many(At(q, a), "witness", ReadItem), q, w, With(a, "witness", s))
    BY <1>2, <1>3, ManyRead
  <2>3. QED
    BY <2>1, <2>2
<1> HIDE DEF w
<1>6. QED
  BY <1>4, <1>5, Zenon

\* And TxMessageWitness::read for the witness of one input.
LEMMA WitnessReads ==
    ASSUME NEW w \in Witness
    PROVE  /\ WriteWitness(w) \in Cells
           /\ \A u \in Cells : Reads(ReadWitness[u], u, WriteWitness(w), w)
<1> DEFINE s == w.witness
           c == WriteMany(s, LAMBDA item : WriteCounted(item.witness_data))
<1>1. s \in Seq([witness_data : Cells]) /\ w = [witness |-> s]
  BY DEF Witness
<1>2. /\ c \in Cells
      /\ \A q \in Cells : \A a :
             Reads(Many(At(q, a), "witness", ReadItem), q, c, With(a, "witness", s))
  BY <1>1, ItemsRead, Zenon
<1>3. WriteWitness(w) = c
  BY Zenon DEF WriteWitness
<1> HIDE DEF c
<1>4. With(<<>>, "witness", s) = w
  BY <1>1 DEF With
<1>5. ASSUME NEW u \in Cells PROVE Reads(ReadWitness[u], u, c, w)
  <2>1. ReadWitness[u] = Many(At(u, <<>>), "witness", ReadItem)
    BY ReaderAt, Zenon DEF ReadWitness
  <2>2. Reads(Many(At(u, <<>>), "witness", ReadItem), u, c, With(<<>>, "witness", s))
    BY <1>2
  <2>3. QED
    BY <1>4, <2>1, <2>2
<1>6. QED
  BY <1>2, <1>3, <1>5, Zenon

\* The witnesses of n inputs.
LEMMA WitnessesRead ==
    ASSUME NEW n \in Nat, NEW s \in Seq(Witness), Len(s) = n
    PROVE  LET w == FlattenSeq([i \in 1 .. n |-> WriteWitness(s[i])])
           IN  /\ w \in Cells
               /\ \A q \in Cells : \A a :
                      Reads(Records(At(q, a), "tx_witness", n, ReadWitness), q, w,
                            With(a, "tx_witness", s))
<1> DEFINE ws == [i \in 1 .. n |-> WriteWitness(s[i])]
<1>1. \A i \in 1 .. n : s[i] \in Witness
  BY LenProperties, ElementOfSeq
<1>2. \A i \in 1 .. n : /\ ws[i] \in Cells
                        /\ \A u \in Cells : Reads(ReadWitness[u], u, ws[i], s[i])
  BY <1>1, WitnessReads
<1>3. ws \in Seq(Cells) /\ Len(ws) = n
  BY <1>2
<1> HIDE DEF ws
<1>4. FlattenSeq(ws) \in Cells
  BY <1>3, FlattenAppend DEF Cells
<1>5. ASSUME NEW q \in Cells, NEW a
      PROVE  Reads(Records(At(q, a), "tx_witness", n, ReadWitness), q, FlattenSeq(ws),
                   With(a, "tx_witness", s))
  BY <1>2, <1>3, RecordsRead
<1>6. QED
  BY <1>4, <1>5 DEF ws

---------------------------------------------------------------------------
\* Transactions.

\* What ReadTx does after the version and the flag.
Body(flagged) ==
    LET ins  == Many(flagged, "tx_in", ReadTxIn)
        outs == Many(ins, "tx_out", ReadTxOut)
        wits == IF outs.ok /\ outs.read.flag = 1
                THEN Records(outs, "tx_witness", Len(outs.read.tx_in), ReadWitness)
                ELSE Holding(outs, With(outs.read, "tx_witness", <<>>))
    IN  IF ins.ok /\ ins.read.tx_in # <<>> THEN Fields(wits, <<"lock_time">>)
        ELSE Failed(ins)

\* A reader that has failed before the inputs stays failed to the end.
LEMMA BodyFails ==
    ASSUME NEW f, Fails(f)
    PROVE  Fails(Body(f))
<1> DEFINE ins == Many(f, "tx_in", ReadTxIn)
<1>1. Fails(ins) /\ ~ins.ok
  BY StaysFailed, Outcomes
<1>2. Body(f) = Failed(ins)
  BY <1>1, Zenon DEF Body
<1>3. QED
  BY <1>2, Outcomes

\* The parts of a transaction after its flag: inputs and outputs, the
\* witnesses if the flag is 1, the lock time.
LEMMA BodyReads ==
    ASSUME NEW q \in Cells, NEW v, "flag" \in DOMAIN v,
           NEW t, t.tx_in \in Seq(TxIn), t.tx_in # <<>>, t.tx_out \in Seq(TxOut),
           t.lock_time \in Int,
           NEW wits, NEW wx \in Cells,
           v["flag"] # 1 => wits = <<>> /\ wx = <<>>,
           v["flag"] = 1 =>
               /\ wits \in Seq(Witness) /\ Len(wits) = Len(t.tx_in)
               /\ wx = FlattenSeq([i \in 1 .. Len(t.tx_in) |-> WriteWitness(wits[i])])
    PROVE  Reads(Body(At(q, v)), q,
                 WriteMany(t.tx_in, WriteTxIn)
                 \o ((WriteMany(t.tx_out, WriteTxOut) \o wx) \o <<t.lock_time>>),
                 With(With(With(With(v, "tx_in", t.tx_in), "tx_out", t.tx_out),
                           "tx_witness", wits), "lock_time", t.lock_time))
<1> DEFINE w1 == WriteMany(t.tx_in, WriteTxIn)
           w2 == WriteMany(t.tx_out, WriteTxOut)
           w3 == <<t.lock_time>>
           v1 == With(v, "tx_in", t.tx_in)
           v2 == With(v1, "tx_out", t.tx_out)
           v3 == With(v2, "tx_witness", wits)
           v4 == With(v3, "lock_time", t.lock_time)
           x1 == Many(At(q, v), "tx_in", ReadTxIn)
           x2 == Many(x1, "tx_out", ReadTxOut)
           x3 == IF x2.ok /\ x2.read.flag = 1
                 THEN Records(x2, "tx_witness", Len(x2.read.tx_in), ReadWitness)
                 ELSE Holding(x2, With(x2.read, "tx_witness", <<>>))
           x4 == Fields(x3, <<"lock_time">>)
           y == Body(At(q, v))
<1>1. w1 \in Cells /\ Reads(x1, q, w1, v1)
  BY InputsRead, Zenon
<1>2. w2 \in Cells /\ \A u \in Cells : x1 = At(u, v1) => Reads(x2, u, w2, v2)
  BY OutputsRead, Zenon
<1>3. w3 \in Cells /\ \A u \in Cells : x3 = At(u, v3) => Reads(x4, u, w3, v4)
  BY FieldReads
<1>4. v2["flag"] = v["flag"] /\ v2["tx_in"] = t.tx_in /\ v1["tx_in"] = t.tx_in
  <2>1. "flag" # "tx_in" /\ "flag" # "tx_out" /\ "tx_in" # "tx_out"
    OBVIOUS
  <2>2. v1["tx_in"] = t.tx_in /\ v1["flag"] = v["flag"] /\ {"flag", "tx_in"} \subseteq DOMAIN v1
    BY <2>1 DEF With
  <2> HIDE DEF v1
  <2>3. v2["flag"] = v1["flag"] /\ v2["tx_in"] = v1["tx_in"]
    BY <2>1, <2>2 DEF With
  <2>4. QED
    BY <2>2, <2>3
<1>5. y = IF x1.ok /\ x1.read.tx_in # <<>> THEN x4 ELSE Failed(x1)
  BY Zenon DEF Body
<1>6. ASSUME NEW u \in Cells, x2 = At(u, v2) PROVE Reads(x3, u, wx, v3)
  <2>1. x2.ok /\ x2.read = v2
    BY <1>6, Outcomes
  <2>2. CASE v["flag"] = 1
    <3>1. x3 = Records(At(u, v2), "tx_witness", Len(t.tx_in), ReadWitness)
      BY <1>4, <1>6, <2>1, <2>2, Zenon
    <3>2. Len(t.tx_in) \in Nat
      BY LenProperties
    <3>3. Reads(Records(At(u, v2), "tx_witness", Len(t.tx_in), ReadWitness), u, wx, v3)
      BY <2>2, <3>2, WitnessesRead, Zenon
    <3>4. QED
      BY <3>1, <3>3, Zenon
  <2>3. CASE v["flag"] # 1
    <3>1. x3 = Holding(At(u, v2), With(v2, "tx_witness", <<>>))
      BY <1>4, <1>6, <2>1, <2>3, Zenon
    <3>2. x3 = At(u, v3)
      BY <2>3, <3>1, HoldingOutcome, Zenon
    <3>3. QED
      BY <2>3, <3>2, ReadsNothing, Zenon
  <2>4. QED
    BY <2>2, <2>3
<1>7. Fails(x1) => Fails(x2)
  BY StaysFailed
<1>8. ASSUME Fails(x2) PROVE Fails(x3)
  <2>1. ~x2.ok
    BY <1>8, Outcomes
  <2>2. x3 = Holding(x2, With(x2.read, "tx_witness", <<>>))
    BY <2>1, Zenon
  <2>3. QED
    BY <1>8, <2>2, HoldingOutcome, Zenon
<1>9. Fails(x3) => Fails(x4)
  BY StaysFailed
<1> HIDE DEF w1, w2, w3, v1, v2, v3, v4, x1, x2, x3, x4, y
<1>10. ASSUME NEW u \in Cells, x1 = At(u, v1)
       PROVE  Reads(y, u, (w2 \o wx) \o w3, v4)
  <2>1. Reads(x2, u, w2, v2)
    BY <1>2, <1>10
  <2>2. Reads(x3, u, w2 \o wx, v3) /\ w2 \o wx \in Cells
    BY <1>2, <1>6, <1>8, <2>1, Then, PartsJoin
  <2>3. Reads(x4, u, (w2 \o wx) \o w3, v4)
    BY <1>3, <1>9, <2>2, Then
  <2>4. y = x4
    BY <1>4, <1>5, <1>10, Outcomes
  <2>5. QED
    BY <2>3, <2>4
<1>11. Fails(x1) => Fails(y)
  BY <1>5, Outcomes
<1>12. (w2 \o wx) \o w3 \in Cells
  BY <1>2, <1>3, PartsJoin
<1>13. Reads(y, q, w1 \o ((w2 \o wx) \o w3), v4)
  BY <1>1, <1>10, <1>11, <1>12, Then
<1>14. QED
  BY <1>13 DEF w1, w2, w3, v1, v2, v3, v4, y

\* u and w have the same cells, as far as both go.
Agree(u, w) == \A i \in 1 .. Len(u) : i <= Len(w) => u[i] = w[i]

\* Only payloads that agree with what was written matter.
LEMMA ReadsAgreed ==
    ASSUME NEW u \in Cells, NEW w \in Cells, NEW x, NEW v,
           Agree(u, w) => Reads(x, u, w, v)
    PROVE  Reads(x, u, w, v)
<1>1. ASSUME NEW q \in Cells, u = w \o q PROVE x = At(q, v)
  <2>1. (\A i \in 1 .. Len(w) : u[i] = w[i]) /\ Len(w) \in Nat /\ Len(u) \in Nat
    BY <1>1, FirstCells, LenProperties DEF Cells
  <2>2. Agree(u, w)
    BY <2>1 DEF Agree
  <2>3. QED
    BY <1>1, <2>2 DEF Reads
<1>2. ASSUME Short(u, w) PROVE Fails(x)
  <2>1. Agree(u, w)
    BY <1>2, ShortLen DEF Agree
  <2>2. QED
    BY <1>2, <2>1 DEF Reads
<1>3. QED
  BY <1>1, <1>2 DEF Reads

\* The first cell of a payload that is not empty, and of what it was written
\* as, are the same.
LEMMA AgreedFirst ==
    ASSUME NEW u \in Cells, NEW w \in Cells, w # <<>>, u # <<>>, Agree(u, w)
    PROVE  u[1] = w[1]
<1>1. Len(u) \in Nat \ {0} /\ Len(w) \in Nat \ {0}
  BY LenProperties, EmptySeq DEF Cells
<1>2. QED
  BY <1>1 DEF Agree

\* What is read of a transaction without witnesses.
LegacyFields(t) ==
    LET v == With(With(<<>>, "version", t.version), "flag", 0)
    IN  With(With(With(With(v, "tx_in", t.tx_in), "tx_out", t.tx_out),
                  "tx_witness", <<>>), "lock_time", t.lock_time)

\* ReadTx is its body, after the version and the flag.
Flagged(head) ==
    IF head.ok /\ head.rest # <<>> /\ head.rest[1] = 0
    THEN Fields(Fields(head, <<"marker">>), <<"flag">>)
    ELSE Holding(head, With(head.read, "flag", 0))

\* TxMessage::read is the version, the look at the marker, and the body.
LEMMA ReadTxIs ==
    ASSUME NEW r
    PROVE  ReadTx(r) = Body(Flagged(Fields(r, <<"version">>)))
BY Zenon DEF ReadTx, Body, Flagged

\* If the version could not be read, the transaction is refused.
LEMMA HeadFails ==
    ASSUME NEW head, Fails(head)
    PROVE  Fails(Body(Flagged(head)))
<1>1. ~head.ok
  BY Outcomes
<1>2. Flagged(head) = Holding(head, With(head.read, "flag", 0))
  BY <1>1, Zenon DEF Flagged
<1>3. QED
  BY <1>2, HoldingOutcome, BodyFails

\* A transaction without witnesses is read as it was written, with the flag 0;
\* its count of inputs is never taken for the marker, and it is refused short.
LEMMA LegacyReads ==
    ASSUME NEW t, t.version \in Int, t.tx_in \in Seq(TxIn), t.tx_in # <<>>,
           t.tx_out \in Seq(TxOut), t.lock_time \in Int
    PROVE  /\ encode_legacy(t) \in Cells
           /\ \A u \in Cells :
                  Reads(ReadTx(Reader(u)), u, encode_legacy(t), LegacyFields(t))
<1> DEFINE w1 == <<t.version>>
           i == WriteMany(t.tx_in, WriteTxIn)
           o == WriteMany(t.tx_out, WriteTxOut)
           l == <<t.lock_time>>
           w2 == i \o ((o \o <<>>) \o l)
           vh == With(<<>>, "version", t.version)
           v1 == With(vh, "flag", 0)
<1>1. /\ w1 \in Cells /\ i \in Cells /\ o \in Cells /\ l \in Cells /\ <<>> \in Cells
      /\ i # <<>> /\ i[1] # 0
  <2>1. w1 \in Cells /\ l \in Cells /\ <<>> \in Cells
    BY DEF Cells
  <2>2. o \in Cells
    BY OutputsRead, Zenon
  <2>3. i \in Cells /\ i # <<>> /\ i[1] # 0
    BY InputsRead, Zenon
  <2>4. QED
    BY <2>1, <2>2, <2>3
<1> HIDE DEF i, o
<1>2. o \o <<>> = o
  BY <1>1, ConcatEmptySeq DEF Cells
<1>3. o \o l \in Cells /\ w2 = i \o (o \o l) /\ w2 \in Cells
  BY <1>1, <1>2, PartsJoin
<1>4. encode_legacy(t) = w1 \o w2 /\ encode_legacy(t) \in Cells
  <2>1. encode_legacy(t) = ((w1 \o i) \o o) \o l
    BY Zenon DEF encode_legacy, i, o
  <2> HIDE DEF w1, l, w2
  <2>2. Same(((w1 \o i) \o o) \o l, w1 \o (i \o (o \o l)))
    BY <1>1, JoinFour, Zenon
  <2>3. encode_legacy(t) = w1 \o w2
    BY <1>3, <2>1, <2>2, Zenon DEF Same
  <2>4. QED
    BY <1>1, <1>3, <2>3, PartsJoin
<1>5. w2 # <<>> /\ w2[1] # 0
  <2> DEFINE e == o \o l
  <2>1. e \in Cells /\ w2 = i \o e
    BY <1>3
  <2> HIDE DEF e, w2
  <2>2. /\ Len(i \o e) = Len(i) + Len(e) /\ Len(i) \in Nat \ {0} /\ Len(e) \in Nat
        /\ \A k \in 1 .. Len(i) : (i \o e)[k] = i[k]
    BY <1>1, <2>1, ConcatParts, LenProperties, EmptySeq DEF Cells
  <2>3. QED
    BY <1>1, <2>1, <2>2
<1>6. ASSUME NEW u \in Cells PROVE Reads(ReadTx(Reader(u)), u, w1 \o w2, LegacyFields(t))
  <2> DEFINE head == Fields(At(u, <<>>), <<"version">>)
             y == Body(Flagged(head))
  <2>1. ReadTx(Reader(u)) = y
    BY ReadTxIs, ReaderAt
  <2>2. Reads(head, u, w1, vh)
    BY FieldReads
  <2>3. Fails(head) => Fails(y)
    BY HeadFails
  <2> HIDE DEF head
  <2>4. ASSUME NEW q \in Cells, head = At(q, vh), Agree(q, w2)
        PROVE  Reads(y, q, w2, LegacyFields(t))
    <3>1. head.ok /\ head.rest = q /\ head.read = vh
      BY <2>4, Outcomes
    <3>2. q # <<>> => q[1] # 0
      BY <1>3, <1>5, <2>4, AgreedFirst
    <3>3. Flagged(head) = Holding(head, v1)
      BY <3>1, <3>2, Zenon DEF Flagged
    <3>4. Flagged(head) = At(q, v1)
      BY <2>4, <3>3, HoldingOutcome
    <3>5. "flag" \in DOMAIN v1 /\ v1["flag"] = 0
      BY DEF With
    <3> HIDE DEF v1
    <3>6. Reads(Body(At(q, v1)), q, w2,
                With(With(With(With(v1, "tx_in", t.tx_in), "tx_out", t.tx_out),
                          "tx_witness", <<>>), "lock_time", t.lock_time))
      <4>1. v1["flag"] # 1
        BY <3>5
      <4>2. QED
        BY <1>1, <3>5, <4>1, BodyReads DEF i, o
    <3>7. LegacyFields(t)
              = With(With(With(With(v1, "tx_in", t.tx_in), "tx_out", t.tx_out),
                          "tx_witness", <<>>), "lock_time", t.lock_time)
      BY Zenon DEF LegacyFields, v1
    <3>8. QED
      BY <3>4, <3>6, <3>7
  <2>5. ASSUME NEW q \in Cells, head = At(q, vh) PROVE Reads(y, q, w2, LegacyFields(t))
    <3> HIDE DEF y, w2, vh
    <3> QED
      BY <1>3, <2>4, <2>5, ReadsAgreed
  <2>6. Reads(y, u, w1 \o w2, LegacyFields(t))
    <3> HIDE DEF y, w1, w2, vh
    <3> QED
      BY <1>1, <1>3, <2>2, <2>3, <2>5, Then
  <2>7. QED
    BY <2>1, <2>6
<1>7. QED
  BY <1>4, <1>6

\* What is read of a transaction with witnesses.
SegwitFields(t) ==
    LET v == With(With(With(<<>>, "version", t.version), "marker", 0), "flag", 1)
    IN  With(With(With(With(v, "tx_in", t.tx_in), "tx_out", t.tx_out),
                  "tx_witness", t.tx_witness), "lock_time", t.lock_time)

\* Nothing is short of anything but nothing.
LEMMA EmptyIsShort ==
    ASSUME NEW w \in Cells, w # <<>>
    PROVE  Short(<<>>, w) /\ \A q \in Cells : w \o q # <<>>
<1>1. w = <<>> \o w
  BY ConcatEmptySeq DEF Cells
<1>2. ASSUME NEW q \in Cells PROVE w \o q # <<>>
  <2>1. Len(w \o q) = Len(w) + Len(q) /\ Len(w) \in Nat \ {0} /\ Len(q) \in Nat
    BY ConcatParts, LenProperties, EmptySeq DEF Cells
  <2>2. QED
    BY <2>1
<1>3. QED
  BY <1>1, <1>2 DEF Short

\* Where the inputs should start, a payload that has ended is refused.
LEMMA NoInputs ==
    ASSUME NEW v
    PROVE  Fails(Body(At(<<>>, v)))
<1> DEFINE ins == Many(At(<<>>, v), "tx_in", ReadTxIn)
           w == WriteMany(<<>>, WriteTxIn)
<1>1. <<>> \in Seq(TxIn) /\ <<>> \in Cells
  BY DEF Cells
<1>2. /\ w \in Cells /\ w # <<>>
      /\ Reads(ins, <<>>, w, With(v, "tx_in", <<>>))
  BY <1>1, InputsRead, Zenon
<1> HIDE DEF ins, w
<1>3. Fails(ins) /\ ~ins.ok
  BY <1>2, EmptyIsShort, Outcomes DEF Reads
<1>4. Body(At(<<>>, v)) = Failed(ins)
  BY <1>3, Zenon DEF Body, ins
<1>5. QED
  BY <1>4, Outcomes

\* A transaction with one witness per input is read as it was written, with the
\* flag 1, and is refused short of any cells.
LEMMA SegwitReads ==
    ASSUME NEW t, t.version \in Int, t.tx_in \in Seq(TxIn), t.tx_in # <<>>,
           t.tx_out \in Seq(TxOut), t.lock_time \in Int,
           t.tx_witness \in Seq(Witness), Len(t.tx_witness) = Len(t.tx_in)
    PROVE  /\ EncodeSegwit(t) \in Cells
           /\ \A u \in Cells :
                  Reads(ReadTx(Reader(u)), u, EncodeSegwit(t), SegwitFields(t))
<1> DEFINE w1 == <<t.version>>
           i == WriteMany(t.tx_in, WriteTxIn)
           o == WriteMany(t.tx_out, WriteTxOut)
           x == FlattenSeq([k \in 1 .. Len(t.tx_in) |-> WriteWitness(t.tx_witness[k])])
           l == <<t.lock_time>>
           body == i \o ((o \o x) \o l)
           w3 == <<1>> \o body
           w2 == <<0>> \o w3
           vh == With(<<>>, "version", t.version)
           vm == With(vh, "marker", 0)
           v1 == With(vm, "flag", 1)
<1>1. /\ w1 \in Cells /\ i \in Cells /\ o \in Cells /\ x \in Cells /\ l \in Cells
      /\ <<0>> \in Cells /\ <<1>> \in Cells
  <2>1. /\ w1 \in Cells /\ l \in Cells /\ <<0>> \in Cells /\ <<1>> \in Cells
    BY DEF Cells
  <2>2. o \in Cells
    BY OutputsRead, Zenon
  <2>3. i \in Cells
    BY InputsRead, Zenon
  <2>4. x \in Cells
    <3>1. Len(t.tx_in) \in Nat
      BY LenProperties
    <3>2. QED
      BY <3>1, WitnessesRead, Zenon
  <2>5. QED
    BY <2>1, <2>2, <2>3, <2>4
<1>2. DOMAIN t.tx_in = 1 .. Len(t.tx_in)
  BY LenProperties
<1> HIDE DEF i, o, x
<1>3. body \in Cells /\ w3 \in Cells /\ w2 \in Cells
  BY <1>1, PartsJoin
<1>4. EncodeSegwit(t) = w1 \o w2 /\ EncodeSegwit(t) \in Cells
  <2> DEFINE f == <<t.version, 0, 1>>
             zero == <<0>>
             one == <<1>>
  <2>1. EncodeSegwit(t) = (((f \o i) \o o) \o x) \o l
    BY <1>2, Zenon DEF EncodeSegwit, i, o, x
  <2>2. /\ f \in Cells /\ f = (w1 \o zero) \o one
        /\ zero \in Cells /\ one \in Cells
    BY DEF Cells
  <2>3. w2 = zero \o (one \o body)
    OBVIOUS
  <2>4. body = i \o ((o \o x) \o l)
    OBVIOUS
  <2> HIDE DEF w1, l, f, zero, one, w2, body
  <2>5. Same((((f \o i) \o o) \o x) \o l, f \o (i \o ((o \o x) \o l)))
    BY <1>1, <2>2, JoinFive, Zenon
  <2>6. Same(((w1 \o zero) \o one) \o body, w1 \o (zero \o (one \o body)))
    BY <1>1, <1>3, <2>2, JoinFour, Zenon
  <2>7. EncodeSegwit(t) = f \o body
    BY <2>1, <2>4, <2>5, Zenon DEF Same
  <2>8. f \o body = w1 \o w2
    BY <2>2, <2>3, <2>6, Zenon DEF Same
  <2>9. w1 \o w2 \in Cells
    BY <1>1, <1>3, PartsJoin
  <2>10. QED
    BY <2>7, <2>8, <2>9
<1>5. w2 # <<>> /\ w2[1] = 0
  <2> HIDE DEF w3
  <2>1. /\ Len(<<0>> \o w3) = Len(<<0>>) + Len(w3) /\ Len(<<0>>) = 1 /\ Len(w3) \in Nat
        /\ \A k \in 1 .. Len(<<0>>) : (<<0>> \o w3)[k] = <<0>>[k]
    BY <1>1, <1>3, ConcatParts, LenProperties DEF Cells
  <2>2. QED
    BY <2>1
<1>6. ASSUME NEW u \in Cells PROVE Reads(ReadTx(Reader(u)), u, w1 \o w2, SegwitFields(t))
  <2> DEFINE head == Fields(At(u, <<>>), <<"version">>)
             y == Body(Flagged(head))
  <2>1. ReadTx(Reader(u)) = y
    BY ReadTxIs, ReaderAt
  <2>2. Reads(head, u, w1, vh)
    BY FieldReads
  <2>3. Fails(head) => Fails(y)
    BY HeadFails
  <2> HIDE DEF head
  <2>4. ASSUME NEW q \in Cells, head = At(q, vh), Agree(q, w2), q # <<>>
        PROVE  Reads(y, q, w2, SegwitFields(t))
    <3> DEFINE m == Fields(head, <<"marker">>)
               f == Fields(m, <<"flag">>)
    <3>1. head.ok /\ head.rest = q /\ head.read = vh
      BY <2>4, Outcomes
    <3>2. q[1] = 0
      BY <1>3, <1>5, <2>4, AgreedFirst
    <3>3. Flagged(head) = f
      BY <2>4, <3>1, <3>2, Zenon DEF Flagged
    <3>4. Reads(m, q, <<0>>, vm)
      <4> DEFINE r == [marker |-> 0]
      <4>1. r["marker"] = 0 /\ r["marker"] \in Int
        OBVIOUS
      <4> HIDE DEF r, vh, vm
      <4>2. Reads(Fields(At(q, vh), <<"marker">>), q, <<r["marker"]>>,
                  With(vh, "marker", r["marker"]))
        BY <4>1, FieldReads
      <4>3. QED
        BY <2>4, <4>1, <4>2 DEF vm
    <3>5. (Fails(m) => Fails(f)) /\ (Fails(f) => Fails(y))
      BY <3>3, StaysFailed, BodyFails
    <3>6. ASSUME NEW s \in Cells, m = At(s, vm) PROVE Reads(f, s, <<1>>, v1)
      <4> DEFINE r == [flag |-> 1]
      <4>1. r["flag"] = 1 /\ r["flag"] \in Int
        OBVIOUS
      <4> HIDE DEF r, vm, v1, m
      <4>2. Reads(Fields(At(s, vm), <<"flag">>), s, <<r["flag"]>>,
                  With(vm, "flag", r["flag"]))
        BY <4>1, FieldReads
      <4>3. QED
        BY <3>6, <4>1, <4>2 DEF v1
    <3>7. "flag" \in DOMAIN v1 /\ v1["flag"] = 1
      BY DEF With
    <3>8. ASSUME NEW s \in Cells, f = At(s, v1) PROVE Reads(y, s, body, SegwitFields(t))
      <4> HIDE DEF v1, f
      <4>1. Reads(Body(At(s, v1)), s, i \o ((o \o x) \o l),
                  With(With(With(With(v1, "tx_in", t.tx_in), "tx_out", t.tx_out),
                            "tx_witness", t.tx_witness), "lock_time", t.lock_time))
        BY <1>1, <3>7, BodyReads DEF i, o, x
      <4>2. SegwitFields(t)
                = With(With(With(With(v1, "tx_in", t.tx_in), "tx_out", t.tx_out),
                            "tx_witness", t.tx_witness), "lock_time", t.lock_time)
        BY Zenon DEF SegwitFields, v1
      <4>3. QED
        BY <3>3, <3>8, <4>1, <4>2
    <3> HIDE DEF m, f, y, body, vm, v1
    <3>9. ASSUME NEW s \in Cells, m = At(s, vm) PROVE Reads(y, s, <<1>> \o body, SegwitFields(t))
      <4>1. Reads(f, s, <<1>>, v1)
        BY <3>6, <3>9
      <4>2. QED
        BY <1>1, <1>3, <3>5, <3>8, <4>1, Then
    <3>10. Reads(y, q, <<0>> \o w3, SegwitFields(t))
      <4>1. Fails(m) => Fails(y)
        BY <3>5
      <4>2. QED
        BY <1>1, <1>3, <3>4, <3>9, <4>1, Then
    <3>11. QED
      BY <3>10
  <2>5. ASSUME head = At(<<>>, vh) PROVE Reads(y, <<>>, w2, SegwitFields(t))
    <3>1. head.ok /\ head.rest = <<>> /\ head.read = vh
      BY <2>5, Outcomes
    <3>2. Flagged(head) = Holding(head, With(vh, "flag", 0))
      BY <3>1, Zenon DEF Flagged
    <3>3. Flagged(head) = At(<<>>, With(vh, "flag", 0))
      BY <2>5, <3>2, HoldingOutcome
    <3>4. Fails(y)
      BY <3>3, NoInputs
    <3> HIDE DEF w2, y
    <3>5. \A s \in Cells : w2 \o s # <<>>
      BY <1>3, <1>5, EmptyIsShort
    <3>6. QED
      BY <3>4, <3>5 DEF Reads
  <2>6. ASSUME NEW q \in Cells, head = At(q, vh) PROVE Reads(y, q, w2, SegwitFields(t))
    <3> HIDE DEF y, w2, vh
    <3> QED
      BY <1>3, <2>4, <2>5, <2>6, ReadsAgreed
  <2>7. Reads(y, u, w1 \o w2, SegwitFields(t))
    <3> HIDE DEF y, w1, w2, vh
    <3> QED
      BY <1>1, <1>3, <2>2, <2>3, <2>6, Then
  <2>8. QED
    BY <2>1, <2>7
<1>7. QED
  BY <1>4, <1>6

---------------------------------------------------------------------------
\* What a signature binds.

\* What is read of a transaction after v.
BodyFields(v, t, wits) ==
    With(With(With(With(v, "tx_in", t.tx_in), "tx_out", t.tx_out), "tx_witness", wits),
         "lock_time", t.lock_time)

\* Each field that is read of a transaction is there afterwards.
LEMMA BodyFieldsAre ==
    ASSUME NEW v, "version" \in DOMAIN v, "flag" \in DOMAIN v, NEW t, NEW wits
    PROVE  LET f == BodyFields(v, t, wits)
           IN  /\ f["version"] = v["version"] /\ f["tx_in"] = t.tx_in
               /\ f["tx_out"] = t.tx_out /\ f["lock_time"] = t.lock_time
               /\ f["flag"] = v["flag"] /\ f["tx_witness"] = wits
<1> DEFINE c == With(v, "tx_in", t.tx_in)
           d == With(c, "tx_out", t.tx_out)
           e == With(d, "tx_witness", wits)
           f == With(e, "lock_time", t.lock_time)
<1>1. /\ {"version", "flag", "tx_in"} \subseteq DOMAIN c
      /\ c["version"] = v["version"] /\ c["flag"] = v["flag"] /\ c["tx_in"] = t.tx_in
  BY DEF With
<1>2. /\ {"version", "flag", "tx_in", "tx_out"} \subseteq DOMAIN d
      /\ d["version"] = c["version"] /\ d["flag"] = c["flag"] /\ d["tx_in"] = c["tx_in"]
      /\ d["tx_out"] = t.tx_out
  <2> HIDE DEF c
  <2> QED
    BY <1>1 DEF With
<1>3. /\ {"version", "flag", "tx_in", "tx_out", "tx_witness"} \subseteq DOMAIN e
      /\ e["version"] = d["version"] /\ e["flag"] = d["flag"] /\ e["tx_in"] = d["tx_in"]
      /\ e["tx_out"] = d["tx_out"] /\ e["tx_witness"] = wits
  <2> HIDE DEF d
  <2> QED
    BY <1>2 DEF With
<1>4. /\ f["version"] = e["version"] /\ f["flag"] = e["flag"] /\ f["tx_in"] = e["tx_in"]
      /\ f["tx_out"] = e["tx_out"] /\ f["tx_witness"] = e["tx_witness"]
      /\ f["lock_time"] = t.lock_time
  <2> HIDE DEF e
  <2> QED
    BY <1>3 DEF With
<1>5. BodyFields(v, t, wits) = f
  BY Zenon DEF BodyFields
<1> HIDE DEF c, d, e, f
<1>6. QED
  BY <1>1, <1>2, <1>3, <1>4, <1>5

\* A transaction that was read, with or without witnesses, has every field
\* that was written.
LEMMA LegacyFieldsAre ==
    ASSUME NEW t
    PROVE  LET f == LegacyFields(t)
           IN  /\ f["version"] = t.version /\ f["tx_in"] = t.tx_in
               /\ f["tx_out"] = t.tx_out /\ f["lock_time"] = t.lock_time
               /\ f["flag"] = 0 /\ f["tx_witness"] = <<>>
<1> DEFINE a == With(<<>>, "version", t.version)
           b == With(a, "flag", 0)
<1>1. "version" \in DOMAIN a /\ a["version"] = t.version
  BY DEF With
<1>2. /\ "version" \in DOMAIN b /\ "flag" \in DOMAIN b
      /\ b["version"] = t.version /\ b["flag"] = 0
  <2> HIDE DEF a
  <2> QED
    BY <1>1 DEF With
<1> DEFINE g == BodyFields(b, t, <<>>)
<1>3. LegacyFields(t) = g
  BY Zenon DEF LegacyFields, BodyFields
<1> HIDE DEF b
<1>4. /\ g["version"] = b["version"] /\ g["tx_in"] = t.tx_in
      /\ g["tx_out"] = t.tx_out /\ g["lock_time"] = t.lock_time
      /\ g["flag"] = b["flag"] /\ g["tx_witness"] = <<>>
  BY <1>2, BodyFieldsAre
<1> HIDE DEF g
<1>5. QED
  BY <1>2, <1>3, <1>4

\* The fields the reader of the form with witnesses leaves are those written.
LEMMA SegwitFieldsAre ==
    ASSUME NEW t
    PROVE  LET f == SegwitFields(t)
           IN  /\ f["version"] = t.version /\ f["tx_in"] = t.tx_in
               /\ f["tx_out"] = t.tx_out /\ f["lock_time"] = t.lock_time
               /\ f["flag"] = 1 /\ f["tx_witness"] = t.tx_witness
<1> DEFINE a == With(<<>>, "version", t.version)
           c == With(a, "marker", 0)
           b == With(c, "flag", 1)
<1>1. "version" \in DOMAIN a /\ a["version"] = t.version
  BY DEF With
<1>2. "version" \in DOMAIN c /\ c["version"] = t.version
  <2> HIDE DEF a
  <2> QED
    BY <1>1 DEF With
<1>3. /\ "version" \in DOMAIN b /\ "flag" \in DOMAIN b
      /\ b["version"] = t.version /\ b["flag"] = 1
  <2> HIDE DEF c
  <2> QED
    BY <1>2 DEF With
<1> DEFINE g == BodyFields(b, t, t.tx_witness)
<1>4. SegwitFields(t) = g
  BY Zenon DEF SegwitFields, BodyFields
<1> HIDE DEF b
<1>5. /\ g["version"] = b["version"] /\ g["tx_in"] = t.tx_in
      /\ g["tx_out"] = t.tx_out /\ g["lock_time"] = t.lock_time
      /\ g["flag"] = b["flag"] /\ g["tx_witness"] = t.tx_witness
  BY <1>3, BodyFieldsAre
<1> HIDE DEF g
<1>6. QED
  BY <1>3, <1>4, <1>5

\* A transaction that can be written without witnesses and read again.
Spendable(t) == t \in Tx /\ t.tx_in # <<>>

\* Nothing is written twice the same: what follows being the same, the bytes
\* of two transactions are the same only if their parts are.
LEMMA LegacyBinds ==
    ASSUME NEW t, Spendable(t), NEW u, Spendable(u), NEW z \in Cells,
           encode_legacy(t) \o z = encode_legacy(u) \o z
    PROVE  t = u
<1> DEFINE s == encode_legacy(t) \o z
           x == ReadTx(Reader(s))
<1>1. /\ t.version \in Int /\ t.tx_in \in Seq(TxIn) /\ t.tx_in # <<>>
      /\ t.tx_out \in Seq(TxOut) /\ t.lock_time \in Int
      /\ t = [version |-> t.version, tx_in |-> t.tx_in, tx_out |-> t.tx_out,
              lock_time |-> t.lock_time]
  BY DEF Spendable, Tx
<1>2. /\ u.version \in Int /\ u.tx_in \in Seq(TxIn) /\ u.tx_in # <<>>
      /\ u.tx_out \in Seq(TxOut) /\ u.lock_time \in Int
      /\ u = [version |-> u.version, tx_in |-> u.tx_in, tx_out |-> u.tx_out,
              lock_time |-> u.lock_time]
  BY DEF Spendable, Tx
<1>3. s \in Cells /\ Reads(x, s, encode_legacy(t), LegacyFields(t))
  BY <1>1, LegacyReads, PartsJoin
<1>4. Reads(x, s, encode_legacy(u), LegacyFields(u))
  BY <1>2, <1>3, LegacyReads
<1> HIDE DEF x
<1>5. x = At(z, LegacyFields(t)) /\ x = At(z, LegacyFields(u))
  BY <1>3, <1>4 DEF Reads
<1>6. LegacyFields(t) = LegacyFields(u)
  BY <1>5 DEF At
<1>7. t.version = u.version /\ t.tx_in = u.tx_in /\ t.tx_out = u.tx_out /\ t.lock_time = u.lock_time
  BY <1>6, LegacyFieldsAre
<1>8. QED
  BY <1>1, <1>2, <1>7

\* There is something to sign.
Signable(t, i, hash_type) == ~(Kind(hash_type) = SINGLE /\ i > Len(t.tx_out))

\* An input as it is signed.
SignedInput(t, i, c, hash_type, k) ==
    [hash |-> t.tx_in[k].hash, index |-> t.tx_in[k].index,
     script_sig |-> IF k = i THEN c ELSE <<>>,
     sequence |-> IF k # i /\ Kind(hash_type) \in {NONE, SINGLE} THEN 0
                  ELSE t.tx_in[k].sequence]

\* The transaction as it is signed.
SignedTx(t, i, c, hash_type) ==
    [version |-> t.version,
     tx_in |-> IF AnyoneCanPay(hash_type) THEN <<SignedInput(t, i, c, hash_type, i)>>
               ELSE [k \in 1 .. Len(t.tx_in) |-> SignedInput(t, i, c, hash_type, k)],
     tx_out |-> SignedOutputs(t, i, hash_type), lock_time |-> t.lock_time]

\* The inputs as they are signed are inputs, one for each of the transaction.
LEMMA SignedInputsAre ==
    ASSUME NEW t \in Tx, NEW i, NEW c \in Cells, NEW hash_type
    PROVE  /\ SignedInputs(t, i, c, hash_type)
                  = [k \in 1 .. Len(t.tx_in) |-> SignedInput(t, i, c, hash_type, k)]
           /\ \A k \in 1 .. Len(t.tx_in) : SignedInput(t, i, c, hash_type, k) \in TxIn
           /\ Len(t.tx_in) \in Nat /\ DOMAIN t.tx_in = 1 .. Len(t.tx_in)
<1>1. t.tx_in \in Seq(TxIn)
  BY DEF Tx
<1>2. Len(t.tx_in) \in Nat /\ DOMAIN t.tx_in = 1 .. Len(t.tx_in)
  BY <1>1, LenProperties
<1>3. \A k \in 1 .. Len(t.tx_in) : t.tx_in[k] \in TxIn
  BY <1>1, <1>2, ElementOfSeq
<1>4. ASSUME NEW k \in 1 .. Len(t.tx_in)
      PROVE  /\ SignedInput(t, i, c, hash_type, k) \in TxIn
             /\ [t.tx_in[k] EXCEPT
                    !.script_sig = IF k = i THEN c ELSE <<>>,
                    !.sequence = IF k # i /\ Kind(hash_type) \in {NONE, SINGLE} THEN 0 ELSE @]
                    = SignedInput(t, i, c, hash_type, k)
  <2>1. t.tx_in[k] \in TxIn /\ <<>> \in Cells
    BY <1>3 DEF Cells
  <2>2. SignedInput(t, i, c, hash_type, k) \in TxIn
    BY <2>1 DEF TxIn, SignedInput
  <2> DEFINE r == t.tx_in[k]
             open == k # i /\ Kind(hash_type) \in {NONE, SINGLE}
             a == IF k = i THEN c ELSE <<>>
             b == IF open THEN 0 ELSE r.sequence
  <2>3. r = [hash |-> r.hash, index |-> r.index, script_sig |-> r.script_sig,
             sequence |-> r.sequence]
    BY <2>1 DEF TxIn
  <2> HIDE DEF r, a, b, open
  <2>4. [r EXCEPT !.script_sig = a, !.sequence = b]
            = [hash |-> r.hash, index |-> r.index, script_sig |-> a, sequence |-> b]
    <3> DEFINE g == [r EXCEPT !.script_sig = a]
    <3>1. [r EXCEPT !.script_sig = a, !.sequence = b] = [g EXCEPT !.sequence = b]
      OBVIOUS
    <3>2. g = [hash |-> r.hash, index |-> r.index, script_sig |-> a, sequence |-> r.sequence]
      BY <2>3
    <3> HIDE DEF g
    <3>3. [g EXCEPT !.sequence = b]
              = [hash |-> r.hash, index |-> r.index, script_sig |-> a, sequence |-> b]
      BY <3>2
    <3>4. QED
      BY <3>1, <3>3
  <2>5. [r EXCEPT !.script_sig = a, !.sequence = IF open THEN 0 ELSE @]
            = [r EXCEPT !.script_sig = a, !.sequence = b]
    BY <2>3 DEF b
  <2>6. [r EXCEPT !.script_sig = a, !.sequence = IF open THEN 0 ELSE @]
            = SignedInput(t, i, c, hash_type, k)
    BY <2>4, <2>5, Zenon DEF SignedInput, r, a, b, open
  <2>7. QED
    BY <2>2, <2>6, Zenon DEF r, a, open
<1>5. SignedInputs(t, i, c, hash_type)
          = [k \in 1 .. Len(t.tx_in) |-> SignedInput(t, i, c, hash_type, k)]
  BY <1>2, <1>4, Zenon DEF SignedInputs
<1>6. QED
  BY <1>2, <1>4, <1>5

\* The outputs as they are signed are outputs, the blank ones of SINGLE included.
LEMMA SignedOutputsType ==
    ASSUME NEW t \in Tx, NEW i \in Nat \ {0}, NEW hash_type, Signable(t, i, hash_type)
    PROVE  SignedOutputs(t, i, hash_type) \in Seq(TxOut)
<1>1. t.tx_out \in Seq(TxOut) /\ Len(t.tx_out) \in Nat
  BY LenProperties DEF Tx
<1>2. CASE Kind(hash_type) = NONE
  <2>1. NONE # SINGLE
    BY DEF NONE, SINGLE
  <2>2. SignedOutputs(t, i, hash_type) = <<>>
    BY <1>2, <2>1, Zenon DEF SignedOutputs
  <2>3. QED
    BY <2>2
<1>3. CASE Kind(hash_type) = SINGLE
  <2>1. i \in 1 .. Len(t.tx_out)
    BY <1>1, <1>3 DEF Signable
  <2>2. t.tx_out[i] \in TxOut /\ Blank \in TxOut
    <3>1. t.tx_out[i] \in TxOut
      BY <1>1, <2>1, ElementOfSeq
    <3>2. Blank \in TxOut
      BY DEF TxOut, Blank, Cells
    <3>3. QED
      BY <3>1, <3>2
  <2>3. SignedOutputs(t, i, hash_type) = [j \in 1 .. i |-> IF j < i THEN Blank ELSE t.tx_out[i]]
    BY <1>3 DEF SignedOutputs, NONE, SINGLE
  <2>4. QED
    BY <2>2, <2>3
<1>4. CASE Kind(hash_type) # NONE /\ Kind(hash_type) # SINGLE
  <2>1. SignedOutputs(t, i, hash_type) = t.tx_out
    BY <1>4 DEF SignedOutputs
  <2>2. QED
    BY <1>1, <2>1
<1>5. QED
  BY <1>2, <1>3, <1>4

\* The hash is over the transaction as it is signed.
LEMMA HashIs ==
    ASSUME NEW t \in Tx, NEW i \in DOMAIN t.tx_in, NEW c \in Cells, NEW hash_type
    PROVE  /\ ~Signable(t, i, hash_type) => signature_hash(t, i, c, hash_type) = One
           /\ Signable(t, i, hash_type) =>
                  /\ Spendable(SignedTx(t, i, c, hash_type))
                  /\ signature_hash(t, i, c, hash_type)
                         = <<encode_legacy(SignedTx(t, i, c, hash_type)) \o <<hash_type>> >>
<1> DEFINE ins == SignedInputs(t, i, c, hash_type)
           in(k) == SignedInput(t, i, c, hash_type, k)
<1>1. /\ ins = [k \in 1 .. Len(t.tx_in) |-> in(k)]
      /\ \A k \in 1 .. Len(t.tx_in) : in(k) \in TxIn
      /\ Len(t.tx_in) \in Nat /\ DOMAIN t.tx_in = 1 .. Len(t.tx_in)
  BY SignedInputsAre
<1>2. i \in 1 .. Len(t.tx_in) /\ i \in Nat \ {0} /\ ~(i > Len(t.tx_in))
  BY <1>1
<1> DEFINE none == i > Len(t.tx_in) \/ (Kind(hash_type) = SINGLE /\ i > Len(t.tx_out))
<1>3. none <=> ~Signable(t, i, hash_type)
  BY <1>2, Zenon DEF Signable
<1>4. ASSUME ~Signable(t, i, hash_type) PROVE signature_hash(t, i, c, hash_type) = One
  BY <1>3, <1>4, Zenon DEF signature_hash
<1>5. ASSUME Signable(t, i, hash_type)
      PROVE  /\ Spendable(SignedTx(t, i, c, hash_type))
             /\ signature_hash(t, i, c, hash_type)
                    = <<encode_legacy(SignedTx(t, i, c, hash_type)) \o <<hash_type>> >>
  <2> DEFINE a == IF AnyoneCanPay(hash_type) THEN <<ins[i]>> ELSE ins
             b == IF AnyoneCanPay(hash_type) THEN <<in(i)>> ELSE [k \in 1 .. Len(t.tx_in) |-> in(k)]
             o == SignedOutputs(t, i, hash_type)
  <2>1. signature_hash(t, i, c, hash_type)
            = <<encode_legacy([t EXCEPT !.tx_in = a, !.tx_out = o]) \o <<hash_type>> >>
    BY <1>3, <1>5, Zenon DEF signature_hash, double_sha256
  <2> HIDE DEF in
  <2>2. a = b /\ b \in Seq(TxIn) /\ b # <<>>
    BY <1>1, <1>2
  <2>3. o \in Seq(TxOut)
    BY <1>2, <1>5, SignedOutputsType
  <2> HIDE DEF a, b, o
  <2>4. [t EXCEPT !.tx_in = a, !.tx_out = o]
            = [version |-> t.version, tx_in |-> b, tx_out |-> o, lock_time |-> t.lock_time]
    <3>1. t = [version |-> t.version, tx_in |-> t.tx_in, tx_out |-> t.tx_out,
               lock_time |-> t.lock_time]
      BY DEF Tx
    <3> DEFINE g == [t EXCEPT !.tx_in = a]
    <3>2. [t EXCEPT !.tx_in = a, !.tx_out = o] = [g EXCEPT !.tx_out = o]
      OBVIOUS
    <3>3. g = [version |-> t.version, tx_in |-> a, tx_out |-> t.tx_out,
               lock_time |-> t.lock_time]
      BY <3>1
    <3> HIDE DEF g
    <3>4. [g EXCEPT !.tx_out = o]
              = [version |-> t.version, tx_in |-> a, tx_out |-> o, lock_time |-> t.lock_time]
      BY <3>3
    <3>5. QED
      BY <2>2, <3>2, <3>4
  <2>5. SignedTx(t, i, c, hash_type)
            = [version |-> t.version, tx_in |-> b, tx_out |-> o, lock_time |-> t.lock_time]
    BY Zenon DEF SignedTx, b, in, o
  <2>6. Spendable(SignedTx(t, i, c, hash_type))
    BY <2>2, <2>3, <2>5 DEF Spendable, Tx
  <2>7. QED
    BY <2>1, <2>4, <2>5, <2>6
<1>6. QED
  BY <1>4, <1>5

\* Two hashes are the same if and only if there is nothing to sign in either
\* transaction, or both are signed in the same form.
LEMMA SameHash ==
    ASSUME NEW t \in Tx, NEW i \in DOMAIN t.tx_in, NEW c \in Cells,
           NEW u \in Tx, NEW j \in DOMAIN u.tx_in, NEW d \in Cells,
           NEW hash_type \in Int
    PROVE  signature_hash(t, i, c, hash_type) = signature_hash(u, j, d, hash_type)
           <=> \/ ~Signable(t, i, hash_type) /\ ~Signable(u, j, hash_type)
               \/ /\ Signable(t, i, hash_type) /\ Signable(u, j, hash_type)
                  /\ SignedTx(t, i, c, hash_type) = SignedTx(u, j, d, hash_type)
<1> DEFINE a == signature_hash(t, i, c, hash_type)
           b == signature_hash(u, j, d, hash_type)
           p == SignedTx(t, i, c, hash_type)
           q == SignedTx(u, j, d, hash_type)
           z == <<hash_type>>
<1>1. /\ ~Signable(t, i, hash_type) => a = One
      /\ Signable(t, i, hash_type) => Spendable(p) /\ a = <<encode_legacy(p) \o z>>
  BY HashIs
<1>2. /\ ~Signable(u, j, hash_type) => b = One
      /\ Signable(u, j, hash_type) => Spendable(q) /\ b = <<encode_legacy(q) \o z>>
  BY HashIs
<1>3. z \in Cells
  BY DEF Cells
<1> HIDE DEF a, b, p, q, z
<1>4. \A e : <<e>> # One
  BY DEF One
<1>5. CASE Signable(t, i, hash_type) /\ Signable(u, j, hash_type)
  <2>1. a = b => encode_legacy(p) \o z = encode_legacy(q) \o z
    BY <1>1, <1>2, <1>5
  <2>2. a = b => p = q
    BY <1>1, <1>2, <1>3, <1>5, <2>1, LegacyBinds
  <2>3. p = q => a = b
    BY <1>1, <1>2, <1>5
  <2>4. QED
    BY <1>5, <2>2, <2>3 DEF a, b, p, q
<1>6. CASE ~(Signable(t, i, hash_type) /\ Signable(u, j, hash_type))
  <2>1. a = b <=> ~Signable(t, i, hash_type) /\ ~Signable(u, j, hash_type)
    BY <1>1, <1>2, <1>4, <1>6
  <2>2. QED
    BY <1>6, <2>1 DEF a, b
<1>7. QED
  BY <1>5, <1>6

\* Two inputs spend the same output.
SamePoint(a, b) == a.hash = b.hash /\ a.index = b.index

\* The hash type commits to the other inputs' sequences and to all outputs.
Committed(hash_type) == Kind(hash_type) \notin {NONE, SINGLE}

\* The inputs other than the one signed are the same, as far as signed.
OthersKept(t, i, u, j, hash_type) ==
    /\ i = j /\ Len(t.tx_in) = Len(u.tx_in)
    /\ \A k \in 1 .. Len(t.tx_in) :
           k # i => /\ SamePoint(t.tx_in[k], u.tx_in[k])
                    /\ Committed(hash_type) => t.tx_in[k].sequence = u.tx_in[k].sequence

OutputsKept(t, i, u, j, hash_type) ==
    /\ Committed(hash_type) => t.tx_out = u.tx_out
    /\ Kind(hash_type) = SINGLE => i = j /\ t.tx_out[i] = u.tx_out[j]

MineKept(t, i, u, j) ==
    SamePoint(t.tx_in[i], u.tx_in[j]) /\ t.tx_in[i].sequence = u.tx_in[j].sequence

\* Every part that is signed is the same, part by part.
PartsKept(t, i, c, u, j, d, hash_type) ==
    /\ t.version = u.version /\ t.lock_time = u.lock_time /\ c = d
    /\ MineKept(t, i, u, j)
    /\ ~AnyoneCanPay(hash_type) => OthersKept(t, i, u, j, hash_type)
    /\ OutputsKept(t, i, u, j, hash_type)

\* What is signed of the inputs without ANYONECANPAY, and with it.
AllInputs(t, i, c, hash_type) ==
    [k \in 1 .. Len(t.tx_in) |-> SignedInput(t, i, c, hash_type, k)]

OneInput(t, i, c, hash_type) == <<SignedInput(t, i, c, hash_type, i)>>

\* The signed inputs tell the place of the input that is spent: it is the
\* one with a script.
LEMMA AllInputsSame ==
    ASSUME NEW t \in Tx, NEW i \in 1 .. Len(t.tx_in), NEW c \in ScriptCode,
           NEW u \in Tx, NEW j \in 1 .. Len(u.tx_in), NEW d \in ScriptCode, NEW hash_type
    PROVE  AllInputs(t, i, c, hash_type) = AllInputs(u, j, d, hash_type)
           <=> c = d /\ MineKept(t, i, u, j) /\ OthersKept(t, i, u, j, hash_type)
<1> DEFINE n == Len(t.tx_in)
           m == Len(u.tx_in)
           a(k) == SignedInput(t, i, c, hash_type, k)
           b(k) == SignedInput(u, j, d, hash_type, k)
<1>1. n \in Nat /\ m \in Nat
  BY LenProperties DEF Tx
<1>2. c # <<>> /\ d # <<>>
  BY DEF ScriptCode
<1>3. \A k : /\ a(k).hash = t.tx_in[k].hash /\ a(k).index = t.tx_in[k].index
             /\ a(k).script_sig = (IF k = i THEN c ELSE <<>>)
             /\ b(k).hash = u.tx_in[k].hash /\ b(k).index = u.tx_in[k].index
             /\ b(k).script_sig = (IF k = j THEN d ELSE <<>>)
  BY DEF SignedInput
<1>4. \A k : /\ k = i \/ Committed(hash_type) => a(k).sequence = t.tx_in[k].sequence
             /\ k = j \/ Committed(hash_type) => b(k).sequence = u.tx_in[k].sequence
             /\ k # i /\ ~Committed(hash_type) => a(k).sequence = 0
             /\ k # j /\ ~Committed(hash_type) => b(k).sequence = 0
  BY DEF SignedInput, Committed
<1>5. \A k, l : /\ a(k) = [hash |-> a(k).hash, index |-> a(k).index,
                           script_sig |-> a(k).script_sig, sequence |-> a(k).sequence]
                /\ b(l) = [hash |-> b(l).hash, index |-> b(l).index,
                           script_sig |-> b(l).script_sig, sequence |-> b(l).sequence]
  BY DEF SignedInput
<1> DEFINE f == [k \in 1 .. n |-> a(k)]
           g == [k \in 1 .. m |-> b(k)]
<1> HIDE DEF a, b
<1>6. ASSUME f = g
      PROVE  c = d /\ MineKept(t, i, u, j) /\ OthersKept(t, i, u, j, hash_type)
  <2>1. n = m
    <3>1. DOMAIN f = 1 .. n /\ DOMAIN g = 1 .. m
      OBVIOUS
    <3> HIDE DEF f, g, n, m
    <3>2. 1 .. n = 1 .. m
      BY <1>6, <3>1
    <3>3. QED
      BY <1>1, <3>2
  <2>2. \A k \in 1 .. n : a(k) = b(k)
    <3>1. \A k \in 1 .. n : f[k] = a(k) /\ g[k] = b(k)
      BY <2>1
    <3> HIDE DEF f, g, n, m
    <3>2. QED
      BY <1>6, <3>1
  <2>3. i = j /\ c = d
    <3>1. a(i).script_sig = b(i).script_sig
      BY <2>2
    <3>2. QED
      BY <1>2, <1>3, <3>1
  <2>4. MineKept(t, i, u, j)
    <3>1. a(i) = b(i)
      BY <2>2
    <3>2. QED
      BY <1>3, <1>4, <2>3, <3>1 DEF MineKept, SamePoint
  <2>5. OthersKept(t, i, u, j, hash_type)
    BY <1>3, <1>4, <2>1, <2>2, <2>3 DEF OthersKept, SamePoint
  <2>6. QED
    BY <2>3, <2>4, <2>5
<1>7. ASSUME c = d, MineKept(t, i, u, j), OthersKept(t, i, u, j, hash_type)
      PROVE  f = g
  <2>1. n = m /\ i = j
    BY <1>7 DEF OthersKept
  <2>2. ASSUME NEW k \in 1 .. n PROVE a(k) = b(k)
    <3>1. SamePoint(t.tx_in[k], u.tx_in[k])
      BY <1>7, <2>1 DEF OthersKept, MineKept
    <3>2. a(k).hash = b(k).hash /\ a(k).index = b(k).index /\ a(k).script_sig = b(k).script_sig
      BY <1>3, <1>7, <2>1, <3>1 DEF SamePoint
    <3>3. a(k).sequence = b(k).sequence
      BY <1>4, <1>7, <2>1 DEF OthersKept, MineKept
    <3>4. QED
      BY <1>5, <3>2, <3>3
  <2>3. QED
    BY <2>1, <2>2
<1>8. QED
  BY <1>6, <1>7 DEF AllInputs, a, b

\* With ANYONECANPAY only the input that is spent is signed.
LEMMA OneInputSame ==
    ASSUME NEW t, NEW i, NEW c, NEW u, NEW j, NEW d, NEW hash_type
    PROVE  OneInput(t, i, c, hash_type) = OneInput(u, j, d, hash_type)
           <=> c = d /\ MineKept(t, i, u, j)
<1> DEFINE a == SignedInput(t, i, c, hash_type, i)
           b == SignedInput(u, j, d, hash_type, j)
<1>1. /\ a = [hash |-> t.tx_in[i].hash, index |-> t.tx_in[i].index, script_sig |-> c,
              sequence |-> t.tx_in[i].sequence]
      /\ b = [hash |-> u.tx_in[j].hash, index |-> u.tx_in[j].index, script_sig |-> d,
              sequence |-> u.tx_in[j].sequence]
  BY DEF SignedInput
<1> HIDE DEF a, b
<1>2. a = b <=> c = d /\ MineKept(t, i, u, j)
  BY <1>1 DEF MineKept, SamePoint
<1>3. <<a>> = <<b>> <=> a = b
  OBVIOUS
<1>4. QED
  BY <1>2, <1>3 DEF OneInput, a, b

\* The signed outputs are as many as the place of the input with SINGLE.
LEMMA OutputsSame ==
    ASSUME NEW t \in Tx, NEW i \in Nat \ {0}, NEW u \in Tx, NEW j \in Nat \ {0},
           NEW hash_type
    PROVE  SignedOutputs(t, i, hash_type) = SignedOutputs(u, j, hash_type)
           <=> OutputsKept(t, i, u, j, hash_type)
<1>0. NONE # SINGLE
  BY DEF NONE, SINGLE
<1>1. CASE Kind(hash_type) = NONE
  <2>1. SignedOutputs(t, i, hash_type) = <<>> /\ SignedOutputs(u, j, hash_type) = <<>>
    BY <1>0, <1>1, Zenon DEF SignedOutputs
  <2>2. OutputsKept(t, i, u, j, hash_type)
    BY <1>0, <1>1 DEF OutputsKept, Committed
  <2>3. QED
    BY <2>1, <2>2
<1>2. CASE Kind(hash_type) = SINGLE
  <2> DEFINE f == [k \in 1 .. i |-> IF k < i THEN Blank ELSE t.tx_out[i]]
             g == [k \in 1 .. j |-> IF k < j THEN Blank ELSE u.tx_out[j]]
  <2>1. SignedOutputs(t, i, hash_type) = f /\ SignedOutputs(u, j, hash_type) = g
    BY <1>0, <1>2, Zenon DEF SignedOutputs
  <2>2. OutputsKept(t, i, u, j, hash_type) <=> i = j /\ t.tx_out[i] = u.tx_out[j]
    BY <1>2 DEF OutputsKept, Committed
  <2>3. ASSUME f = g PROVE i = j /\ t.tx_out[i] = u.tx_out[j]
    <3>1. DOMAIN f = 1 .. i /\ DOMAIN g = 1 .. j /\ f[i] = t.tx_out[i] /\ g[j] = u.tx_out[j]
      OBVIOUS
    <3> HIDE DEF f, g
    <3>2. i = j
      BY <2>3, <3>1
    <3>3. QED
      BY <2>3, <3>1, <3>2
  <2>4. i = j /\ t.tx_out[i] = u.tx_out[j] => f = g
    OBVIOUS
  <2> HIDE DEF f, g
  <2>5. QED
    BY <2>1, <2>2, <2>3, <2>4
<1>3. CASE Kind(hash_type) # NONE /\ Kind(hash_type) # SINGLE
  <2>1. /\ SignedOutputs(t, i, hash_type) = t.tx_out
        /\ SignedOutputs(u, j, hash_type) = u.tx_out
    BY <1>3, Zenon DEF SignedOutputs
  <2>2. OutputsKept(t, i, u, j, hash_type) <=> t.tx_out = u.tx_out
    BY <1>3 DEF OutputsKept, Committed
  <2>3. QED
    BY <2>1, <2>2
<1>4. QED
  BY <1>1, <1>2, <1>3

\* Two transactions are signed in the same form if and only if every signed
\* part is the same.
LEMMA SignedTxSame ==
    ASSUME NEW t \in Tx, NEW i \in 1 .. Len(t.tx_in), NEW c \in ScriptCode,
           NEW u \in Tx, NEW j \in 1 .. Len(u.tx_in), NEW d \in ScriptCode, NEW hash_type
    PROVE  SignedTx(t, i, c, hash_type) = SignedTx(u, j, d, hash_type)
           <=> PartsKept(t, i, c, u, j, d, hash_type)
<1> DEFINE a == IF AnyoneCanPay(hash_type) THEN <<SignedInput(t, i, c, hash_type, i)>>
                ELSE [k \in 1 .. Len(t.tx_in) |-> SignedInput(t, i, c, hash_type, k)]
           b == IF AnyoneCanPay(hash_type) THEN <<SignedInput(u, j, d, hash_type, j)>>
                ELSE [k \in 1 .. Len(u.tx_in) |-> SignedInput(u, j, d, hash_type, k)]
           o == SignedOutputs(t, i, hash_type)
           p == SignedOutputs(u, j, hash_type)
<1> HIDE DEF a, b, o, p
<1>1. a = b <=> /\ c = d /\ MineKept(t, i, u, j)
                /\ ~AnyoneCanPay(hash_type) => OthersKept(t, i, u, j, hash_type)
  <2>1. CASE AnyoneCanPay(hash_type)
    <3> DEFINE f == OneInput(t, i, c, hash_type)
               g == OneInput(u, j, d, hash_type)
    <3>1. f = g <=> c = d /\ MineKept(t, i, u, j)
      BY OneInputSame
    <3>2. a = f /\ b = g
      BY <2>1, Zenon DEF OneInput, a, b
    <3> HIDE DEF f, g
    <3>3. QED
      BY <2>1, <3>1, <3>2
  <2>2. CASE ~AnyoneCanPay(hash_type)
    <3> DEFINE f == AllInputs(t, i, c, hash_type)
               g == AllInputs(u, j, d, hash_type)
    <3>1. f = g <=> c = d /\ MineKept(t, i, u, j) /\ OthersKept(t, i, u, j, hash_type)
      BY AllInputsSame
    <3>2. a = f /\ b = g
      BY <2>2, Zenon DEF AllInputs, a, b
    <3> HIDE DEF f, g
    <3>3. QED
      BY <2>2, <3>1, <3>2
  <2>3. QED
    BY <2>1, <2>2
<1>2. o = p <=> OutputsKept(t, i, u, j, hash_type)
  <2>1. i \in Nat \ {0} /\ j \in Nat \ {0}
    OBVIOUS
  <2>2. QED
    BY <2>1, OutputsSame, Zenon DEF o, p
<1>3. /\ SignedTx(t, i, c, hash_type)
            = [version |-> t.version, tx_in |-> a, tx_out |-> o, lock_time |-> t.lock_time]
      /\ SignedTx(u, j, d, hash_type)
            = [version |-> u.version, tx_in |-> b, tx_out |-> p, lock_time |-> u.lock_time]
  BY Zenon DEF SignedTx, a, b, o, p
<1>4. SignedTx(t, i, c, hash_type) = SignedTx(u, j, d, hash_type)
      <=> t.version = u.version /\ a = b /\ o = p /\ t.lock_time = u.lock_time
  BY <1>3
<1>5. QED
  BY <1>1, <1>2, <1>4, Zenon DEF PartsKept

\* The parts of Bound, each under its tag.
Point(t, k)     == WriteFields(t.tx_in[k], Outpoint)
AllPart(t, c)   == <<"all", <<t.version, t.lock_time, c>>>>
MinePart(t, i)  == <<"mine", <<Point(t, i), t.tx_in[i].sequence>>>>
InputPart(t, k) == <<"input", <<k, Point(t, k)>>>>
SequencePart(t, k) == <<"sequence", <<k, t.tx_in[k].sequence>>>>
OutputPart(t, k)   == <<"output", <<k, t.tx_out[k]>>>>
PlacePart(i)       == <<"place", <<i>>>>
Others(t, i, hash_type) == IF AnyoneCanPay(hash_type) THEN {} ELSE DOMAIN t.tx_in \ {i}

\* What Bound is, of a transaction in which there is something to sign.
LEMMA BoundIs ==
    ASSUME NEW t \in Tx, NEW i \in DOMAIN t.tx_in, NEW c, NEW hash_type,
           Signable(t, i, hash_type)
    PROVE  Bound(t, i, c, hash_type)
           = {AllPart(t, c), MinePart(t, i)}
             \cup {InputPart(t, k) : k \in Others(t, i, hash_type)}
             \cup (IF Committed(hash_type)
                   THEN {SequencePart(t, k) : k \in Others(t, i, hash_type)}
                        \cup {OutputPart(t, k) : k \in DOMAIN t.tx_out}
                   ELSE {})
             \cup (IF Kind(hash_type) = SINGLE THEN {OutputPart(t, i)} ELSE {})
             \cup (IF AnyoneCanPay(hash_type) THEN {} ELSE {PlacePart(i)})
<1>1. ~(Kind(hash_type) = SINGLE /\ i \notin DOMAIN t.tx_out)
  BY DEF Signable, Tx
<1>2. (IF Committed(hash_type)
       THEN {SequencePart(t, k) : k \in Others(t, i, hash_type)}
            \cup {OutputPart(t, k) : k \in DOMAIN t.tx_out}
       ELSE {})
      = (IF Kind(hash_type) \in {NONE, SINGLE} THEN {}
         ELSE {SequencePart(t, k) : k \in Others(t, i, hash_type)}
              \cup {OutputPart(t, k) : k \in DOMAIN t.tx_out})
  BY DEF Committed
<1>3. QED
  BY <1>1, <1>2, Zenon DEF Bound, AllPart, MinePart, InputPart, SequencePart, OutputPart, PlacePart,
     Others, Point

\* Outpoints are bound as hash and index, and so are the same with these.
LEMMA SameOutpoint ==
    ASSUME NEW t, NEW i, NEW u, NEW j
    PROVE  Point(t, i) = Point(u, j) <=> SamePoint(t.tx_in[i], u.tx_in[j])
<1>1. /\ Point(t, i) = <<t.tx_in[i].hash, t.tx_in[i].index>>
      /\ Point(u, j) = <<u.tx_in[j].hash, u.tx_in[j].index>>
  BY DEF Point, WriteFields, Outpoint
<1>2. QED
  BY <1>1 DEF SamePoint

\* The part that a tag stands for can be told from the bound parts.
LEMMA BoundTags ==
    ASSUME NEW t \in Tx, NEW i \in DOMAIN t.tx_in, NEW c, NEW hash_type,
           Signable(t, i, hash_type)
    PROVE  /\ \A x : <<"all", x>> \in Bound(t, i, c, hash_type)
                     <=> x = <<t.version, t.lock_time, c>>
           /\ \A x : <<"mine", x>> \in Bound(t, i, c, hash_type)
                     <=> x = <<Point(t, i), t.tx_in[i].sequence>>
           /\ \A k, x : <<"input", <<k, x>>>> \in Bound(t, i, c, hash_type)
                        <=> k \in Others(t, i, hash_type) /\ x = Point(t, k)
           /\ \A k, x : <<"sequence", <<k, x>>>> \in Bound(t, i, c, hash_type)
                        <=> /\ Committed(hash_type) /\ k \in Others(t, i, hash_type)
                            /\ x = t.tx_in[k].sequence
           /\ \A k, x : <<"output", <<k, x>>>> \in Bound(t, i, c, hash_type)
                        <=> \/ Committed(hash_type) /\ k \in DOMAIN t.tx_out /\ x = t.tx_out[k]
                            \/ Kind(hash_type) = SINGLE /\ k = i /\ x = t.tx_out[i]
           /\ \A k : <<"place", <<k>>>> \in Bound(t, i, c, hash_type)
                     <=> ~AnyoneCanPay(hash_type) /\ k = i
<1> DEFINE O == Others(t, i, hash_type)
           p == Point(t, i)
           q(k) == Point(t, k)
           s(k) == t.tx_in[k].sequence
           o(k) == t.tx_out[k]
           D == DOMAIN t.tx_out
           C == Committed(hash_type)
           S == Kind(hash_type) = SINGLE
           P == AnyoneCanPay(hash_type)
<1>1. Bound(t, i, c, hash_type)
      = {<<"all", <<t.version, t.lock_time, c>>>>, <<"mine", <<p, s(i)>>>>}
        \cup {<<"input", <<k, q(k)>>>> : k \in O}
        \cup (IF C THEN {<<"sequence", <<k, s(k)>>>> : k \in O} \cup {<<"output", <<k, o(k)>>>> : k \in D}
              ELSE {})
        \cup (IF S THEN {<<"output", <<i, o(i)>>>>} ELSE {})
        \cup (IF P THEN {} ELSE {<<"place", <<i>>>>})
  BY BoundIs DEF AllPart, MinePart, InputPart, SequencePart, OutputPart, PlacePart
<1> DEFINE B == Bound(t, i, c, hash_type)
<1> HIDE DEF B, O, p, q, s, o, D, C, S, P
<1>2. \A x : <<"all", x>> \in B <=> x = <<t.version, t.lock_time, c>>
  BY <1>1 DEF B
<1>3. \A x : <<"mine", x>> \in B <=> x = <<p, s(i)>>
  BY <1>1 DEF B
<1>4. \A k, x : <<"input", <<k, x>>>> \in B <=> k \in O /\ x = q(k)
  BY <1>1 DEF B
<1>5. \A k, x : <<"sequence", <<k, x>>>> \in B <=> C /\ k \in O /\ x = s(k)
  BY <1>1 DEF B
<1>6. \A k, x : <<"output", <<k, x>>>> \in B
                <=> (C /\ k \in D /\ x = o(k)) \/ (S /\ k = i /\ x = o(i))
  <2> DEFINE all == {<<"output", <<k, o(k)>>>> : k \in D}
             one == {<<"output", <<i, o(i)>>>>}
             W == IF C THEN {<<"sequence", <<k, s(k)>>>> : k \in O} \cup all ELSE {}
             V == IF S THEN one ELSE {}
  <2>1. \A k, x : <<"output", <<k, x>>>> \in all <=> k \in D /\ x = o(k)
    OBVIOUS
  <2>2. \A k, x : <<"output", <<k, x>>>> \in one <=> k = i /\ x = o(i)
    OBVIOUS
  <2> HIDE DEF all, one
  <2>3. \A k, x : <<"output", <<k, x>>>> \in W <=> C /\ k \in D /\ x = o(k)
    BY <2>1
  <2>4. \A e : e \in V <=> S /\ e \in one
    BY Zenon
  <2>5. B = {<<"all", <<t.version, t.lock_time, c>>>>, <<"mine", <<p, s(i)>>>>}
            \cup {<<"input", <<k, q(k)>>>> : k \in O} \cup W \cup V
            \cup (IF P THEN {} ELSE {<<"place", <<i>>>>})
    BY <1>1, Zenon DEF B, all, one
  <2> HIDE DEF W, V
  <2>6. \A k, x : <<"output", <<k, x>>>> \in B
                  <=> <<"output", <<k, x>>>> \in W \/ <<"output", <<k, x>>>> \in V
    BY <2>5
  <2>7. QED
    BY <2>2, <2>3, <2>4, <2>6, Zenon
<1>7. \A k : <<"place", <<k>>>> \in B <=> ~P /\ k = i
  BY <1>1 DEF B
<1>8. QED
  <2>1. \A x : <<"all", x>> \in Bound(t, i, c, hash_type)
                     <=> x = <<t.version, t.lock_time, c>>
    BY <1>2, Zenon DEF B
  <2>2. \A x : <<"mine", x>> \in Bound(t, i, c, hash_type)
                     <=> x = <<Point(t, i), t.tx_in[i].sequence>>
    BY <1>3, Zenon DEF B, p, s
  <2>3. \A k, x : <<"input", <<k, x>>>> \in Bound(t, i, c, hash_type)
                        <=> k \in Others(t, i, hash_type) /\ x = Point(t, k)
    BY <1>4, Zenon DEF B, q, O
  <2>4. \A k, x : <<"sequence", <<k, x>>>> \in Bound(t, i, c, hash_type)
                        <=> /\ Committed(hash_type) /\ k \in Others(t, i, hash_type)
                            /\ x = t.tx_in[k].sequence
    BY <1>5, Zenon DEF B, C, O, s
  <2>5. \A k, x : <<"output", <<k, x>>>> \in Bound(t, i, c, hash_type)
                        <=> \/ Committed(hash_type) /\ k \in DOMAIN t.tx_out /\ x = t.tx_out[k]
                            \/ Kind(hash_type) = SINGLE /\ k = i /\ x = t.tx_out[i]
    BY <1>6, Zenon DEF B, C, D, S, o
  <2>6. \A k : <<"place", <<k>>>> \in Bound(t, i, c, hash_type)
                     <=> ~AnyoneCanPay(hash_type) /\ k = i
    BY <1>7, Zenon DEF B, P
  <2>7. QED
    BY <2>1, <2>2, <2>3, <2>4, <2>5, <2>6, Zenon


\* Without ANYONECANPAY, the other inputs are all but the one signed.
LEMMA OutsideIs ==
    ASSUME NEW t \in Tx, NEW i \in 1 .. Len(t.tx_in), NEW hash_type,
           ~AnyoneCanPay(hash_type)
    PROVE  Others(t, i, hash_type) = (1 .. Len(t.tx_in)) \ {i}
<1>1. DOMAIN t.tx_in = 1 .. Len(t.tx_in)
  BY DEF Tx
<1>2. QED
  BY <1>1 DEF Others

\* The same bound parts, then the same signed parts.
LEMMA BoundSame ==
    ASSUME NEW t \in Tx, NEW i \in 1 .. Len(t.tx_in), NEW c,
           NEW u \in Tx, NEW j \in 1 .. Len(u.tx_in), NEW d, NEW hash_type,
           Signable(t, i, hash_type), Signable(u, j, hash_type),
           Bound(t, i, c, hash_type) = Bound(u, j, d, hash_type)
    PROVE  PartsKept(t, i, c, u, j, d, hash_type)
<1>0. i \in DOMAIN t.tx_in /\ j \in DOMAIN u.tx_in
  BY DEF Tx
<1> DEFINE A == Bound(t, i, c, hash_type)
           B == Bound(u, j, d, hash_type)
<1>1. /\ \A x : <<"all", x>> \in A <=> x = <<t.version, t.lock_time, c>>
      /\ \A x : <<"mine", x>> \in A <=> x = <<Point(t, i), t.tx_in[i].sequence>>
      /\ \A k, x : <<"input", <<k, x>>>> \in A
                   <=> k \in Others(t, i, hash_type) /\ x = Point(t, k)
      /\ \A k, x : <<"sequence", <<k, x>>>> \in A
                   <=> /\ Committed(hash_type) /\ k \in Others(t, i, hash_type)
                       /\ x = t.tx_in[k].sequence
      /\ \A k, x : <<"output", <<k, x>>>> \in A
                   <=> \/ Committed(hash_type) /\ k \in DOMAIN t.tx_out /\ x = t.tx_out[k]
                       \/ Kind(hash_type) = SINGLE /\ k = i /\ x = t.tx_out[i]
      /\ \A k : <<"place", <<k>>>> \in A <=> ~AnyoneCanPay(hash_type) /\ k = i
  BY <1>0, BoundTags
<1>2. /\ \A x : <<"all", x>> \in B <=> x = <<u.version, u.lock_time, d>>
      /\ \A x : <<"mine", x>> \in B <=> x = <<Point(u, j), u.tx_in[j].sequence>>
      /\ \A k, x : <<"input", <<k, x>>>> \in B
                   <=> k \in Others(u, j, hash_type) /\ x = Point(u, k)
      /\ \A k, x : <<"sequence", <<k, x>>>> \in B
                   <=> /\ Committed(hash_type) /\ k \in Others(u, j, hash_type)
                       /\ x = u.tx_in[k].sequence
      /\ \A k, x : <<"output", <<k, x>>>> \in B
                   <=> \/ Committed(hash_type) /\ k \in DOMAIN u.tx_out /\ x = u.tx_out[k]
                       \/ Kind(hash_type) = SINGLE /\ k = j /\ x = u.tx_out[j]
      /\ \A k : <<"place", <<k>>>> \in B <=> ~AnyoneCanPay(hash_type) /\ k = j
  BY <1>0, BoundTags
<1>3. A = B
  OBVIOUS
<1> HIDE DEF A, B
<1>4. t.version = u.version /\ t.lock_time = u.lock_time /\ c = d
  <2>0. \A x : x = <<t.version, t.lock_time, c>> <=> x = <<u.version, u.lock_time, d>>
    BY <1>1, <1>2, <1>3, Zenon
  <2>1. <<t.version, t.lock_time, c>> = <<u.version, u.lock_time, d>>
    BY <2>0
  <2>2. QED
    BY <2>1
<1>5. MineKept(t, i, u, j)
  <2>0. \A x : x = <<Point(t, i), t.tx_in[i].sequence>>
               <=> x = <<Point(u, j), u.tx_in[j].sequence>>
    BY <1>1, <1>2, <1>3, Zenon
  <2>1. <<Point(t, i), t.tx_in[i].sequence>> = <<Point(u, j), u.tx_in[j].sequence>>
    BY <2>0
  <2>2. Point(t, i) = Point(u, j) /\ t.tx_in[i].sequence = u.tx_in[j].sequence
    BY <2>1
  <2>3. QED
    BY <2>2, SameOutpoint, Zenon DEF MineKept
<1>6. ASSUME ~AnyoneCanPay(hash_type) PROVE OthersKept(t, i, u, j, hash_type)
  <2>1. i = j
    BY <1>1, <1>2, <1>3, <1>6, Zenon
  <2>2. \A k : k \in Others(t, i, hash_type) <=> k \in Others(u, j, hash_type)
    BY <1>1, <1>2, <1>3, Zenon
  <2>3. Len(t.tx_in) = Len(u.tx_in)
    <3>1. /\ Others(t, i, hash_type) = (1 .. Len(t.tx_in)) \ {i}
          /\ Others(u, j, hash_type) = (1 .. Len(u.tx_in)) \ {j}
      BY <1>6, OutsideIs
    <3>2. 1 .. Len(t.tx_in) = 1 .. Len(u.tx_in)
      BY <2>1, <2>2, <3>1
    <3>3. Len(t.tx_in) \in Nat /\ Len(u.tx_in) \in Nat
      BY LenProperties DEF Tx
    <3>4. QED
      BY <3>2, <3>3
  <2>4. ASSUME NEW k \in 1 .. Len(t.tx_in), k # i
        PROVE  /\ SamePoint(t.tx_in[k], u.tx_in[k])
               /\ Committed(hash_type) => t.tx_in[k].sequence = u.tx_in[k].sequence
    <3>1. k \in Others(t, i, hash_type)
      BY <1>6, <2>4, OutsideIs
    <3>2. Point(t, k) = Point(u, k)
      BY <1>1, <1>2, <1>3, <3>1, Zenon
    <3>3. ASSUME Committed(hash_type) PROVE t.tx_in[k].sequence = u.tx_in[k].sequence
      <4>1. \A x : x = t.tx_in[k].sequence <=> x = u.tx_in[k].sequence
        BY <1>1, <1>2, <1>3, <2>2, <3>1, <3>3, Zenon
      <4>2. QED
        BY <4>1
    <3>4. QED
      BY <3>2, <3>3, SameOutpoint, Zenon
  <2>5. QED
    BY <2>1, <2>3, <2>4, Zenon DEF OthersKept
<1>7. OutputsKept(t, i, u, j, hash_type)
  <2>0. Committed(hash_type) => Kind(hash_type) # SINGLE
    BY DEF Committed
  <2>1. ASSUME Committed(hash_type) PROVE t.tx_out = u.tx_out
    <3>1. \A k, x : k \in DOMAIN t.tx_out /\ x = t.tx_out[k]
                    <=> k \in DOMAIN u.tx_out /\ x = u.tx_out[k]
      BY <1>1, <1>2, <1>3, <2>0, <2>1, Zenon
    <3>2. t.tx_out \in Seq(TxOut) /\ u.tx_out \in Seq(TxOut)
      BY DEF Tx
    <3>3. /\ DOMAIN t.tx_out = DOMAIN u.tx_out
          /\ \A k \in DOMAIN t.tx_out : t.tx_out[k] = u.tx_out[k]
      BY <3>1, Zenon
    <3>4. QED
      BY <3>2, <3>3
  <2>2. ASSUME Kind(hash_type) = SINGLE PROVE i = j /\ t.tx_out[i] = u.tx_out[j]
    <3>1. \A k, x : k = i /\ x = t.tx_out[i] <=> k = j /\ x = u.tx_out[j]
      BY <1>1, <1>2, <1>3, <2>0, <2>2, Zenon
    <3>2. QED
      BY <3>1
  <2>3. QED
    BY <2>1, <2>2 DEF OutputsKept
<1>8. QED
  BY <1>4, <1>5, <1>6, <1>7 DEF PartsKept

\* The same signed parts, then the same bound parts.
LEMMA PartsBound ==
    ASSUME NEW t \in Tx, NEW i \in 1 .. Len(t.tx_in), NEW c,
           NEW u \in Tx, NEW j \in 1 .. Len(u.tx_in), NEW d, NEW hash_type,
           Signable(t, i, hash_type), Signable(u, j, hash_type),
           PartsKept(t, i, c, u, j, d, hash_type)
    PROVE  Bound(t, i, c, hash_type) = Bound(u, j, d, hash_type)
<1>0. i \in DOMAIN t.tx_in /\ j \in DOMAIN u.tx_in
  BY DEF Tx
<1>1. AllPart(t, c) = AllPart(u, d)
  BY DEF PartsKept, AllPart
<1>2. MinePart(t, i) = MinePart(u, j)
  <2>1. MineKept(t, i, u, j)
    BY DEF PartsKept
  <2>2. Point(t, i) = Point(u, j)
    BY <2>1, SameOutpoint DEF MineKept
  <2>3. QED
    BY <2>1, <2>2 DEF MinePart, MineKept
<1>3. /\ Others(t, i, hash_type) = Others(u, j, hash_type)
      /\ \A k \in Others(t, i, hash_type) :
            /\ InputPart(t, k) = InputPart(u, k)
            /\ Committed(hash_type) => SequencePart(t, k) = SequencePart(u, k)
  <2>1. CASE AnyoneCanPay(hash_type)
    BY <2>1 DEF Others
  <2>2. CASE ~AnyoneCanPay(hash_type)
    <3>1. OthersKept(t, i, u, j, hash_type)
      BY <2>2 DEF PartsKept
    <3>2. /\ Others(t, i, hash_type) = (1 .. Len(t.tx_in)) \ {i}
          /\ Others(u, j, hash_type) = (1 .. Len(u.tx_in)) \ {j}
      BY <2>2, OutsideIs
    <3>3. Others(t, i, hash_type) = Others(u, j, hash_type)
      BY <3>1, <3>2 DEF OthersKept
    <3>4. ASSUME NEW k \in Others(t, i, hash_type)
          PROVE  /\ InputPart(t, k) = InputPart(u, k)
                 /\ Committed(hash_type) => SequencePart(t, k) = SequencePart(u, k)
      <4>1. /\ SamePoint(t.tx_in[k], u.tx_in[k])
            /\ Committed(hash_type) => t.tx_in[k].sequence = u.tx_in[k].sequence
        BY <3>1, <3>2 DEF OthersKept
      <4>2. Point(t, k) = Point(u, k)
        BY <4>1, SameOutpoint
      <4>3. QED
        BY <4>1, <4>2 DEF InputPart, SequencePart
    <3>5. QED
      BY <3>3, <3>4
  <2>3. QED
    BY <2>1, <2>2
<1>4. /\ Committed(hash_type) => \A k : OutputPart(t, k) = OutputPart(u, k)
      /\ Committed(hash_type) => DOMAIN t.tx_out = DOMAIN u.tx_out
      /\ Kind(hash_type) = SINGLE => OutputPart(t, i) = OutputPart(u, j)
  BY DEF PartsKept, OutputsKept, OutputPart
<1>5. ~AnyoneCanPay(hash_type) => PlacePart(i) = PlacePart(j)
  BY DEF PartsKept, OthersKept
<1> DEFINE O == Others(t, i, hash_type)
           C == Committed(hash_type)
           S == Kind(hash_type) = SINGLE
           P == AnyoneCanPay(hash_type)
           I(v) == {InputPart(v, k) : k \in O}
           Q(v) == {SequencePart(v, k) : k \in O}
           W(v) == {OutputPart(v, k) : k \in DOMAIN v.tx_out}
<1>6. I(t) = I(u)
  BY <1>3
<1>7. C => Q(t) = Q(u) /\ W(t) = W(u)
  BY <1>3, <1>4
<1>8. /\ Bound(t, i, c, hash_type)
           = {AllPart(t, c), MinePart(t, i)} \cup I(t)
             \cup (IF C THEN Q(t) \cup W(t) ELSE {})
             \cup (IF S THEN {OutputPart(t, i)} ELSE {})
             \cup (IF P THEN {} ELSE {PlacePart(i)})
      /\ Bound(u, j, d, hash_type)
           = {AllPart(u, d), MinePart(u, j)} \cup I(u)
             \cup (IF C THEN Q(u) \cup W(u) ELSE {})
             \cup (IF S THEN {OutputPart(u, j)} ELSE {})
             \cup (IF P THEN {} ELSE {PlacePart(j)})
  BY <1>0, <1>3, BoundIs
<1> HIDE DEF I, Q, W, C, P
<1>9. QED
  BY <1>1, <1>2, <1>4, <1>5, <1>6, <1>7, <1>8 DEF P

\* Two signature hashes are the same if and only if they bind the same parts.
LEMMA HashBinds ==
    ASSUME NEW t \in Tx, NEW i \in 1 .. Len(t.tx_in), NEW c \in ScriptCode,
           NEW u \in Tx, NEW j \in 1 .. Len(u.tx_in), NEW d \in ScriptCode,
           NEW hash_type \in Int
    PROVE  signature_hash(t, i, c, hash_type) = signature_hash(u, j, d, hash_type)
           <=> Bound(t, i, c, hash_type) = Bound(u, j, d, hash_type)
<1>0. /\ i \in DOMAIN t.tx_in /\ j \in DOMAIN u.tx_in /\ c \in Cells /\ d \in Cells
  BY DEF Tx, ScriptCode
<1>1. /\ ~Signable(t, i, hash_type) => Bound(t, i, c, hash_type) = {}
      /\ ~Signable(u, j, hash_type) => Bound(u, j, d, hash_type) = {}
  <2>1. ASSUME NEW v \in Tx, NEW k \in 1 .. Len(v.tx_in), NEW e,
               ~Signable(v, k, hash_type)
        PROVE  Bound(v, k, e, hash_type) = {}
    <3>1. Kind(hash_type) = SINGLE /\ k \notin DOMAIN v.tx_out
      BY <2>1 DEF Signable, Tx
    <3>2. QED
      BY <3>1, Zenon DEF Bound
  <2>2. QED
    BY <2>1
<1>2. /\ Signable(t, i, hash_type) => Bound(t, i, c, hash_type) # {}
      /\ Signable(u, j, hash_type) => Bound(u, j, d, hash_type) # {}
  <2>1. ASSUME NEW v \in Tx, NEW k \in DOMAIN v.tx_in, NEW e, Signable(v, k, hash_type)
        PROVE  Bound(v, k, e, hash_type) # {}
    <3>1. AllPart(v, e) \in Bound(v, k, e, hash_type)
      BY <2>1, BoundIs
    <3>2. QED
      BY <3>1
  <2>2. QED
    BY <1>0, <2>1
<1>3. CASE Signable(t, i, hash_type) /\ Signable(u, j, hash_type)
  <2>1. signature_hash(t, i, c, hash_type) = signature_hash(u, j, d, hash_type)
        <=> SignedTx(t, i, c, hash_type) = SignedTx(u, j, d, hash_type)
    BY <1>0, <1>3, SameHash
  <2>2. SignedTx(t, i, c, hash_type) = SignedTx(u, j, d, hash_type)
        <=> PartsKept(t, i, c, u, j, d, hash_type)
    BY SignedTxSame
  <2>3. Bound(t, i, c, hash_type) = Bound(u, j, d, hash_type)
        <=> PartsKept(t, i, c, u, j, d, hash_type)
    BY <1>3, BoundSame, PartsBound
  <2>4. QED
    BY <2>1, <2>2, <2>3
<1>4. CASE ~(Signable(t, i, hash_type) /\ Signable(u, j, hash_type))
  <2>1. signature_hash(t, i, c, hash_type) = signature_hash(u, j, d, hash_type)
        <=> ~Signable(t, i, hash_type) /\ ~Signable(u, j, hash_type)
    BY <1>0, <1>4, SameHash
  <2>2. Bound(t, i, c, hash_type) = Bound(u, j, d, hash_type)
        <=> ~Signable(t, i, hash_type) /\ ~Signable(u, j, hash_type)
    BY <1>1, <1>2, <1>4
  <2>3. QED
    BY <2>1, <2>2
<1>5. QED
  BY <1>3, <1>4


---------------------------------------------------------------------------
\* A transaction that is amended is still a transaction, and keeps its inputs.
LEMMA InputsChanged ==
    ASSUME NEW t \in Tx, NEW s \in Seq(TxIn)
    PROVE  [t EXCEPT !.tx_in = s] \in Tx /\ [t EXCEPT !.tx_in = s].tx_in = s
BY DEF Tx

\* The same for its outputs, which leave the inputs alone.
LEMMA OutputsChanged ==
    ASSUME NEW t \in Tx, NEW s \in Seq(TxOut)
    PROVE  [t EXCEPT !.tx_out = s] \in Tx /\ [t EXCEPT !.tx_out = s].tx_in = t.tx_in
BY DEF Tx

\* Changed inputs are inputs, and none is lost.
LEMMA ChangedInputsAre ==
    ASSUME NEW ins \in Seq(TxIn), NEW s \in ChangedInputs(ins)
    PROVE  s \in Seq(TxIn) /\ Len(ins) <= Len(s)
<1>0. Len(ins) \in Nat
  BY LenProperties
<1>1. ASSUME NEW j \in DOMAIN ins, NEW in \in TxIn, s = [ins EXCEPT ![j] = in]
      PROVE  s \in Seq(TxIn) /\ Len(ins) <= Len(s)
  BY <1>0, <1>1, ExceptSeq
<1>2. CASE s = Append(ins, Another)
  <2>1. Another \in TxIn
    BY DEF Another, TxIn, Cells
  <2>2. Append(ins, Another) \in Seq(TxIn) /\ Len(Append(ins, Another)) = Len(ins) + 1
    BY <2>1
  <2>3. QED
    BY <1>0, <1>2, <2>2
<1> DEFINE F(j) == {[ins EXCEPT ![j] = [@ EXCEPT !.index = 8]],
                    [ins EXCEPT ![j] = [@ EXCEPT !.sequence = 9]],
                    [ins EXCEPT ![j] = [@ EXCEPT !.script_sig = <<9>>]]}
<1>3. ASSUME NEW j \in DOMAIN ins, s \in F(j)
      PROVE  s \in Seq(TxIn) /\ Len(ins) <= Len(s)
  <2>1. /\ [ins[j] EXCEPT !.index = 8] \in TxIn
        /\ [ins[j] EXCEPT !.sequence = 9] \in TxIn
        /\ [ins[j] EXCEPT !.script_sig = <<9>>] \in TxIn
    <3>1. <<9>> \in Cells
      BY DEF Cells
    <3>2. ASSUME NEW in \in TxIn
          PROVE  /\ [in EXCEPT !.index = 8] \in TxIn
                 /\ [in EXCEPT !.sequence = 9] \in TxIn
                 /\ [in EXCEPT !.script_sig = <<9>>] \in TxIn
      <4>1. [in EXCEPT !.index = 8] \in TxIn
        BY DEF TxIn
      <4>2. [in EXCEPT !.sequence = 9] \in TxIn
        BY DEF TxIn
      <4>3. [in EXCEPT !.script_sig = <<9>>] \in TxIn
        BY <3>1 DEF TxIn
      <4>4. QED
        BY <4>1, <4>2, <4>3
    <3>3. ins[j] \in TxIn
      OBVIOUS
    <3>4. QED
      BY <3>2, <3>3, Zenon
  <2>2. \/ s = [ins EXCEPT ![j] = [ins[j] EXCEPT !.index = 8]]
        \/ s = [ins EXCEPT ![j] = [ins[j] EXCEPT !.sequence = 9]]
        \/ s = [ins EXCEPT ![j] = [ins[j] EXCEPT !.script_sig = <<9>>]]
    BY <1>3, Zenon
  <2>3. QED
    BY <1>1, <2>1, <2>2, Zenon
<1>4. s = Append(ins, Another) \/ \E j \in DOMAIN ins : s \in F(j)
  BY DEF ChangedInputs
<1>5. QED
  BY <1>2, <1>3, <1>4

\* Changed outputs are outputs.
LEMMA ChangedOutputsAre ==
    ASSUME NEW outs \in Seq(TxOut), NEW s \in ChangedOutputs(outs)
    PROVE  s \in Seq(TxOut)
<1>1. ASSUME NEW j \in DOMAIN outs, NEW out \in TxOut
      PROVE  [outs EXCEPT ![j] = out] \in Seq(TxOut)
  BY ExceptSeq
<1>2. Append(outs, [value |-> 4, pk_script |-> <<4>>]) \in Seq(TxOut)
  <2>1. [value |-> 4, pk_script |-> <<4>>] \in TxOut
    BY DEF TxOut, Cells
  <2>2. QED
    BY <2>1
<1> DEFINE F(j) == {[outs EXCEPT ![j] = [@ EXCEPT !.value = 9]],
                    [outs EXCEPT ![j] = [@ EXCEPT !.pk_script = <<9>>]],
                    RemoveAt(outs, j)}
<1>3. ASSUME NEW j \in DOMAIN outs, s \in F(j)
      PROVE  s \in Seq(TxOut)
  <2>1. /\ [outs[j] EXCEPT !.value = 9] \in TxOut
        /\ [outs[j] EXCEPT !.pk_script = <<9>>] \in TxOut
    <3>1. outs[j] \in TxOut /\ <<9>> \in Cells
      BY DEF Cells
    <3>2. QED
      BY <3>1 DEF TxOut
  <2>2. RemoveAt(outs, j) \in Seq(TxOut)
    <3>1. SubSeq(outs, 1, j - 1) \in Seq(TxOut) /\ SubSeq(outs, j + 1, Len(outs)) \in Seq(TxOut)
      OBVIOUS
    <3>2. QED
      BY <3>1 DEF RemoveAt
  <2>3. \/ s = [outs EXCEPT ![j] = [outs[j] EXCEPT !.value = 9]]
        \/ s = [outs EXCEPT ![j] = [outs[j] EXCEPT !.pk_script = <<9>>]]
        \/ s = RemoveAt(outs, j)
    BY <1>3, Zenon
  <2>4. QED
    BY <1>1, <2>1, <2>2, <2>3, Zenon
<1>4. \/ s = Append(outs, [value |-> 4, pk_script |-> <<4>>])
      \/ \E j \in DOMAIN outs : s \in F(j)
  BY DEF ChangedOutputs
<1>5. QED
  BY <1>2, <1>3, <1>4

\* A changed transaction is one, and still has the input that was signed.
LEMMA ChangedIsTx ==
    ASSUME NEW t \in Tx, NEW v \in Changed(t)
    PROVE  v \in Tx /\ Len(t.tx_in) <= Len(v.tx_in)
<1>0. /\ t.tx_in \in Seq(TxIn) /\ t.tx_out \in Seq(TxOut)
      /\ t.version \in Int /\ t.lock_time \in Int
      /\ Len(t.tx_in) \in Nat
  BY LenProperties DEF Tx
<1>1. CASE v \in {[t EXCEPT !.version = 2], [t EXCEPT !.lock_time = 9]}
  <2>1. v \in Tx
    BY <1>1 DEF Tx
  <2>2. v.tx_in = t.tx_in
    BY <1>1 DEF Tx
  <2>3. QED
    BY <1>0, <2>1, <2>2
<1>2. ASSUME NEW s \in ChangedInputs(t.tx_in), v = [t EXCEPT !.tx_in = s]
      PROVE  v \in Tx /\ Len(t.tx_in) <= Len(v.tx_in)
  <2>1. s \in Seq(TxIn) /\ Len(t.tx_in) <= Len(s)
    BY <1>0, ChangedInputsAre
  <2>2. QED
    BY <1>2, <2>1, InputsChanged
<1>3. ASSUME NEW s \in ChangedOutputs(t.tx_out), v = [t EXCEPT !.tx_out = s]
      PROVE  v \in Tx /\ Len(t.tx_in) <= Len(v.tx_in)
  BY <1>0, <1>3, ChangedOutputsAre, OutputsChanged
<1>4. \/ v \in {[t EXCEPT !.version = 2], [t EXCEPT !.lock_time = 9]}
      \/ \E s \in ChangedInputs(t.tx_in) : v = [t EXCEPT !.tx_in = s]
      \/ \E s \in ChangedOutputs(t.tx_out) : v = [t EXCEPT !.tx_out = s]
  BY Zenon DEF Changed
<1>5. QED
  BY <1>1, <1>2, <1>3, <1>4

---------------------------------------------------------------------------
\* What is known of the transaction, once it is signed, and of the signature.
SpendingInv ==
    /\ tx \in Tx
    /\ at # 0 =>
           /\ at \in 1 .. Len(tx.tx_in) /\ code \in ScriptCode
           /\ signed[1] \in Tx /\ signed[2] \in 1 .. Len(signed[1].tx_in)
           /\ signed[3] \in ScriptCode
           /\ sig.hash_type \in HashTypes
           /\ sig.hash = signature_hash(signed[1], signed[2], signed[3], sig.hash_type)

\* Before anything is signed, SpendingInv holds.
LEMMA SpendingStarts == Draft => SpendingInv
<1>1. NoTx \in Tx
  <2>1. <<>> \in Seq(TxIn) /\ <<>> \in Seq(TxOut)
    OBVIOUS
  <2>2. QED
    BY <2>1 DEF NoTx, Tx
<1>2. QED
  BY <1>1 DEF Draft, SpendingInv

\* The invariant is inductive: what is changed after the signature, the input
\* that is signed stays one of the transaction.
LEMMA SpendingKept == SpendingInv /\ [SpendingNext]_spending => SpendingInv'
<1> SUFFICES ASSUME SpendingInv, [SpendingNext]_spending PROVE SpendingInv'
  OBVIOUS
<1> USE DEF SpendingInv
<1>1. CASE Sign
  <2>1. PICK d \in Drafts, h \in HashTypes, i \in 1 .. 3 :
            /\ i \in DOMAIN d.tx.tx_in
            /\ tx' = d.tx /\ at' = i /\ code' = d.code
            /\ sig' = [hash_type |-> h, hash |-> signature_hash(d.tx, i, d.code, h)]
            /\ signed' = <<d.tx, i, d.code>>
    BY <1>1 DEF Sign
  <2>2. d.tx \in Tx /\ d.code \in ScriptCode
    BY SpendingAssumption
  <2>3. i \in 1 .. Len(d.tx.tx_in)
    BY <2>1, <2>2 DEF Tx
  <2>4. /\ sig'.hash_type = h /\ sig'.hash = signature_hash(d.tx, i, d.code, h)
        /\ signed'[1] = d.tx /\ signed'[2] = i /\ signed'[3] = d.code
    BY <2>1
  <2>5. QED
    BY <2>1, <2>2, <2>3, <2>4
<1>2. CASE Amend
  <2>1. at # 0 /\ sig' = sig /\ signed' = signed
    BY <1>2 DEF Amend
  <2>2. tx' \in Tx /\ at' \in 1 .. Len(tx'.tx_in) /\ code' \in ScriptCode
    <3>0. Len(tx.tx_in) \in Nat /\ tx.tx_in \in Seq(TxIn)
      BY LenProperties DEF Tx
    <3>1. CASE tx' \in Changed(tx) /\ UNCHANGED <<at, code>>
      <4>1. tx' \in Tx /\ Len(tx.tx_in) <= Len(tx'.tx_in)
        BY <3>1, ChangedIsTx
      <4>2. Len(tx'.tx_in) \in Nat
        BY <4>1, LenProperties DEF Tx
      <4>3. QED
        BY <2>1, <3>0, <3>1, <4>1, <4>2
    <3>2. CASE tx' = [tx EXCEPT !.tx_in = <<Another>> \o @] /\ at' = at + 1 /\ UNCHANGED code
      <4>1. Another \in TxIn
        BY DEF Another, TxIn, Cells
      <4>2. /\ <<Another>> \o tx.tx_in \in Seq(TxIn)
            /\ Len(<<Another>> \o tx.tx_in) = Len(tx.tx_in) + 1
        BY <3>0, <4>1
      <4>3. tx' \in Tx /\ Len(tx'.tx_in) = Len(tx.tx_in) + 1
        BY <3>2, <4>2, InputsChanged
      <4>4. QED
        BY <2>1, <3>0, <3>2, <4>3
    <3>3. CASE code' = <<9>> /\ UNCHANGED <<tx, at>>
      BY <2>1, <3>3 DEF ScriptCode, Cells
    <3>4. QED
      BY <1>2, <3>1, <3>2, <3>3 DEF Amend
  <2>3. QED
    BY <2>1, <2>2
<1>3. CASE UNCHANGED spending
  BY <1>3 DEF spending
<1>4. QED
  BY <1>1, <1>2, <1>3 DEF SpendingNext

\* A signature is accepted if and only if every part its hash type binds is
\* as it was, whatever was done to the transaction since.
THEOREM SignatureBinds == SpendingSpec => []SignatureBindsItsParts
<1>1. SpendingInv => SignatureBindsItsParts
  <2> SUFFICES ASSUME SpendingInv, at # 0
               PROVE  Accepted <=> Bound(tx, at, code, sig.hash_type)
                                   = Bound(signed[1], signed[2], signed[3], sig.hash_type)
    BY DEF SignatureBindsItsParts
  <2>1. /\ tx \in Tx /\ at \in 1 .. Len(tx.tx_in) /\ code \in ScriptCode
        /\ signed[1] \in Tx /\ signed[2] \in 1 .. Len(signed[1].tx_in)
        /\ signed[3] \in ScriptCode
        /\ sig.hash = signature_hash(signed[1], signed[2], signed[3], sig.hash_type)
    BY DEF SpendingInv
  <2>2. sig.hash_type \in Int
    <3>1. sig.hash_type \in HashTypes
      BY DEF SpendingInv
    <3>2. HashTypes \subseteq 0 .. 255
      BY SpendingAssumption
    <3>3. \A h \in HashTypes : h \in Int
      BY <3>2
    <3>4. QED
      BY <3>1, <3>3, Zenon
  <2>3. signature_hash(tx, at, code, sig.hash_type)
           = signature_hash(signed[1], signed[2], signed[3], sig.hash_type)
        <=> Bound(tx, at, code, sig.hash_type)
            = Bound(signed[1], signed[2], signed[3], sig.hash_type)
    BY <2>1, <2>2, HashBinds
  <2>4. QED
    BY <2>1, <2>3 DEF Accepted
<1>2. QED
  BY <1>1, SpendingStarts, SpendingKept, PTL DEF SpendingSpec

---------------------------------------------------------------------------
\* The reader of a message, for its writer.
Reading(m, u) ==
    IF m.command = "getheaders" THEN ReadGetHeaders(Reader(u)) ELSE decipher(m.command, u)

\* What is read of a message.
Meant(m, v) ==
    CASE m.command = "headers" ->
              v.headers = [i \in DOMAIN m.headers |-> Kept(m.headers[i])]
      [] m.command = "inv" ->
              v.inventory = [i \in DOMAIN m.inventory |->
                                [inv_type |-> from_u32(m.inventory[i].number),
                                 hash |-> m.inventory[i].hash]]
      [] m.command = "version" ->
              \A f \in DOMAIN m \ {"command"} :
                  v[f] = IF f = "user_agent" THEN from_utf8_lossy(m[f]) ELSE m[f]
      [] OTHER -> \A f \in DOMAIN m \ {"command"} : v[f] = m[f]

\* Every payload that starts with the message is read as it was meant, and
\* every one that ends within it is refused.
IsRead(m) ==
    /\ PeerWrites(m) \in Cells
    /\ \E v : Meant(m, v) /\ \A u \in Cells : Reads(Reading(m, u), u, PeerWrites(m), v)

\* A ping and a pong.
LEMMA NonceIsRead ==
    ASSUME NEW m \in NonceMessage
    PROVE  IsRead(m)
<1>1. /\ m.command \in {"ping", "pong"} /\ m.nonce \in Int
      /\ DOMAIN m = {"command", "nonce"}
  BY DEF NonceMessage
<1> DEFINE v == With(<<>>, "nonce", m.nonce)
           w == <<m.nonce>>
<1>2. PeerWrites(m) = w
  BY <1>1, Zenon DEF PeerWrites, encode_payload
<1>3. \A u \in Cells : Reading(m, u) = Fields(At(u, <<>>), <<"nonce">>)
  BY <1>1, ReaderAt, Zenon DEF Reading, decipher
<1>4. w \in Cells /\ \A u \in Cells : Reads(Fields(At(u, <<>>), <<"nonce">>), u, w, v)
  BY <1>1, FieldReads DEF Cells
<1>5. Meant(m, v)
  <2>1. v["nonce"] = m.nonce
    BY WithNamed
  <2> HIDE DEF v
  <2>2. \A f \in DOMAIN m \ {"command"} : v[f] = m[f]
    BY <1>1, <2>1
  <2>3. QED
    BY <1>1, <2>2, Zenon DEF Meant
<1> HIDE DEF v, w
<1>6. \A u \in Cells : Reads(Reading(m, u), u, w, v)
  BY <1>3, <1>4
<1>7. QED
  BY <1>2, <1>4, <1>5, <1>6, Zenon DEF IsRead

\* A verack has no payload.
LEMMA VerackIsRead ==
    ASSUME NEW m \in [command : {"verack"}]
    PROVE  IsRead(m)
<1>1. m.command = "verack" /\ DOMAIN m = {"command"}
  OBVIOUS
<1>2. PeerWrites(m) = <<>> /\ <<>> \in Cells
  <2>1. PeerWrites(m) = <<>>
    BY <1>1, Zenon DEF PeerWrites, encode_payload
  <2>2. QED
    BY <2>1 DEF Cells
<1>3. \A u \in Cells : Reading(m, u) = At(u, <<>>)
  BY <1>1, ReaderAt, Zenon DEF Reading, decipher
<1>4. \A u \in Cells : Reads(Reading(m, u), u, <<>>, <<>>)
  BY <1>3, ReadsNothing
<1>5. Meant(m, <<>>)
  BY <1>1, Zenon DEF Meant
<1>6. QED
  BY <1>2, <1>4, <1>5, Zenon DEF IsRead

\* A getheaders, which its reader takes for as many hashes as it counts.
LEMMA GetHeadersIsRead ==
    ASSUME NEW m \in GetHeaders
    PROVE  IsRead(m)
<1>1. /\ m.command = "getheaders" /\ m.version \in Int /\ m.stop_hash \in Int
      /\ m.block_locator_hashes \in Cells
      /\ m.hash_count = Len(m.block_locator_hashes) /\ m.hash_count \in Nat
      /\ DOMAIN m = {"command", "version", "hash_count", "block_locator_hashes", "stop_hash"}
  BY DEF GetHeaders
<1> DEFINE w1 == <<m.version>>
           w2 == write_varint(U64(m.hash_count))
           w3 == m.block_locator_hashes
           w4 == <<m.stop_hash>>
           v1 == With(<<>>, "version", m.version)
           v2 == With(v1, "hash_count", m.hash_count)
           v3 == With(v2, "block_locator_hashes", w3)
           v4 == With(v3, "stop_hash", m.stop_hash)
<1>2. w1 \in Cells /\ w2 \in Cells /\ w3 \in Cells /\ w4 \in Cells
  <2>1. w2 \in Cells
    BY <1>1, LengthReads DEF Cells
  <2>2. QED
    BY <1>1, <2>1, FieldReads DEF Cells
<1>3. /\ w1 \o w2 \in Cells /\ (w1 \o w2) \o w3 \in Cells
      /\ ((w1 \o w2) \o w3) \o w4 \in Cells
  <2> HIDE DEF w1, w2, w3, w4
  <2> QED
    BY <1>2, PartsJoin
<1>4. PeerWrites(m) = ((w1 \o w2) \o w3) \o w4
  BY <1>1, Zenon DEF PeerWrites, encode_payload, WriteGetHeaders
<1>5. ASSUME NEW u \in Cells
      PROVE  Reads(ReadGetHeaders(Reader(u)), u, ((w1 \o w2) \o w3) \o w4, v4)
  <2> DEFINE x1 == Fields(Reader(u), <<"version">>)
             x2 == Length(x1, "hash_count")
             x3 == IF x2.ok THEN Exact(x2, "block_locator_hashes", x2.read.hash_count) ELSE x2
             x4 == Fields(x3, <<"stop_hash">>)
  <2>1. ReadGetHeaders(Reader(u)) = x4
    BY Zenon DEF ReadGetHeaders
  <2>2. Reads(x1, u, w1, v1)
    BY <1>1, FieldReads, ReaderAt
  <2>3. (Fails(x1) => Fails(x2)) /\ (Fails(x3) => Fails(x4))
    BY StaysFailed
  <2>4. Fails(x2) => Fails(x3)
    BY Outcomes
  <2>5. ASSUME NEW q \in Cells, x1 = At(q, v1) PROVE Reads(x2, q, w2, v2)
    BY <1>1, <2>5, LengthReads
  <2>6. ASSUME NEW q \in Cells, x2 = At(q, v2) PROVE Reads(x3, q, w3, v3)
    <3>1. x2.ok /\ x2.read["hash_count"] = Len(w3)
      BY <1>1, <2>6, Outcomes, WithNamed
    <3>2. x3 = Exact(At(q, v2), "block_locator_hashes", Len(w3))
      BY <2>6, <3>1, Zenon
    <3> HIDE DEF x3, w3, v2
    <3>3. QED
      BY <1>2, <3>2, ExactReads
  <2>7. ASSUME NEW q \in Cells, x3 = At(q, v3) PROVE Reads(x4, q, w4, v4)
    BY <1>1, <2>7, FieldReads
  <2> HIDE DEF x1, x2, x3, x4, w1, w2, w3, w4, v1, v2, v3, v4
  <2>8. Reads(x2, u, w1 \o w2, v2)
    BY <1>2, <2>2, <2>3, <2>5, Then
  <2>9. Reads(x3, u, (w1 \o w2) \o w3, v3)
    BY <1>2, <1>3, <2>4, <2>6, <2>8, Then
  <2>10. Reads(x4, u, ((w1 \o w2) \o w3) \o w4, v4)
    BY <1>2, <1>3, <2>3, <2>7, <2>9, Then
  <2>11. QED
    BY <2>1, <2>10
<1>6. Meant(m, v4)
  <2>1. \A f \in DOMAIN m \ {"command"} : v4[f] = m[f]
    BY <1>1 DEF With
  <2>2. QED
    BY <1>1, <2>1, Zenon DEF Meant
<1>7. \A u \in Cells : Reading(m, u) = ReadGetHeaders(Reader(u))
  BY <1>1, Zenon DEF Reading
<1> HIDE DEF w1, w2, w3, w4, v4
<1>8. QED
  BY <1>3, <1>4, <1>5, <1>6, <1>7, Zenon DEF IsRead

\* The user agent is read, and becomes a text.
LEMMA UserAgentReads ==
    ASSUME NEW q \in Cells, NEW w \in Cells, NEW v
    PROVE  Reads(ReadUserAgent(At(q, v), Len(w)), q, w,
                 With(v, "user_agent", from_utf8_lossy(w)))
<1> DEFINE t == from_utf8_lossy(w)
           x == Exact(At(q, v), "user_agent", Len(w))
           y == ReadUserAgent(At(q, v), Len(w))
           a == With(v, "user_agent", w)
           b == With(v, "user_agent", t)
<1>1. Reads(x, q, w, a)
  BY ExactReads
<1>2. y = IF x.ok
          THEN Holding(x, With(x.read, "user_agent", from_utf8_lossy(x.read["user_agent"])))
          ELSE x
  BY Zenon DEF ReadUserAgent
<1>3. a["user_agent"] = w
  BY WithNamed
<1>4. With(a, "user_agent", t) = b
  <2> HIDE DEF t
  <2> QED
    BY DEF With
<1> HIDE DEF x, y, a, b
<1>5. ASSUME NEW u \in Cells, q = w \o u PROVE y = At(u, b)
  <2>1. x = At(u, a)
    BY <1>1, <1>5 DEF Reads
  <2>2. x.ok /\ x.read = a
    BY <2>1, Outcomes
  <2>3. y = Holding(x, b)
    BY <1>2, <1>3, <1>4, <2>2, Zenon
  <2>4. QED
    BY <2>1, <2>3, HoldingOutcome
<1>6. ASSUME Short(q, w) PROVE Fails(y)
  <2>1. Fails(x)
    BY <1>1, <1>6 DEF Reads
  <2>2. QED
    BY <1>2, <2>1, Outcomes
<1>7. Reads(y, q, w, b)
  BY <1>5, <1>6 DEF Reads
<1>8. QED
  BY <1>7, Zenon DEF y, b

\* A version: the length of the user agent is read like a field, and fits it.
LEMMA VersionIsRead ==
    ASSUME NEW m \in VersionMessage
    PROVE  IsRead(m)
<1> DEFINE N == VersionFields \o <<"user_agent">>
           F == <<"start_height", "relay">>
           k == Len(m.user_agent)
           n == With(m, "user_agent", k)
           w1 == WriteFields(m, VersionFields) \o <<k>>
           w2 == m.user_agent
           w3 == WriteFields(m, F)
           v1 == Merged(<<>>, n, N)
           text == from_utf8_lossy(m.user_agent)
           v2 == With(v1, "user_agent", text)
           v3 == Merged(v2, m, F)
<1>1. /\ m.command = "version" /\ m.version \in Int /\ m.services \in Int
      /\ m.timestamp \in Int /\ m.addr_recv \in Int /\ m.addr_from \in Int
      /\ m.nonce \in Int /\ m.user_agent \in Cells /\ m.start_height \in Int
      /\ m.relay \in Int /\ k < 256
      /\ DOMAIN m = {"command", "version", "services", "timestamp", "addr_recv",
                     "addr_from", "nonce", "user_agent", "start_height", "relay"}
  BY DEF VersionMessage
<1>2. k \in Nat /\ k % 256 = k
  <2>1. k \in Nat
    BY <1>1, LenProperties DEF Cells
  <2>2. QED
    BY <1>1, <2>1
<1>3. /\ Len(N) = 7 /\ N[1] = "version" /\ N[2] = "services"
      /\ N[3] = "timestamp" /\ N[4] = "addr_recv" /\ N[5] = "addr_from" /\ N[6] = "nonce"
      /\ N[7] = "user_agent" /\ DOMAIN N = 1 .. 7
  <2> DEFINE p == VersionFields
             q == <<"user_agent">>
             S == {"version", "services", "timestamp", "addr_recv", "addr_from", "nonce",
                   "user_agent"}
  <2>1. /\ p[1] = "version" /\ p[2] = "services" /\ p[3] = "timestamp"
        /\ p[4] = "addr_recv" /\ p[5] = "addr_from" /\ p[6] = "nonce" /\ q[1] = "user_agent"
    BY DEF VersionFields
  <2>2. Len(p) = 6 /\ Len(q) = 1
    BY DEF VersionFields
  <2>3. p \in Seq(S) /\ q \in Seq(S)
    BY DEF VersionFields
  <2> HIDE DEF p, q, S
  <2>4. /\ N \in Seq(S) /\ Len(N) = Len(p) + Len(q)
        /\ \A i \in 1 .. Len(p) : N[i] = p[i]
        /\ \A i \in 1 .. Len(q) : N[Len(p) + i] = q[i]
    <3>1. /\ p \o q \in Seq(S) /\ Len(p \o q) = Len(p) + Len(q)
          /\ \A i \in 1 .. Len(p) : (p \o q)[i] = p[i]
          /\ \A i \in 1 .. Len(q) : (p \o q)[Len(p) + i] = q[i]
      BY <2>3, ConcatParts
    <3>2. N = p \o q
      BY Zenon DEF p, q
    <3> HIDE DEF N
    <3>3. QED
      BY <3>1, <3>2, Zenon
  <2> HIDE DEF N
  <2>5. Len(N) = 7 /\ (\A i \in 1 .. 6 : N[i] = p[i]) /\ N[6 + 1] = q[1] /\ DOMAIN N = 1 .. 7
    BY <2>2, <2>4
  <2>6. QED
    BY <2>1, <2>5
<1>4. /\ Len(N) \in Nat /\ DOMAIN N = 1 .. Len(N)
      /\ Range(N) = {"version", "services", "timestamp", "addr_recv", "addr_from", "nonce",
                     "user_agent"}
  <2> HIDE DEF N
  <2>1. DOMAIN N = 1 .. 7
    BY <1>3
  <2>2. \A i \in 1 .. 7 : i = 1 \/ i = 2 \/ i = 3 \/ i = 4 \/ i = 5 \/ i = 6 \/ i = 7
    OBVIOUS
  <2>3. QED
    BY <1>3, <2>1, <2>2 DEF Range
<1>5. /\ Len(F) \in Nat /\ DOMAIN F = 1 .. Len(F) /\ Range(F) = {"start_height", "relay"}
  BY DEF Range
<1>6. WriteFields(n, N) = w1 /\ w1 \in Cells
  <2>1. /\ n["version"] = m.version /\ n["services"] = m.services
        /\ n["timestamp"] = m.timestamp /\ n["addr_recv"] = m.addr_recv
        /\ n["addr_from"] = m.addr_from /\ n["nonce"] = m.nonce /\ n["user_agent"] = k
    BY <1>1 DEF With
  <2> HIDE DEF n, k
  <2>2. \A i \in 1 .. 7 : i = 1 \/ i = 2 \/ i = 3 \/ i = 4 \/ i = 5 \/ i = 6 \/ i = 7
    OBVIOUS
  <2> DEFINE p == WriteFields(m, VersionFields)
             f == WriteFields(n, N)
  <2>3. /\ p \in Seq(Int) /\ Len(p) = 6 /\ p[1] = m.version /\ p[2] = m.services
        /\ p[3] = m.timestamp /\ p[4] = m.addr_recv /\ p[5] = m.addr_from /\ p[6] = m.nonce
    BY <1>1 DEF WriteFields, VersionFields
  <2> HIDE DEF p
  <2>4. /\ w1 \in Seq(Int) /\ Len(w1) = 7 /\ w1[7] = k /\ \A i \in 1 .. 6 : w1[i] = p[i]
    <3> DEFINE q == <<k>>
    <3>1. q \in Seq(Int) /\ Len(q) = 1 /\ q[1] = k
      BY <1>2
    <3> HIDE DEF q, k
    <3>2. /\ w1 \in Seq(Int) /\ Len(w1) = Len(p) + Len(q)
          /\ \A i \in 1 .. Len(p) : w1[i] = p[i]
          /\ \A i \in 1 .. Len(q) : w1[Len(p) + i] = q[i]
      <4>1. p \in Seq(Int) /\ q \in Seq(Int)
        BY <2>3, <3>1
      <4>2. QED
        <5>1. /\ p \o q \in Seq(Int) /\ Len(p \o q) = Len(p) + Len(q)
              /\ \A i \in 1 .. Len(p) : (p \o q)[i] = p[i]
              /\ \A i \in 1 .. Len(q) : (p \o q)[Len(p) + i] = q[i]
          BY <4>1, ConcatParts
        <5>2. w1 = p \o q
          BY Zenon DEF p, q
        <5> HIDE DEF w1
        <5>3. QED
          BY <5>1, <5>2, Zenon
    <3> HIDE DEF w1
    <3>3. Len(w1) = 7 /\ (\A i \in 1 .. 6 : w1[i] = p[i]) /\ w1[6 + 1] = q[1]
      BY <2>3, <3>1, <3>2
    <3>4. w1[7] = k
      BY <3>1, <3>3
    <3>5. QED
      BY <3>2, <3>3, <3>4
  <2>5. DOMAIN f = 1 .. 7 /\ \A i \in 1 .. 7 : f[i] = n[N[i]]
    <3> HIDE DEF N
    <3> QED
      BY <1>3 DEF WriteFields
  <2>6. \A i \in 1 .. 7 : f[i] = w1[i]
    <3> HIDE DEF f, N, w1
    <3> QED
      BY <1>3, <2>1, <2>2, <2>3, <2>4, <2>5
  <2> HIDE DEF w1
  <2>7. f = w1
    <3>1. f = [i \in 1 .. 7 |-> f[i]] /\ w1 = [i \in 1 .. 7 |-> w1[i]]
      BY <2>4, <2>5 DEF WriteFields
    <3> HIDE DEF f
    <3>2. QED
      BY <2>6, <3>1
  <2>8. QED
    BY <2>4, <2>7 DEF Cells
<1>7. w2 \in Cells /\ w3 \in Cells
  BY <1>1 DEF WriteFields, Cells
<1>8. w1 \o w2 \in Cells /\ (w1 \o w2) \o w3 \in Cells
  <2> HIDE DEF w1, w2, w3
  <2> QED
    BY <1>6, <1>7, PartsJoin
<1>9. v1["user_agent"] = k
  <2>1. n["user_agent"] = k
    BY WithNamed
  <2> HIDE DEF n, k, N
  <2>2. QED
    BY <1>4, <2>1 DEF Merged
<1>10. PeerWrites(m) = (w1 \o w2) \o w3
  <2>1. PeerWrites(m) = WriteVersion(m)
    BY <1>1, Zenon DEF PeerWrites, encode_payload
  <2>2. QED
    BY <1>2, <2>1, Zenon DEF WriteVersion
<1>11. ASSUME NEW u \in Cells
       PROVE  Reads(ReadVersion(Reader(u)), u, (w1 \o w2) \o w3, v3)
  <2> DEFINE x1 == Fields(Reader(u), N)
             x2 == IF x1.ok THEN ReadUserAgent(x1, x1.read.user_agent) ELSE x1
             x3 == Fields(x2, F)
  <2>1. ReadVersion(Reader(u)) = x3
    BY Zenon DEF ReadVersion
  <2>2. Reads(x1, u, w1, v1)
    <3> HIDE DEF N, n, w1
    <3> QED
      BY <1>4, <1>6, FieldsRead, ReaderAt
  <2>3. Fails(x1) => Fails(x2)
    BY Outcomes
  <2>4. Fails(x2) => Fails(x3)
    BY StaysFailed
  <2>5. ASSUME NEW q \in Cells, x1 = At(q, v1) PROVE Reads(x2, q, w2, v2)
    <3>1. x1.ok /\ x1.read["user_agent"] = k
      <4> HIDE DEF v1, x1, k
      <4> QED
        BY <1>9, <2>5, Outcomes
    <3>2. x2 = ReadUserAgent(At(q, v1), k)
      BY <2>5, <3>1, Zenon
    <3> HIDE DEF x2, v1, x1
    <3>3. QED
      BY <1>7, <3>2, UserAgentReads
  <2>6. ASSUME NEW q \in Cells, x2 = At(q, v2) PROVE Reads(x3, q, w3, v3)
    <3> HIDE DEF x2, v2, F
    <3> QED
      BY <1>5, <1>7, <2>6, FieldsRead
  <2> HIDE DEF x1, x2, x3, w1, w2, w3, v1, v2, v3
  <2>7. Reads(x2, u, w1 \o w2, v2)
    BY <1>6, <1>7, <2>2, <2>3, <2>5, Then
  <2>8. Reads(x3, u, (w1 \o w2) \o w3, v3)
    BY <1>7, <1>8, <2>4, <2>6, <2>7, Then
  <2>9. QED
    BY <2>1, <2>8
<1>12. Meant(m, v3)
  <2>1. \A f \in {"version", "services", "timestamp", "addr_recv", "addr_from", "nonce"} :
            v1[f] = m[f] /\ f \in DOMAIN v1
    <3>1. \A f \in {"version", "services", "timestamp", "addr_recv", "addr_from", "nonce"} :
              n[f] = m[f]
      BY <1>1 DEF With
    <3> HIDE DEF n, N
    <3>2. QED
      BY <1>4, <3>1 DEF Merged
  <2> HIDE DEF v1, text
  <2>2. /\ v2["user_agent"] = text /\ "user_agent" \in DOMAIN v2
        /\ \A f \in {"version", "services", "timestamp", "addr_recv", "addr_from", "nonce"} :
               v2[f] = m[f] /\ f \in DOMAIN v2
    BY <2>1 DEF With
  <2> HIDE DEF v2, F
  <2>3. \A f \in DOMAIN m \ {"command"} : v3[f] = IF f = "user_agent" THEN text ELSE m[f]
    BY <1>1, <1>5, <2>2 DEF Merged
  <2> HIDE DEF v3
  <2>4. \A f \in DOMAIN m \ {"command"} :
            v3[f] = IF f = "user_agent" THEN from_utf8_lossy(m[f]) ELSE m[f]
    <3>1. from_utf8_lossy(m["user_agent"]) = text
      BY Zenon DEF text
    <3>2. QED
      BY <2>3, <3>1, Zenon
  <2>5. QED
    BY <1>1, <2>4, Zenon DEF Meant
<1>13. \A u \in Cells : Reading(m, u) = ReadVersion(Reader(u))
  BY <1>1, Zenon DEF Reading, decipher
<1> HIDE DEF w1, w2, w3, v3
<1>14. QED
  BY <1>8, <1>10, <1>11, <1>12, <1>13, Zenon DEF IsRead

\* A transaction in either form.
LEMMA TxIsRead ==
    ASSUME NEW m \in LegacyTx \cup SegwitTx
    PROVE  IsRead(m)
<1>1. /\ m.command = "tx" /\ m.version \in Int /\ m.tx_in \in Seq(TxIn) /\ m.tx_in # <<>>
      /\ m.tx_out \in Seq(TxOut) /\ m.lock_time \in Int
      /\ DOMAIN m = {"command", "flag", "tx_witness", "version", "tx_in", "tx_out", "lock_time"}
  BY DEF LegacyTx, SegwitTx
<1>2. \A u \in Cells : Reading(m, u) = ReadTx(Reader(u))
  BY <1>1, Zenon DEF Reading, decipher
<1>3. ASSUME NEW v, v["flag"] = m.flag, v["tx_witness"] = m.tx_witness,
             v["version"] = m.version, v["tx_in"] = m.tx_in, v["tx_out"] = m.tx_out,
             v["lock_time"] = m.lock_time
      PROVE  Meant(m, v)
  <2>1. \A f \in DOMAIN m \ {"command"} : v[f] = m[f]
    BY <1>1, <1>3
  <2>2. QED
    BY <1>1, <2>1, Zenon DEF Meant
<1>4. CASE m \in LegacyTx
  <2>1. m.flag = 0 /\ m.tx_witness = <<>>
    BY <1>4 DEF LegacyTx
  <2>2. PeerWrites(m) = encode_legacy(m)
    BY <1>1, <2>1, Zenon DEF PeerWrites
  <2>3. /\ encode_legacy(m) \in Cells
        /\ \A u \in Cells : Reads(ReadTx(Reader(u)), u, encode_legacy(m), LegacyFields(m))
    BY <1>1, LegacyReads
  <2>4. Meant(m, LegacyFields(m))
    BY <1>3, <2>1, LegacyFieldsAre
  <2>5. QED
    BY <1>2, <2>2, <2>3, <2>4, Zenon DEF IsRead
<1>5. CASE m \in SegwitTx
  <2>1. m.flag = 1 /\ m.tx_witness \in Seq(Witness) /\ Len(m.tx_witness) = Len(m.tx_in)
    BY <1>5 DEF SegwitTx
  <2>2. m.tx_witness # <<>>
    BY <1>1, <2>1, EmptySeq
  <2>3. PeerWrites(m) = EncodeSegwit(m)
    BY <1>1, <2>2, Zenon DEF PeerWrites
  <2>4. /\ EncodeSegwit(m) \in Cells
        /\ \A u \in Cells : Reads(ReadTx(Reader(u)), u, EncodeSegwit(m), SegwitFields(m))
    BY <1>1, <2>1, SegwitReads
  <2>5. Meant(m, SegwitFields(m))
    BY <1>3, <2>1, SegwitFieldsAre
  <2>6. QED
    BY <1>2, <2>3, <2>4, <2>5, Zenon DEF IsRead
<1>6. QED
  BY <1>4, <1>5

\* A header, without the count of transactions that follows it.
LEMMA HeaderReads ==
    ASSUME NEW h \in WireHeader
    PROVE  /\ as_bytes(h) \in Cells /\ WriteHeader(h) \in Cells
           /\ \A u \in Cells : /\ Reads(ReadHeader[u], u, WriteHeader(h), Kept(h))
                               /\ Reads(read_from_disk(Reader(u)), u, as_bytes(h), Kept(h))
<1> DEFINE w1 == as_bytes(h)
           w2 == write_varint(h.txn_count)
           v == Kept(h)
<1>1. /\ Len(HeaderFields) \in Nat /\ DOMAIN HeaderFields = 1 .. Len(HeaderFields)
      /\ WriteFields(h, HeaderFields) \in Cells
  BY DEF HeaderFields, WireHeader, WriteFields, Cells
<1>2. h.txn_count \in [1 .. 8 -> Int]
  BY DEF WireHeader, Varint
<1>3. Merged(<<>>, h, HeaderFields) = Kept(h)
  BY DEF Merged, Kept
<1>4. w2 \in Cells
  BY <1>1, <1>2, VarintReads
<1>5. w1 \in Cells /\ w1 \o w2 \in Cells
  <2>1. w1 \in Cells
    BY <1>1 DEF as_bytes
  <2> HIDE DEF w1, w2
  <2>2. QED
    BY <1>4, <2>1, PartsJoin
<1>6. ASSUME NEW u \in Cells PROVE Reads(read_from_disk(Reader(u)), u, w1, v)
  <2>1. read_from_disk(Reader(u)) = Fields(At(u, <<>>), HeaderFields)
    BY ReaderAt, Zenon DEF read_from_disk
  <2>2. Reads(Fields(At(u, <<>>), HeaderFields), u, WriteFields(h, HeaderFields),
              Merged(<<>>, h, HeaderFields))
    BY <1>1, FieldsRead
  <2>3. QED
    BY <1>3, <2>1, <2>2 DEF as_bytes
<1>7. ASSUME NEW u \in Cells PROVE Reads(ReadHeader[u], u, w1 \o w2, v)
  <2> DEFINE x1 == Fields(Reader(u), HeaderFields)
             x2 == read_varint(x1, "txn_count")
             x3 == IF x2.ok THEN Holding(x2, x1.read) ELSE x2
             b == With(v, "txn_count", h.txn_count)
  <2>1. ReadHeader[u] = x3
    BY Zenon DEF ReadHeader
  <2>2. Reads(x1, u, w1, v)
    BY <1>6 DEF read_from_disk
  <2>3. Fails(x1) => Fails(x3)
    <3>1. Fails(x1) => Fails(x2)
      <4> HIDE DEF x1
      <4>1. ASSUME Fails(x1) PROVE ~Exact(x1, "txn_count", 1).ok
        BY <4>1, StaysFailed, Outcomes
      <4>2. ASSUME Fails(x1) PROVE x2 = Exact(x1, "txn_count", 1)
        BY <4>1, <4>2, Zenon DEF read_varint
      <4>3. QED
        BY <4>2, StaysFailed
    <3>2. Fails(x2) => x3 = x2
      <4> HIDE DEF x2
      <4> QED
        BY Outcomes
    <3> HIDE DEF x1, x2, x3
    <3>3. QED
      BY <3>1, <3>2
  <2>4. ASSUME NEW q \in Cells, x1 = At(q, v) PROVE Reads(x3, q, w2, v)
    <3>1. Reads(x2, q, w2, b)
      BY <1>2, <2>4, VarintReads
    <3>2. x1.read = v
      BY <2>4, Outcomes
    <3> HIDE DEF x1, x2, v, b, w2
    <3>3. ASSUME NEW z \in Cells, q = w2 \o z PROVE x3 = At(z, v)
      <4>1. x2 = At(z, b)
        BY <3>1, <3>3 DEF Reads
      <4>2. x2.ok
        BY <4>1, Outcomes
      <4>3. x3 = Holding(x2, v)
        BY <3>2, <4>2
      <4> HIDE DEF x3
      <4>4. QED
        BY <4>1, <4>3, HoldingOutcome
    <3>4. ASSUME Short(q, w2) PROVE Fails(x3)
      <4>1. Fails(x2)
        BY <3>1, <3>4 DEF Reads
      <4>2. QED
        BY <4>1, Outcomes
    <3> HIDE DEF x3
    <3>5. QED
      BY <3>3, <3>4 DEF Reads
  <2> HIDE DEF x1, x2, x3, w1, w2, v
  <2>5. Reads(x3, u, w1 \o w2, v)
    BY <1>4, <1>5, <2>2, <2>3, <2>4, Then
  <2>6. QED
    BY <2>1, <2>5
<1>8. WriteHeader(h) = w1 \o w2
  BY Zenon DEF WriteHeader
<1> HIDE DEF w2
<1>9. QED
  BY <1>5, <1>6, <1>7, <1>8, Zenon

\* Headers, as the node keeps them.
LEMMA HeadersIsRead ==
    ASSUME NEW m \in Headers
    PROVE  IsRead(m)
<1> DEFINE s == m.headers
           ws == [i \in DOMAIN s |-> WriteHeader(s[i])]
           vs == [i \in DOMAIN s |-> Kept(s[i])]
           w == Count(s) \o FlattenSeq(ws)
           v == With(<<>>, "headers", vs)
           V == {Kept(h) : h \in WireHeader}
<1>1. m.command = "headers" /\ s \in Seq(WireHeader)
  BY DEF Headers
<1>2. Len(s) \in Nat /\ DOMAIN s = 1 .. Len(s) /\ \A i \in 1 .. Len(s) : s[i] \in WireHeader
  BY <1>1, LenProperties, ElementOfSeq
<1>3. \A i \in 1 .. Len(s) : /\ ws[i] \in Cells /\ vs[i] \in V
                             /\ \A u \in Cells : Reads(ReadHeader[u], u, ws[i], vs[i])
  BY <1>2, HeaderReads
<1>4. ws \in Seq(Cells) /\ Len(ws) = Len(s) /\ vs \in Seq(V) /\ Len(vs) = Len(s)
  <2>1. DOMAIN ws = 1 .. Len(s) /\ DOMAIN vs = 1 .. Len(s)
    BY <1>2
  <2>2. /\ ws = [i \in DOMAIN ws |-> ws[i]] /\ vs = [i \in DOMAIN vs |-> vs[i]]
    OBVIOUS
  <2> HIDE DEF ws, vs, V
  <2>3. ws \in [1 .. Len(s) -> Cells] /\ vs \in [1 .. Len(s) -> V]
    BY <1>3, <2>1, <2>2
  <2>4. ws \in Seq(Cells) /\ Len(ws) = Len(s)
    BY <1>2, <2>3
  <2>5. vs \in Seq(V) /\ Len(vs) = Len(s)
    BY <1>2, <2>3
  <2>6. QED
    BY <2>4, <2>5
<1>5. PeerWrites(m) = w
  BY <1>1, Zenon DEF PeerWrites, WriteMany
<1>6. \A u \in Cells : Reading(m, u) = Many(At(u, <<>>), "headers", ReadHeader)
  BY <1>1, ReaderAt, Zenon DEF Reading, decipher, ReadHeaders
<1>7. Meant(m, v)
  <2>1. v["headers"] = vs
    BY WithNamed
  <2> HIDE DEF v
  <2>2. QED
    BY <1>1, <2>1, Zenon DEF Meant
<1> HIDE DEF ws, vs, V
<1>8. w = Count(vs) \o FlattenSeq(ws)
  BY <1>4, Zenon DEF Count
<1>9. w \in Cells /\ \A u \in Cells : Reads(Many(At(u, <<>>), "headers", ReadHeader), u, w, v)
  <2>1. <<>> \in Cells
    BY DEF Cells
  <2>2. ASSUME NEW u \in Cells
        PROVE  /\ Count(vs) \o FlattenSeq(ws) \in Cells
               /\ Reads(Many(At(u, <<>>), "headers", ReadHeader), u,
                        Count(vs) \o FlattenSeq(ws), v)
    BY <1>3, <1>4, ManyRead
  <2> HIDE DEF v, w
  <2>3. QED
    BY <1>8, <2>1, <2>2
<1> HIDE DEF v, w
<1>10. \A u \in Cells : Reads(Reading(m, u), u, w, v)
  BY <1>6, <1>9
<1>11. QED
  BY <1>5, <1>7, <1>9, <1>10, Zenon DEF IsRead

\* A vector of an inv, its type as the node knows it.
Vector(x) == [inv_type |-> from_u32(x.number), hash |-> x.hash]

\* InvVector::read reads an announced vector, and refuses half of one.
LEMMA VectorReads ==
    ASSUME NEW x \in [number : Int, hash : Int]
    PROVE  /\ <<x.number, x.hash>> \in Cells
           /\ \A u \in Cells : Reads(ReadVector[u], u, <<x.number, x.hash>>, Vector(x))
<1> DEFINE m == [inv_type |-> x.number, hash |-> x.hash]
           N == <<"inv_type", "hash">>
           w == <<x.number, x.hash>>
           v == Merged(<<>>, m, N)
<1>1. w \in Cells
  BY DEF Cells
<1>2. /\ Len(N) \in Nat /\ DOMAIN N = 1 .. Len(N) /\ Range(N) = {"inv_type", "hash"}
      /\ WriteFields(m, N) = w
  BY DEF Range, WriteFields
<1>3. v = [inv_type |-> x.number, hash |-> x.hash]
  <2> HIDE DEF N
  <2> QED
    BY <1>2 DEF Merged
<1>4. ASSUME NEW u \in Cells PROVE Reads(ReadVector[u], u, w, Vector(x))
  <2> DEFINE r == Fields(Reader(u), N)
             y == IF r.ok THEN Holding(r, With(r.read, "inv_type", from_u32(r.read.inv_type)))
                  ELSE r
  <2>1. ReadVector[u] = y
    BY Zenon DEF ReadVector
  <2>2. Reads(r, u, w, v)
    <3> HIDE DEF N, m, w
    <3> QED
      BY <1>1, <1>2, FieldsRead, ReaderAt
  <2>3. With(v, "inv_type", from_u32(v["inv_type"])) = Vector(x)
    <3>1. v["inv_type"] = x.number
      BY <1>3
    <3>2. With(v, "inv_type", from_u32(x.number)) = Vector(x)
      BY <1>3 DEF With, Vector
    <3> HIDE DEF v
    <3>3. QED
      BY <3>1, <3>2
  <2> HIDE DEF r, v, w
  <2>4. ASSUME NEW z \in Cells, u = w \o z PROVE y = At(z, Vector(x))
    <3>1. r = At(z, v)
      BY <2>2, <2>4 DEF Reads
    <3>2. r.ok /\ r.read = v
      BY <3>1, Outcomes
    <3>3. y = Holding(r, Vector(x))
      BY <2>3, <3>2, Zenon
    <3> HIDE DEF y
    <3>4. QED
      BY <3>1, <3>3, HoldingOutcome
  <2>5. ASSUME Short(u, w) PROVE Fails(y)
    <3>1. Fails(r)
      BY <2>2, <2>5 DEF Reads
    <3>2. QED
      BY <3>1, Outcomes
  <2> HIDE DEF y
  <2>6. QED
    BY <2>1, <2>4, <2>5 DEF Reads
<1>5. QED
  BY <1>1, <1>4, Zenon

\* A sequence of legal length, whose count can be read alone, and refused.
LEMMA CheckedCount ==
    ASSUME NEW q \in Cells, NEW k \in Nat, NEW max, k <= max, NEW z \in Cells, NEW name,
           (\E u \in Cells : q = (write_varint(U64(k)) \o z) \o u)
               \/ Short(q, write_varint(U64(k)) \o z)
    PROVE  LET x == Length(At(q, <<>>), name)
           IN  ~x.ok \/ x.read[name] = k
<1> DEFINE w == write_varint(U64(k))
           x == Length(At(q, <<>>), name)
           v == With(<<>>, name, k)
<1>1. w \in Cells /\ Reads(x, q, w, v)
  <2>1. <<>> \in Cells
    BY DEF Cells
  <2>2. QED
    BY LengthReads
<1>2. v[name] = k
  BY WithNamed
<1> HIDE DEF w, x, v
<1>3. ASSUME NEW u \in Cells, q = w \o u PROVE x.ok /\ x.read[name] = k
  <2>1. x = At(u, v)
    BY <1>1, <1>3 DEF Reads
  <2>2. QED
    BY <1>2, <2>1, Outcomes
<1>4. ASSUME Short(q, w) PROVE ~x.ok
  BY <1>1, <1>4, Outcomes DEF Reads
<1>5. ASSUME NEW u \in Cells, q = (w \o z) \o u PROVE x.ok /\ x.read[name] = k
  <2>1. q = w \o (z \o u) /\ z \o u \in Cells
    BY <1>1, <1>5, PartsJoin
  <2>2. QED
    BY <1>3, <2>1
<1>6. ASSUME Short(q, w \o z) PROVE ~x.ok \/ x.read[name] = k
  <2>1. Short(q, w) \/ \E u \in Cells : q = w \o u
    BY <1>1, <1>6, ShortOfParts
  <2>2. QED
    BY <1>3, <1>4, <2>1
<1>7. (\E u \in Cells : q = (w \o z) \o u) \/ Short(q, w \o z)
  BY DEF w
<1>8. QED
  BY <1>5, <1>6, <1>7 DEF x

\* An inv of a legal size.
LEMMA InventoryIsRead ==
    ASSUME NEW m \in Inventory
    PROVE  IsRead(m)
<1> DEFINE s == m.inventory
           ws == [i \in DOMAIN s |-> <<s[i].number, s[i].hash>>]
           vs == [i \in DOMAIN s |-> Vector(s[i])]
           z == FlattenSeq(ws)
           w == Count(s) \o z
           v == With(<<>>, "inventory", vs)
           V == {Vector(x) : x \in [number : Int, hash : Int]}
<1>1. m.command = "inv" /\ s \in Seq([number : Int, hash : Int]) /\ Len(s) <= MaxInventory
  BY DEF Inventory
<1>2. /\ Len(s) \in Nat /\ DOMAIN s = 1 .. Len(s)
      /\ \A i \in 1 .. Len(s) : s[i] \in [number : Int, hash : Int]
  BY <1>1, LenProperties, ElementOfSeq
<1>3. \A i \in 1 .. Len(s) : /\ ws[i] \in Cells /\ vs[i] \in V
                             /\ \A u \in Cells : Reads(ReadVector[u], u, ws[i], vs[i])
  BY <1>2, VectorReads
<1>4. ws \in Seq(Cells) /\ Len(ws) = Len(s) /\ vs \in Seq(V) /\ Len(vs) = Len(s)
  <2>1. DOMAIN ws = 1 .. Len(s) /\ DOMAIN vs = 1 .. Len(s)
    BY <1>2
  <2>2. /\ ws = [i \in DOMAIN ws |-> ws[i]] /\ vs = [i \in DOMAIN vs |-> vs[i]]
    OBVIOUS
  <2> HIDE DEF ws, vs, V
  <2>3. ws \in [1 .. Len(s) -> Cells] /\ vs \in [1 .. Len(s) -> V]
    BY <1>3, <2>1, <2>2
  <2>4. ws \in Seq(Cells) /\ Len(ws) = Len(s)
    BY <1>2, <2>3
  <2>5. vs \in Seq(V) /\ Len(vs) = Len(s)
    BY <1>2, <2>3
  <2>6. QED
    BY <2>4, <2>5
<1>5. PeerWrites(m) = w
  BY <1>1, Zenon DEF PeerWrites, WriteInv, WriteMany
<1>6. \A u \in Cells : Reading(m, u) = ReadInv(At(u, <<>>))
  BY <1>1, ReaderAt, Zenon DEF Reading, decipher
<1>7. Meant(m, v)
  <2>1. v["inventory"] = vs
    BY WithNamed
  <2> HIDE DEF v
  <2>2. QED
    BY <1>1, <2>1, Zenon DEF Meant, Vector
<1> HIDE DEF ws, vs, V
<1>8. w = Count(vs) \o z
  BY <1>4, Zenon DEF Count
<1>9. /\ w \in Cells /\ z \in Cells
      /\ \A u \in Cells : Reads(Many(At(u, <<>>), "inventory", ReadVector), u, w, v)
  <2>1. <<>> \in Cells
    BY DEF Cells
  <2>2. ASSUME NEW u \in Cells
        PROVE  /\ Count(vs) \o z \in Cells
               /\ Reads(Many(At(u, <<>>), "inventory", ReadVector), u, Count(vs) \o z, v)
    BY <1>3, <1>4, ManyRead
  <2>3. z \in Cells
    BY <1>4, FlattenAppend DEF Cells
  <2> HIDE DEF v, w, z
  <2>4. QED
    BY <1>8, <2>1, <2>2, <2>3
<1>10. ASSUME NEW u \in Cells, (\E q \in Cells : u = w \o q) \/ Short(u, w)
       PROVE  ReadInv(At(u, <<>>)) = Many(At(u, <<>>), "inventory", ReadVector)
  <2> DEFINE x == Length(At(u, <<>>), "inventory")
  <2>1. ~x.ok \/ x.read["inventory"] = Len(s)
    <3> HIDE DEF z
    <3> QED
      BY <1>1, <1>2, <1>9, <1>10, CheckedCount DEF Count
  <2>2. ~(x.ok /\ x.read.inventory > MaxInventory)
    <3> HIDE DEF x
    <3> QED
      BY <1>1, <1>2, <2>1 DEF MaxInventory
  <2>3. QED
    BY <2>2, Zenon DEF ReadInv
<1> HIDE DEF v, w, z
<1>11. ASSUME NEW u \in Cells PROVE Reads(Reading(m, u), u, w, v)
  BY <1>6, <1>9, <1>10 DEF Reads
<1>12. QED
  BY <1>5, <1>7, <1>9, <1>11, Zenon DEF IsRead

\* Whatever can be written is read as it was meant, or refused.
LEMMA EveryMessageIsRead ==
    ASSUME NEW m \in Traffic
    PROVE  IsRead(m)
BY TrafficAssumption, VersionIsRead, NonceIsRead, VerackIsRead, GetHeadersIsRead,
   HeadersIsRead, InventoryIsRead, TxIsRead

\* The type of a vector, known or not, has the number it was read from.
LEMMA TypeKept == \A n : ToU32(from_u32(n)) = n
<1> SUFFICES ASSUME NEW n PROVE ToU32(from_u32(n)) = n
  OBVIOUS
<1>1. CASE \E name \in DOMAIN TypeNumber : TypeNumber[name] = n
  <2> DEFINE name == CHOOSE name \in DOMAIN TypeNumber : TypeNumber[name] = n
  <2>1. name \in DOMAIN TypeNumber /\ TypeNumber[name] = n
    BY <1>1
  <2>2. name # "Unknown"
    <3> HIDE DEF name
    <3> QED
      BY <2>1 DEF TypeNumber
  <2>3. from_u32(n) = [type |-> name]
    BY <1>1, Zenon DEF from_u32
  <2> HIDE DEF name
  <2>4. from_u32(n).type = name
    BY <2>3
  <2>5. QED
    BY <2>1, <2>2, <2>4, Zenon DEF ToU32
<1>2. CASE ~ \E name \in DOMAIN TypeNumber : TypeNumber[name] = n
  <2>1. from_u32(n) = [type |-> "Unknown", value |-> n]
    BY <1>2, Zenon DEF from_u32
  <2>2. from_u32(n).type = "Unknown" /\ from_u32(n).value = n
    BY <2>1
  <2>3. QED
    BY <2>2, Zenon DEF ToU32
<1>3. QED
  BY <1>1, <1>2

---------------------------------------------------------------------------
\* Headers on their way through the disk.

\* The headers a node keeps.
KeptHeader == {Kept(h) : h \in WireHeader}

\* The file that holds them.
OnDisk(s) == FlattenSeq([i \in DOMAIN s |-> as_bytes(s[i])])

\* A record on disk is read as it was kept.
LEMMA RecordReads ==
    ASSUME NEW r \in KeptHeader
    PROVE  /\ as_bytes(r) \in Cells /\ as_bytes(r) # <<>>
           /\ \A u \in Cells : Reads(read_from_disk(Reader(u)), u, as_bytes(r), r)
<1>1. PICK h \in WireHeader : r = Kept(h)
  BY DEF KeptHeader
<1>2. as_bytes(r) = as_bytes(h)
  <2>1. \A i \in DOMAIN HeaderFields : r[HeaderFields[i]] = h[HeaderFields[i]]
    BY <1>1 DEF Kept, Range
  <2>2. QED
    BY <2>1, Zenon DEF as_bytes, WriteFields
<1>3. as_bytes(h) # <<>>
  <2>1. DOMAIN as_bytes(h) = DOMAIN HeaderFields
    BY DEF as_bytes, WriteFields
  <2>2. 1 \in DOMAIN HeaderFields
    BY DEF HeaderFields
  <2>3. DOMAIN <<>> = {}
    OBVIOUS
  <2>4. QED
    BY <2>1, <2>2, <2>3
<1>4. QED
  BY <1>1, <1>2, <1>3, HeaderReads

\* The file of one header and others.
LEMMA DiskStarts ==
    /\ OnDisk(<<>>) = <<>>
    /\ \A s \in Seq(KeptHeader) :
           /\ OnDisk(s) \in Cells
           /\ s # <<>> => OnDisk(s) = as_bytes(Head(s)) \o OnDisk(Tail(s))
<1> DEFINE ws(s) == [i \in DOMAIN s |-> as_bytes(s[i])]
<1>1. OnDisk(<<>>) = <<>>
  <2>1. ws(<<>>) = <<>>
    OBVIOUS
  <2> HIDE DEF ws
  <2>2. OnDisk(<<>>) = FlattenSeq(ws(<<>>))
    BY Zenon DEF OnDisk, ws
  <2>3. QED
    BY <2>1, <2>2, FlattenAppend
<1>2. ASSUME NEW s \in Seq(KeptHeader)
      PROVE  /\ ws(s) \in Seq(Cells) /\ Len(ws(s)) = Len(s)
             /\ \A i \in 1 .. Len(s) : ws(s)[i] = as_bytes(s[i])
  <2>1. Len(s) \in Nat /\ DOMAIN s = 1 .. Len(s) /\ \A i \in 1 .. Len(s) : s[i] \in KeptHeader
    BY LenProperties, ElementOfSeq
  <2>2. \A i \in 1 .. Len(s) : as_bytes(s[i]) \in Cells
    BY <2>1, RecordReads
  <2>3. QED
    BY <2>1, <2>2
<1>3. ASSUME NEW s \in Seq(KeptHeader) PROVE OnDisk(s) \in Cells
  BY <1>2, FlattenAppend DEF OnDisk, Cells
<1>4. ASSUME NEW s \in Seq(KeptHeader), s # <<>>
      PROVE  OnDisk(s) = as_bytes(Head(s)) \o OnDisk(Tail(s))
  <2> DEFINE h == as_bytes(Head(s))
             t == Tail(s)
             a == ws(s)
             b == ws(t)
  <2>1. /\ Head(s) = s[1] /\ t \in Seq(KeptHeader) /\ Len(t) = Len(s) - 1
        /\ \A i \in 1 .. Len(t) : t[i] = s[i + 1]
        /\ Len(s) \in Nat \ {0}
    BY <1>4, HeadTailProperties, LenProperties, EmptySeq
  <2>2. /\ a \in Seq(Cells) /\ Len(a) = Len(s)
        /\ \A i \in 1 .. Len(s) : a[i] = as_bytes(s[i])
    BY <1>2
  <2>3. /\ b \in Seq(Cells) /\ Len(b) = Len(t)
        /\ \A i \in 1 .. Len(t) : b[i] = as_bytes(t[i])
    BY <1>2, <2>1
  <2>4. h \in Cells
    BY <2>1, RecordReads
  <2> HIDE DEF ws
  <2>5. OnDisk(s) = FlattenSeq(a) /\ OnDisk(t) = FlattenSeq(b)
    BY Zenon DEF OnDisk, ws
  <2> HIDE DEF t, a, b, h
  <2>6. StartsWith(a, h, b)
    <3>1. Len(a) = Len(b) + 1 /\ a[1] = h
      BY <2>1, <2>2, <2>3 DEF h
    <3>2. ASSUME NEW k \in 1 .. Len(b) PROVE a[1 + k] = b[k]
      <4>1. k \in 1 .. Len(t) /\ k + 1 \in 1 .. Len(s) /\ 1 + k = k + 1
        BY <2>1, <2>3
      <4>2. a[k + 1] = as_bytes(s[k + 1]) /\ b[k] = as_bytes(t[k]) /\ t[k] = s[k + 1]
        BY <2>1, <2>2, <2>3, <4>1
      <4>3. QED
        BY <4>1, <4>2
    <3>3. QED
      BY <3>1, <3>2 DEF StartsWith
  <2>7. a = <<h>> \o b
    BY <2>2, <2>3, <2>4, <2>6, FirstAndRest
  <2>8. <<h>> \in Seq(Cells) /\ FlattenSeq(<<h>>) = h
    <3>1. Append(<<>>, h) = <<h>> /\ <<>> \o h = h /\ <<>> \in Seq(Cells) /\ <<h>> \in Seq(Cells)
      BY <2>4, ConcatEmptySeq DEF Cells
    <3>2. FlattenSeq(Append(<<>>, h)) = FlattenSeq(<<>>) \o h /\ FlattenSeq(<<>>) = <<>>
      BY <2>4, <3>1, FlattenAppend DEF Cells
    <3>3. QED
      BY <3>1, <3>2
  <2>9. FlattenSeq(<<h>> \o b) = FlattenSeq(<<h>>) \o FlattenSeq(b)
    <3>1. Cells = Seq(Int)
      BY DEF Cells
    <3>2. ASSUME NEW c \in Seq(Cells), NEW d \in Seq(Cells)
          PROVE  FlattenSeq(c \o d) = FlattenSeq(c) \o FlattenSeq(d)
      BY <3>1, FlattenConcat
    <3>3. QED
      BY <2>3, <2>8, <3>2
  <2>10. OnDisk(s) = h \o OnDisk(t)
    BY <2>5, <2>7, <2>8, <2>9
  <2>11. QED
    BY <2>10 DEF h, t
<1>5. QED
  BY <1>1, <1>3, <1>4

\* What load_headers reads of the file of some headers.
LEMMA DiskReads ==
    ASSUME NEW s \in Seq(KeptHeader)
    PROVE  LET r == read_from_disk(Reader(OnDisk(s)))
           IN  /\ s = <<>> => ~r.ok
               /\ s # <<>> => r = At(OnDisk(Tail(s)), Head(s))
<1> DEFINE r == read_from_disk(Reader(OnDisk(s)))
<1>1. CASE s = <<>>
  <2>1. r = Fields(At(<<>>, <<>>), HeaderFields)
    BY <1>1, DiskStarts, ReaderAt, Zenon DEF read_from_disk
  <2>2. ~(Len(HeaderFields) <= Len(<<>>))
    BY DEF HeaderFields
  <2>3. r = Failed(At(<<>>, <<>>))
    BY <2>1, <2>2, Outcomes, Zenon DEF Fields
  <2>4. QED
    BY <1>1, <2>3, Outcomes
<1>2. CASE s # <<>>
  <2>1. Head(s) \in KeptHeader /\ Tail(s) \in Seq(KeptHeader)
    BY <1>2
  <2>2. OnDisk(s) \in Cells /\ OnDisk(Tail(s)) \in Cells
    BY <2>1, DiskStarts
  <2>3. OnDisk(s) = as_bytes(Head(s)) \o OnDisk(Tail(s))
    BY <1>2, DiskStarts
  <2>4. Reads(r, OnDisk(s), as_bytes(Head(s)), Head(s))
    BY <2>1, <2>2, RecordReads
  <2>5. r = At(OnDisk(Tail(s)), Head(s))
    BY <2>2, <2>3, <2>4 DEF Reads
  <2> HIDE DEF r
  <2>6. QED
    BY <1>2, <2>5 DEF r
<1>3. QED
  BY <1>1, <1>2

---------------------------------------------------------------------------
\* The way of a message.

\* The headers of the message, as they are kept.
KeptOf(m) == [i \in DOMAIN m.headers |-> Kept(m.headers[i])]

\* What is known at each stage: the payload is the whole message and more, or
\* ends within it; what was read is what was meant, or has failed; and the
\* headers of the file are those that are still to be loaded.
TrafficInv ==
    /\ stage \in {"idle", "written", "read", "answered", "saved", "loaded"}
    /\ stage # "idle" => sent \in Traffic
    /\ stage \in {"idle", "written", "read", "answered"} => loaded = <<>>
    /\ stage = "written" =>
           /\ payload \in Cells
           /\ missing = 0 => \E s \in Cells : payload = PeerWrites(sent) \o s
           /\ missing # 0 => Short(payload, PeerWrites(sent))
    /\ stage = "read" =>
           /\ missing = 0 => \E s, v : got = At(s, v) /\ Meant(sent, v)
           /\ missing # 0 => Fails(got)
    /\ stage = "answered" => payload = WriteInv(sent)
    /\ stage = "saved" =>
           /\ sent.command = "headers" /\ loaded \in Seq(KeptHeader)
           /\ \E rest \in Seq(KeptHeader) :
                  disk = OnDisk(rest) /\ loaded \o rest = KeptOf(sent)
    /\ stage = "loaded" => loaded = KeptOf(sent)

\* Before anything is written, TrafficInv holds.
LEMMA TrafficStarts == Silence => TrafficInv
BY DEF Silence, TrafficInv

\* A payload as it is written: whole, with what follows, or short.
LEMMA WrittenWell ==
    ASSUME TrafficInv, Write
    PROVE  TrafficInv'
<1>1. stage = "idle" /\ stage' = "written" /\ loaded' = loaded
  BY DEF Write
<1>2. PICK m \in Traffic :
          /\ sent' = m
          /\ LET whole == PeerWrites(m)
             IN  \/ missing' = 0 /\ \E s \in Spares : payload' = whole \o s
                 \/ missing' \in 1 .. Len(whole)
                    /\ payload' = SubSeq(whole, 1, Len(whole) - missing')
  BY Zenon DEF Write
<1> DEFINE w == PeerWrites(m)
<1>3. w \in Cells
  BY EveryMessageIsRead DEF IsRead
<1>4. \/ missing' = 0 /\ \E s \in Spares : payload' = w \o s
      \/ missing' \in 1 .. Len(w) /\ payload' = SubSeq(w, 1, Len(w) - missing')
  BY <1>2, Zenon
<1> HIDE DEF w
<1>5. /\ payload' \in Cells
      /\ missing' = 0 => \E s \in Cells : payload' = w \o s
      /\ missing' # 0 => Short(payload', w)
  <2>1. CASE missing' = 0 /\ \E s \in Spares : payload' = w \o s
    <3>1. PICK s \in Spares : payload' = w \o s
      BY <2>1
    <3>2. s \in Cells
      BY TrafficAssumption
    <3>3. QED
      BY <1>3, <2>1, <3>1, <3>2, PartsJoin
  <2>2. CASE missing' \in 1 .. Len(w) /\ payload' = SubSeq(w, 1, Len(w) - missing')
    <3> DEFINE n == Len(w) - missing'
               u == SubSeq(w, n + 1, Len(w))
    <3>1. Len(w) \in Nat
      BY <1>3, LenProperties DEF Cells
    <3>2. n \in 0 .. Len(w) /\ n < Len(w) /\ missing' # 0
      BY <2>2, <3>1
    <3>3. payload' \in Cells /\ u \in Cells /\ payload' \o u = w
      <4> HIDE DEF n
      <4>1. w \in Seq(Int)
        BY <1>3 DEF Cells
      <4>2. /\ SubSeq(w, 1, n) \in Seq(Int) /\ SubSeq(w, n + 1, Len(w)) \in Seq(Int)
            /\ SubSeq(w, 1, n) \o SubSeq(w, n + 1, Len(w)) = w
        BY <3>2, <4>1, CutAndJoin
      <4>3. payload' = SubSeq(w, 1, n)
        BY <2>2 DEF n
      <4>4. QED
        BY <4>2, <4>3 DEF Cells
    <3>4. u # <<>>
      <4> HIDE DEF n
      <4>1. Len(u) = Len(w) - n
        BY <1>3, <3>1, <3>2 DEF Cells
      <4> HIDE DEF u
      <4>2. QED
        BY <3>1, <3>2, <4>1
    <3> HIDE DEF u, n
    <3>5. Short(payload', w)
      BY <3>3, <3>4 DEF Short
    <3>6. QED
      BY <3>2, <3>3, <3>5
  <2>3. QED
    BY <1>4, <2>1, <2>2
<1>6. loaded' = <<>>
  BY <1>1 DEF TrafficInv
<1>7. QED
  BY <1>1, <1>2, <1>5, <1>6 DEF TrafficInv, w

\* What is read is what was meant, or has failed.
LEMMA DecipheredWell ==
    ASSUME TrafficInv, Decipher
    PROVE  TrafficInv'
<1>1. /\ stage = "written" /\ stage' = "read" /\ sent' = sent /\ missing' = missing
      /\ loaded' = loaded /\ got' = Reading(sent, payload)
  BY Zenon DEF Decipher, Reading
<1>2. /\ sent \in Traffic /\ payload \in Cells /\ loaded = <<>>
      /\ missing = 0 => \E s \in Cells : payload = PeerWrites(sent) \o s
      /\ missing # 0 => Short(payload, PeerWrites(sent))
  BY <1>1 DEF TrafficInv
<1>3. PICK v : /\ Meant(sent, v)
               /\ \A u \in Cells : Reads(Reading(sent, u), u, PeerWrites(sent), v)
  BY <1>2, EveryMessageIsRead DEF IsRead
<1>4. Reads(Reading(sent, payload), payload, PeerWrites(sent), v)
  BY <1>2, <1>3
<1>5. missing = 0 => \E s : got' = At(s, v)
  BY <1>1, <1>2, <1>4 DEF Reads
<1>6. missing # 0 => Fails(got')
  BY <1>1, <1>2, <1>4 DEF Reads
<1>7. missing' = 0 => \E s, z : got' = At(s, z) /\ Meant(sent', z)
  BY <1>1, <1>3, <1>5
<1>8. QED
  BY <1>1, <1>2, <1>6, <1>7 DEF TrafficInv

\* What was read and can be used was whole.
LEMMA UsableIsMeant ==
    ASSUME TrafficInv, NEW c, Usable(c)
    PROVE  /\ stage = "read" /\ sent \in Traffic /\ sent.command = c /\ missing = 0
           /\ Meant(sent, got.read)
<1>1. stage = "read" /\ sent.command = c /\ got.ok
  BY DEF Usable
<1>2. sent \in Traffic /\ missing = 0
  BY <1>1, Outcomes DEF TrafficInv
<1>3. PICK s, v : got = At(s, v) /\ Meant(sent, v)
  BY <1>1, <1>2 DEF TrafficInv
<1>4. got.read = v
  BY <1>3, Outcomes
<1>5. QED
  BY <1>1, <1>2, <1>3, <1>4

\* The command of a message tells what it is.
LEMMA CommandTells ==
    ASSUME NEW m \in Traffic
    PROVE  /\ m.command = "headers" => m \in Headers
           /\ m.command = "inv" => m \in Inventory
<1>1. \/ m \in VersionMessage \/ m \in NonceMessage \/ m \in [command : {"verack"}]
      \/ m \in GetHeaders \/ m \in Headers \/ m \in Inventory \/ m \in LegacyTx
      \/ m \in SegwitTx
  BY TrafficAssumption
<1>2. /\ m \in VersionMessage => m.command = "version"
      /\ m \in NonceMessage => m.command \in {"ping", "pong"}
      /\ m \in [command : {"verack"}] => m.command = "verack"
      /\ m \in GetHeaders => m.command = "getheaders"
      /\ m \in Headers => m.command = "headers"
      /\ m \in Inventory => m.command = "inv"
      /\ m \in LegacyTx => m.command = "tx"
      /\ m \in SegwitTx => m.command = "tx"
  BY DEF VersionMessage, NonceMessage, GetHeaders, Headers, Inventory, LegacyTx, SegwitTx
<1>3. QED
  BY <1>1, <1>2

\* The answer to an inv asks for what it announced.
LEMMA AnsweredWell ==
    ASSUME TrafficInv, Answer
    PROVE  TrafficInv'
<1> DEFINE s == sent.inventory
           g == got.read.inventory
<1>1. /\ Usable("inv") /\ stage' = "answered" /\ sent' = sent /\ loaded' = loaded
      /\ payload' = encode_payload([command |-> "getdata", inventory |-> g])
  BY DEF Answer
<1>2. /\ stage = "read" /\ sent \in Traffic /\ sent.command = "inv" /\ missing = 0
      /\ Meant(sent, got.read)
  BY <1>1, UsableIsMeant
<1>3. s \in Seq([number : Int, hash : Int])
  BY <1>2, CommandTells DEF Inventory
<1>4. g = [i \in DOMAIN s |-> [inv_type |-> from_u32(s[i].number), hash |-> s[i].hash]]
  BY <1>2, Zenon DEF Meant
<1>5. payload' = WriteGetData(g)
  <2> DEFINE m == [command |-> "getdata", inventory |-> g]
  <2>1. m.command = "getdata" /\ m.inventory = g
    OBVIOUS
  <2> HIDE DEF m
  <2>2. encode_payload(m) = WriteGetData(g)
    BY <2>1, Zenon DEF encode_payload
  <2>3. QED
    BY <1>1, <2>2 DEF m
<1> HIDE DEF g, s
<1>6. DOMAIN g = DOMAIN s /\ Len(g) = Len(s)
  <2>1. DOMAIN g = DOMAIN s
    BY <1>4
  <2>2. DOMAIN s = 1 .. Len(s) /\ Len(s) \in Nat
    BY <1>3, LenProperties
  <2>3. g = [i \in 1 .. Len(s) |-> [inv_type |-> from_u32(s[i].number), hash |-> s[i].hash]]
    BY <1>4, <2>2
  <2>4. Len(g) = Len(s)
    BY <2>2, <2>3
  <2>5. QED
    BY <2>1, <2>4
<1>7. \A i \in DOMAIN s : <<ToU32(g[i].inv_type), g[i].hash>> = <<s[i].number, s[i].hash>>
  <2> SUFFICES ASSUME NEW i \in DOMAIN s
               PROVE  <<ToU32(g[i].inv_type), g[i].hash>> = <<s[i].number, s[i].hash>>
    OBVIOUS
  <2>1. g[i].inv_type = from_u32(s[i].number) /\ g[i].hash = s[i].hash
    BY <1>4
  <2>2. QED
    BY <2>1, TypeKept
<1>8. WriteGetData(g) = WriteInv(sent)
  <2> DEFINE a == [i \in DOMAIN g |-> <<ToU32(g[i].inv_type), g[i].hash>>]
             b == [i \in DOMAIN s |-> <<s[i].number, s[i].hash>>]
  <2>1. a = b
    BY <1>6, <1>7
  <2>2. WriteGetData(g) = Count(g) \o FlattenSeq(a)
    BY Zenon DEF WriteGetData, WriteMany
  <2>3. WriteInv(sent) = Count(s) \o FlattenSeq(b)
    BY Zenon DEF WriteInv, WriteMany, s
  <2>4. Count(g) = Count(s)
    BY <1>6, Zenon DEF Count
  <2> HIDE DEF a, b
  <2>5. QED
    BY <2>1, <2>2, <2>3, <2>4
<1>9. loaded = <<>>
  BY <1>2 DEF TrafficInv
<1>10. QED
  BY <1>1, <1>2, <1>5, <1>8, <1>9 DEF TrafficInv

\* What is saved are the headers, as they are kept.
LEMMA SavedWell ==
    ASSUME TrafficInv, Save
    PROVE  TrafficInv'
<1> DEFINE g == got.read.headers
<1>1. /\ Usable("headers") /\ stage' = "saved" /\ sent' = sent /\ loaded' = loaded
      /\ disk' = FlattenSeq([i \in DOMAIN g |-> as_bytes(g[i])])
  BY DEF Save
<1>2. /\ stage = "read" /\ sent \in Traffic /\ sent.command = "headers" /\ missing = 0
      /\ Meant(sent, got.read)
  BY <1>1, UsableIsMeant
<1>3. sent.headers \in Seq(WireHeader)
  BY <1>2, CommandTells DEF Headers
<1>4. g = KeptOf(sent)
  BY <1>2, Zenon DEF Meant, KeptOf
<1>5. disk' = OnDisk(g)
  BY <1>1, Zenon DEF OnDisk
<1> HIDE DEF g
<1>6. g \in Seq(KeptHeader)
  <2>1. /\ Len(sent.headers) \in Nat /\ DOMAIN sent.headers = 1 .. Len(sent.headers)
        /\ \A i \in 1 .. Len(sent.headers) : Kept(sent.headers[i]) \in KeptHeader
    BY <1>3, LenProperties, ElementOfSeq DEF KeptHeader
  <2>2. QED
    BY <1>4, <2>1 DEF KeptOf
<1>7. loaded = <<>>
  BY <1>2 DEF TrafficInv
<1>8. loaded' \in Seq(KeptHeader) /\ loaded' \o g = KeptOf(sent')
  BY <1>1, <1>4, <1>6, <1>7, ConcatEmptySeq
<1>9. QED
  BY <1>1, <1>2, <1>5, <1>6, <1>8 DEF TrafficInv

\* Each record that is loaded is the next of them.
LEMMA LoadedWell ==
    ASSUME TrafficInv, LoadHeader
    PROVE  TrafficInv'
<1> DEFINE r == read_from_disk(Reader(disk))
<1>1. /\ stage = "saved" /\ sent' = sent
      /\ \/ r.ok /\ loaded' = Append(loaded, r.read) /\ disk' = r.rest /\ stage' = stage
         \/ ~r.ok /\ stage' = "loaded" /\ loaded' = loaded
  BY Zenon DEF LoadHeader
<1>2. sent \in Traffic /\ sent.command = "headers" /\ loaded \in Seq(KeptHeader)
  BY <1>1 DEF TrafficInv
<1>3. PICK rest \in Seq(KeptHeader) : disk = OnDisk(rest) /\ loaded \o rest = KeptOf(sent)
  BY <1>1 DEF TrafficInv
<1>4. /\ rest = <<>> => ~r.ok
      /\ rest # <<>> => r = At(OnDisk(Tail(rest)), Head(rest))
  BY <1>3, DiskReads
<1> HIDE DEF r
<1>5. CASE rest = <<>>
  <2>1. stage' = "loaded" /\ loaded' = loaded
    BY <1>1, <1>4, <1>5
  <2>2. loaded' = KeptOf(sent')
    BY <1>1, <1>2, <1>3, <1>5, <2>1, ConcatEmptySeq
  <2>3. QED
    BY <1>1, <1>2, <2>1, <2>2 DEF TrafficInv
<1>6. CASE rest # <<>>
  <2>1. r.ok /\ r.rest = OnDisk(Tail(rest)) /\ r.read = Head(rest)
    BY <1>4, <1>6, Outcomes
  <2>2. loaded' = Append(loaded, Head(rest)) /\ disk' = OnDisk(Tail(rest)) /\ stage' = "saved"
    BY <1>1, <2>1
  <2>3. /\ Tail(rest) \in Seq(KeptHeader) /\ Append(loaded, Head(rest)) \in Seq(KeptHeader)
        /\ Append(loaded, Head(rest)) \o Tail(rest) = loaded \o rest
    BY <1>2, <1>6, HeadMoves
  <2>4. \E s \in Seq(KeptHeader) : disk' = OnDisk(s) /\ loaded' \o s = KeptOf(sent')
    BY <1>1, <1>3, <2>2, <2>3
  <2>5. QED
    BY <1>1, <1>2, <2>2, <2>3, <2>4 DEF TrafficInv
<1>7. QED
  BY <1>5, <1>6

\* Every step of the traffic keeps TrafficInv.
LEMMA TrafficKept == TrafficInv /\ [TrafficNext]_traffic => TrafficInv'
<1>1. TrafficInv /\ UNCHANGED traffic => TrafficInv'
  BY DEF TrafficInv, traffic
<1>2. QED
  BY <1>1, WrittenWell, DecipheredWell, AnsweredWell, SavedWell, LoadedWell DEF TrafficNext

\* TrafficInv holds of every behaviour.
THEOREM TrafficInvariant == TrafficSpec => []TrafficInv
BY TrafficStarts, TrafficKept, PTL DEF TrafficSpec

\* Every payload that is written whole is read as it was meant, whatever
\* follows it and whatever the message holds.
THEOREM ReadWhole == TrafficSpec => []ReadAsWritten
<1>1. TrafficInv => ReadAsWritten
  <2> SUFFICES ASSUME TrafficInv, stage = "read", missing = 0
               PROVE  /\ got.ok
                      /\ CASE sent.command = "headers" ->
                                got.read.headers
                                = [i \in DOMAIN sent.headers |-> Kept(sent.headers[i])]
                           [] sent.command = "inv" ->
                                [i \in DOMAIN got.read.inventory |-> got.read.inventory[i].hash]
                                = [i \in DOMAIN sent.inventory |-> sent.inventory[i].hash]
                           [] sent.command = "version" ->
                                \A f \in DOMAIN sent \ {"command"} :
                                    got.read[f] = IF f = "user_agent"
                                                  THEN from_utf8_lossy(sent[f]) ELSE sent[f]
                           [] OTHER -> \A f \in DOMAIN sent \ {"command"} :
                                           got.read[f] = sent[f]
    BY Zenon DEF ReadAsWritten
  <2>1. PICK s, v : got = At(s, v) /\ Meant(sent, v)
    BY DEF TrafficInv
  <2>2. got.ok /\ got.read = v
    BY <2>1, Outcomes
  <2>3. CASE sent.command = "headers"
    <3>1. v.headers = [i \in DOMAIN sent.headers |-> Kept(sent.headers[i])]
      BY <2>1, <2>3, Zenon DEF Meant
    <3>2. QED
      BY <2>2, <2>3, <3>1, Zenon
  <2>4. CASE sent.command = "inv"
    <3> DEFINE a == sent.inventory
               b == v.inventory
    <3>1. b = [i \in DOMAIN a |-> [inv_type |-> from_u32(a[i].number), hash |-> a[i].hash]]
      BY <2>1, <2>4, Zenon DEF Meant
    <3> HIDE DEF b
    <3>2. DOMAIN b = DOMAIN a /\ \A i \in DOMAIN a : b[i].hash = a[i].hash
      BY <3>1
    <3>3. [i \in DOMAIN b |-> b[i].hash] = [i \in DOMAIN a |-> a[i].hash]
      BY <3>2
    <3>4. got.read.inventory = b
      BY <2>2 DEF b
    <3>5. QED
      BY <2>2, <2>4, <3>3, <3>4, Zenon
  <2>5. CASE sent.command = "version"
    <3>1. \A f \in DOMAIN sent \ {"command"} :
              v[f] = IF f = "user_agent" THEN from_utf8_lossy(sent[f]) ELSE sent[f]
      BY <2>1, <2>5, Zenon DEF Meant
    <3>2. QED
      BY <2>2, <2>5, <3>1, Zenon
  <2>6. CASE sent.command \notin {"headers", "inv", "version"}
    <3>1. \A f \in DOMAIN sent \ {"command"} : v[f] = sent[f]
      BY <2>1, <2>6, Zenon DEF Meant
    <3>2. QED
      BY <2>2, <2>6, <3>1, Zenon
  <2>7. QED
    BY <2>3, <2>4, <2>5, <2>6
<1>2. QED
  BY <1>1, TrafficInvariant, PTL

\* Every payload that ends within its message is refused.
THEOREM ShortIsRefused == TrafficSpec => []ShortPayloadIsRefused
<1>1. TrafficInv => ShortPayloadIsRefused
  <2> SUFFICES ASSUME TrafficInv, stage = "read", missing > 0 PROVE ~got.ok
    BY DEF ShortPayloadIsRefused
  <2>1. missing # 0
    OBVIOUS
  <2>2. QED
    BY <2>1, Outcomes DEF TrafficInv
<1>2. QED
  BY <1>1, TrafficInvariant, PTL

\* The getdata that answers an inv holds the vectors of the inv.
THEOREM AnnouncedIsAsked == TrafficSpec => []AsksForTheAnnounced
<1>1. TrafficInv => AsksForTheAnnounced
  BY DEF TrafficInv, AsksForTheAnnounced
<1>2. QED
  BY <1>1, TrafficInvariant, PTL

\* What the next start loads are the headers the peer sent.
THEOREM DiskKeepsHeaders == TrafficSpec => []HeadersSurviveDisk
<1>1. TrafficInv => HeadersSurviveDisk
  BY DEF TrafficInv, HeadersSurviveDisk, KeptOf
<1>2. QED
  BY <1>1, TrafficInvariant, PTL

====
