---- MODULE ScriptEngineProofs ----
(***************************************************************************)
(* Proofs about the script engine, for every set of scripts: the parser     *)
(* reads back what was written, a script that has lost bytes never          *)
(* succeeds, and what a P2PKH output accepts.                               *)
(***************************************************************************)
EXTENDS ScriptEngine, SequenceLemmas

---------------------------------------------------------------------------
\* The bytes of one chunk.

\* The chunks a writer writes.
Good    == {c \in Chunk : LenFits(c)}
ByteSeq == Seq(Byte)

\* The scripts of a run are sequences of chunks.
LEMMA Scripts ==
    /\ MaxCut \in Nat
    /\ Unlocks \subseteq Seq(Good) /\ Locks \subseteq Seq(Good)
<1>1. ASSUME NEW cs \in Unlocks \cup Locks PROVE cs \in Seq(Good)
  <2>1. cs \in Seq(Chunk) /\ \A j \in DOMAIN cs : LenFits(cs[j])
    BY ScriptAssumption
  <2>2. Len(cs) \in Nat /\ cs = [j \in 1 .. Len(cs) |-> cs[j]] /\ DOMAIN cs = 1 .. Len(cs)
    BY <2>1
  <2>3. \A j \in 1 .. Len(cs) : cs[j] \in Good
    BY <2>1, <2>2, ElementOfSeq DEF Good
  <2>4. QED
    BY <2>2, <2>3
<1>2. QED
  BY <1>1, ScriptAssumption

\* A chunk that is an opcode is no push.
LEMMA OpChunk ==
    ASSUME NEW c \in Good, "op" \in DOMAIN c
    PROVE  c = [op |-> c.op] /\ c.op \in Byte /\ ~IsPush(c.op)
<1>1. c \in [op : {b \in Byte : ~IsPush(b)}] \/ c \in [form : {1, 2, 3, 5}, push : Seq(Byte)]
  BY Zenon DEF Good, Chunk
<1>2. c \in [op : {b \in Byte : ~IsPush(b)}]
  BY <1>1
<1>3. QED
  BY <1>2

\* A chunk that pushes data, and the length its form allows.
LEMMA PushChunk ==
    ASSUME NEW c \in Good, "op" \notin DOMAIN c
    PROVE  /\ "push" \in DOMAIN c /\ c.push \in Seq(Byte) /\ c.form \in {1, 2, 3, 5}
           /\ c.form = 1 => Len(c.push) \in 1 .. 75
           /\ c.form = 2 => Len(c.push) \in 0 .. 255
           /\ c.form \in {3, 5} => Len(c.push) \in 0 .. MaxData
<1>1. c \in [op : {b \in Byte : ~IsPush(b)}] \/ c \in [form : {1, 2, 3, 5}, push : Seq(Byte)]
  BY Zenon DEF Good, Chunk
<1>2. c \in [form : {1, 2, 3, 5}, push : Seq(Byte)]
  BY <1>1
<1>3. /\ "push" \in DOMAIN c /\ "form" \in DOMAIN c
      /\ c.push \in Seq(Byte) /\ c.form \in {1, 2, 3, 5}
  BY <1>2
<1>4. Len(c.push) \in IF c.form = 1 THEN 1 .. 75
                      ELSE IF c.form = 2 THEN 0 .. 255 ELSE 0 .. MaxData
  BY <1>3, Zenon DEF Good, LenFits
<1>5. c.form = 1 => Len(c.push) \in 1 .. 75
  BY <1>4, Zenon
<1>6. c.form = 2 => Len(c.push) \in 0 .. 255
  <2>1. 2 # 1
    OBVIOUS
  <2>2. QED
    BY <1>4, <2>1, Zenon
<1>7. c.form \in {3, 5} => Len(c.push) \in 0 .. MaxData
  <2>1. 3 # 1 /\ 3 # 2 /\ 5 # 1 /\ 5 # 2
    OBVIOUS
  <2>2. QED
    BY <1>4, <2>1, Zenon
<1>8. QED
  BY <1>3, <1>5, <1>6, <1>7, Zenon

\* The bytes b are a head of h bytes and the data d.
DataAfter(b, h, d) ==
    /\ b \in ByteSeq /\ Len(b) = h + Len(d)
    /\ \A j \in 1 .. Len(d) : b[h + j] = d[j]

\* They are read as a push of d.
ReadsAs(b, d) ==
    /\ IsPush(b[1]) /\ HeadLen(b[1]) \in 1 .. 5
    /\ DataLen(b, 1) = Len(d)
    /\ DataAfter(b, HeadLen(b[1]), d)

\* In a head followed by data, both are where they were written.
LEMMA HeadAndData ==
    ASSUME NEW a \in Seq(Byte), NEW d \in Seq(Byte), NEW b, b = a \o d
    PROVE  /\ DataAfter(b, Len(a), d)
           /\ \A j \in 1 .. Len(a) : b[j] = a[j]
BY ConcatParts DEF ByteSeq, DataAfter

\* A length of two bytes.
LEMMA HighByte ==
    ASSUME NEW n \in Nat, n <= MaxData, NEW low \in Byte, NEW high \in Int,
           n = low + 256 * high
    PROVE  high \in Byte
<1>1. low \in Nat /\ low <= 255 /\ n < 256 * 256
  BY SMT DEF Byte, MaxData
<1>2. high >= 0 /\ high <= 255
  BY <1>1, SMT
<1>3. QED
  BY <1>2, SMT DEF Byte

\* A length is its low and its high byte.
LEMMA TwoBytes ==
    ASSUME NEW n \in 0 .. MaxData
    PROVE  n % 256 \in Byte /\ n \div 256 \in Byte /\ n = (n % 256) + 256 * (n \div 256)
<1>1. n \in Nat /\ n <= MaxData
  BY SMT DEF MaxData
<1>2. n % 256 \in Byte /\ n \div 256 \in Int
  BY <1>1, SMT DEF Byte
<1>3. n = (n % 256) + 256 * (n \div 256)
  BY <1>1, SMT
<1>4. n \div 256 \in Byte
  BY <1>1, <1>2, <1>3, HighByte, Zenon
<1>5. QED
  BY <1>2, <1>3, <1>4, Zenon

\* The opcode as length is read as it was written.
LEMMA FormOne ==
    ASSUME NEW d \in Seq(Byte), Len(d) \in 1 .. 75,
           NEW b, DataAfter(b, 1, d), b[1] = Len(d)
    PROVE  ReadsAs(b, d)
<1>1. b[1] # 76 /\ b[1] # 77 /\ b[1] # 78
  <2>1. \A n \in 1 .. 75 : n # 76 /\ n # 77 /\ n # 78
    OBVIOUS
  <2>2. QED
    BY <2>1, Zenon
<1>2. HeadLen(b[1]) = 1
  BY <1>1 DEF HeadLen
<1>3. DataLen(b, 1) = Len(d)
  BY <1>1 DEF DataLen
<1>4. IsPush(b[1])
  BY DEF IsPush
<1>5. QED
  BY <1>2, <1>3, <1>4 DEF ReadsAs

\* OP_PUSHDATA1 is read as it was written.
LEMMA FormTwo ==
    ASSUME NEW d \in Seq(Byte), Len(d) \in 0 .. 255,
           NEW b, DataAfter(b, 2, d), b[1] = 76, b[2] = Len(d)
    PROVE  ReadsAs(b, d)
<1>1. HeadLen(b[1]) = 2
  BY DEF HeadLen
<1>2. DataLen(b, 1) = Len(d)
  BY DEF DataLen, Byte
<1>3. IsPush(b[1])
  BY DEF IsPush
<1>4. QED
  BY <1>1, <1>2, <1>3 DEF ReadsAs

\* OP_PUSHDATA2 is read as it was written, low byte first.
LEMMA FormThree ==
    ASSUME NEW d \in Seq(Byte), NEW low \in Byte, NEW high \in Byte, Len(d) = low + 256 * high,
           NEW b, DataAfter(b, 3, d), b[1] = 77, b[2] = low, b[3] = high
    PROVE  ReadsAs(b, d)
<1>1. HeadLen(b[1]) = 3
  BY DEF HeadLen
<1>2. DataLen(b, 1) = Len(d)
  BY DEF DataLen, Byte
<1>3. IsPush(b[1])
  BY DEF IsPush
<1>4. QED
  BY <1>1, <1>2, <1>3 DEF ReadsAs

\* OP_PUSHDATA4 is read as it was written, low byte first.
LEMMA FormFive ==
    ASSUME NEW d \in Seq(Byte), NEW low \in Byte, NEW high \in Byte, Len(d) = low + 256 * high,
           NEW b, DataAfter(b, 5, d), b[1] = 78, b[2] = low, b[3] = high, b[4] = 0, b[5] = 0
    PROVE  ReadsAs(b, d)
<1>1. HeadLen(b[1]) = 5
  BY DEF HeadLen
<1>2. DataLen(b, 1) = Len(d)
  <2>1. DataLen(b, 1) = b[1 + 1] + 256 * (b[1 + 2] + 256 * (b[1 + 3] + 256 * b[1 + 4]))
    <3>1. b[1] # 76 /\ b[1] # 77
      OBVIOUS
    <3>2. QED
      BY <3>1 DEF DataLen
  <2>2. b[1 + 1] = low /\ b[1 + 2] = high /\ b[1 + 3] = 0 /\ b[1 + 4] = 0
    OBVIOUS
  <2>3. high + 256 * (0 + 256 * 0) = high
    BY DEF Byte
  <2>4. QED
    BY <2>1, <2>2, <2>3
<1>3. IsPush(b[1])
  BY DEF IsPush
<1>4. QED
  BY <1>1, <1>2, <1>3 DEF ReadsAs

\* The heads of the five forms, byte by byte.
LEMMA HeadTuples ==
    ASSUME NEW x \in Byte, NEW y \in Byte, NEW z \in Byte
    PROVE  /\ <<x>> \in Seq(Byte) /\ Len(<<x>>) = 1 /\ <<x>>[1] = x
           /\ <<x, y>> \in Seq(Byte) /\ Len(<<x, y>>) = 2
           /\ <<x, y>>[1] = x /\ <<x, y>>[2] = y
           /\ <<x, y, z>> \in Seq(Byte) /\ Len(<<x, y, z>>) = 3
           /\ <<x, y, z>>[1] = x /\ <<x, y, z>>[2] = y /\ <<x, y, z>>[3] = z
           /\ <<x, y, z, 0, 0>> \in Seq(Byte) /\ Len(<<x, y, z, 0, 0>>) = 5
           /\ <<x, y, z, 0, 0>>[1] = x /\ <<x, y, z, 0, 0>>[2] = y
           /\ <<x, y, z, 0, 0>>[3] = z
           /\ <<x, y, z, 0, 0>>[4] = 0 /\ <<x, y, z, 0, 0>>[5] = 0
BY DEF Byte

\* An opcode is written as itself.
LEMMA OpBytes ==
    ASSUME NEW c \in Good, "op" \in DOMAIN c
    PROVE  /\ Bytes(c) = <<c.op>> /\ c.op \in Byte /\ ~IsPush(c.op)
           /\ AsInstruction(c) = [op |-> c.op]
BY OpChunk DEF Bytes, AsInstruction

\* In each of the four forms the bytes of a push are read as its data.
LEMMA PushBytes ==
    ASSUME NEW c \in Good, "op" \notin DOMAIN c
    PROVE  /\ ReadsAs(Bytes(c), c.push) /\ c.push \in ByteSeq
           /\ AsInstruction(c) = [push |-> c.push]
<1> DEFINE d == c.push
           n == Len(d)
           b == Bytes(c)
<1>1. /\ d \in Seq(Byte) /\ c.form \in {1, 2, 3, 5}
      /\ c.form = 1 => n \in 1 .. 75
      /\ c.form = 2 => n \in 0 .. 255
      /\ c.form \in {3, 5} => n \in 0 .. MaxData
  BY PushChunk
<1>2. AsInstruction(c) = [push |-> c.push] /\ c.push \in ByteSeq
  BY <1>1 DEF AsInstruction, ByteSeq
<1>3. CASE c.form = 1
  <2> DEFINE a == <<n>>
  <2>2. b = a \o d
    BY <1>3 DEF Bytes
  <2> HIDE DEF b, d
  <2>3. n \in Byte
    BY <1>1, <1>3 DEF Byte
  <2>4. /\ a \in Seq(Byte) /\ Len(a) = 1
        /\ a[1] = n
    <3>1. 76 \in Byte /\ 77 \in Byte /\ 78 \in Byte
      BY DEF Byte
    <3>2. QED
      BY <2>3, <3>1, HeadTuples
  <2> HIDE DEF a
  <2>5. /\ DataAfter(b, 1, d)
        /\ b[1] = n
    <3>1. DataAfter(b, Len(a), d) /\ \A j \in 1 .. Len(a) : b[j] = a[j]
      <4>1. a \in Seq(Byte) /\ d \in Seq(Byte)
        BY <1>1, <2>4
      <4>2. QED
        BY <2>2, <4>1, HeadAndData
    <3>2. QED
      BY <2>4, <3>1
  <2>6. ReadsAs(b, d)
    BY <1>1, <1>3, <2>3, <2>5, FormOne
  <2>7. QED
    BY <1>2, <2>6 DEF b, d
<1>4. CASE c.form = 2
  <2> DEFINE a == <<76, n>>
  <2>2. b = a \o d
    BY <1>4 DEF Bytes
  <2> HIDE DEF b, d
  <2>3. n \in Byte
    BY <1>1, <1>4 DEF Byte
  <2>4. /\ a \in Seq(Byte) /\ Len(a) = 2
        /\ a[1] = 76 /\ a[2] = n
    <3>1. 76 \in Byte /\ 77 \in Byte /\ 78 \in Byte
      BY DEF Byte
    <3>2. QED
      BY <2>3, <3>1, HeadTuples
  <2> HIDE DEF a
  <2>5. /\ DataAfter(b, 2, d)
        /\ b[1] = 76 /\ b[2] = n
    <3>1. DataAfter(b, Len(a), d) /\ \A j \in 1 .. Len(a) : b[j] = a[j]
      <4>1. a \in Seq(Byte) /\ d \in Seq(Byte)
        BY <1>1, <2>4
      <4>2. QED
        BY <2>2, <4>1, HeadAndData
    <3>2. QED
      BY <2>4, <3>1
  <2>6. ReadsAs(b, d)
    BY <1>1, <1>4, <2>3, <2>5, FormTwo
  <2>7. QED
    BY <1>2, <2>6 DEF b, d
<1>5. CASE c.form = 3
  <2>1. /\ n % 256 \in Byte /\ n \div 256 \in Byte
        /\ n = (n % 256) + 256 * (n \div 256)
    BY <1>1, <1>5, TwoBytes
  <2> DEFINE low  == n % 256
             high == n \div 256
             a == <<77, low, high>>
  <2>2. b = a \o d
    BY <1>5 DEF Bytes
  <2> HIDE DEF low, high, b, d
  <2>3. low \in Byte /\ high \in Byte /\ n = low + 256 * high
    BY <2>1, Zenon DEF low, high
  <2>4. /\ a \in Seq(Byte) /\ Len(a) = 3
        /\ a[1] = 77 /\ a[2] = low /\ a[3] = high
    <3>1. 76 \in Byte /\ 77 \in Byte /\ 78 \in Byte
      BY DEF Byte
    <3>2. QED
      BY <2>3, <3>1, HeadTuples
  <2> HIDE DEF a
  <2>5. /\ DataAfter(b, 3, d)
        /\ b[1] = 77 /\ b[2] = low /\ b[3] = high
    <3>1. DataAfter(b, Len(a), d) /\ \A j \in 1 .. Len(a) : b[j] = a[j]
      <4>1. a \in Seq(Byte) /\ d \in Seq(Byte)
        BY <1>1, <2>4
      <4>2. QED
        BY <2>2, <4>1, HeadAndData
    <3>2. QED
      BY <2>4, <3>1
  <2>6. ReadsAs(b, d)
    BY <1>1, <1>5, <2>3, <2>5, FormThree
  <2>7. QED
    BY <1>2, <2>6 DEF b, d
<1>6. CASE c.form = 5
  <2>1. /\ n % 256 \in Byte /\ n \div 256 \in Byte
        /\ n = (n % 256) + 256 * (n \div 256)
    BY <1>1, <1>6, TwoBytes
  <2> DEFINE low  == n % 256
             high == n \div 256
             a == <<78, low, high, 0, 0>>
  <2>2. b = a \o d
    BY <1>6 DEF Bytes
  <2> HIDE DEF low, high, b, d
  <2>3. low \in Byte /\ high \in Byte /\ n = low + 256 * high
    BY <2>1, Zenon DEF low, high
  <2>4. /\ a \in Seq(Byte) /\ Len(a) = 5
        /\ a[1] = 78 /\ a[2] = low /\ a[3] = high
        /\ a[4] = 0 /\ a[5] = 0
    <3>1. 76 \in Byte /\ 77 \in Byte /\ 78 \in Byte
      BY DEF Byte
    <3>2. QED
      BY <2>3, <3>1, HeadTuples
  <2> HIDE DEF a
  <2>5. /\ DataAfter(b, 5, d)
        /\ b[1] = 78 /\ b[2] = low /\ b[3] = high
        /\ b[4] = 0 /\ b[5] = 0
    <3>1. DataAfter(b, Len(a), d) /\ \A j \in 1 .. Len(a) : b[j] = a[j]
      <4>1. a \in Seq(Byte) /\ d \in Seq(Byte)
        BY <1>1, <2>4
      <4>2. QED
        BY <2>2, <4>1, HeadAndData
    <3>2. QED
      BY <2>4, <3>1
  <2>6. ReadsAs(b, d)
    BY <1>1, <1>6, <2>3, <2>5, FormFive
  <2>7. QED
    BY <1>2, <2>6 DEF b, d
<1>7. QED
  BY <1>1, <1>3, <1>4, <1>5, <1>6

\* Every chunk is written as one byte or more.
LEMMA BytesType ==
    ASSUME NEW c \in Good
    PROVE  Bytes(c) \in ByteSeq /\ Len(Bytes(c)) \in Nat /\ Len(Bytes(c)) > 0
<1>1. CASE "op" \in DOMAIN c
  <2>1. Bytes(c) = <<c.op>> /\ c.op \in Byte
    BY <1>1, OpBytes
  <2>2. <<c.op>> \in Seq(Byte) /\ Len(<<c.op>>) = 1
    BY <2>1
  <2>3. QED
    BY <2>1, <2>2 DEF ByteSeq
<1>2. CASE "op" \notin DOMAIN c
  <2> DEFINE b == Bytes(c)
             h == HeadLen(b[1])
             d == c.push
  <2>1. b \in ByteSeq /\ Len(b) = h + Len(d) /\ h \in 1 .. 5 /\ d \in Seq(Byte)
    BY <1>2, PushBytes, Zenon DEF ReadsAs, DataAfter, ByteSeq
  <2> HIDE DEF b, h, d
  <2>2. Len(d) \in Nat
    BY <2>1, LenProperties
  <2>3. b \in ByteSeq /\ Len(b) \in Nat /\ Len(b) > 0
    BY <2>1, <2>2
  <2>4. QED
    BY <2>3 DEF b
<1>3. QED
  BY <1>1, <1>2

---------------------------------------------------------------------------
\* The bytes of a script.

Parts(cs) == [n \in DOMAIN cs |-> Bytes(cs[n])]

\* The chunks of a script, written one by one.
LEMMA PartsType ==
    ASSUME NEW cs \in Seq(Good)
    PROVE  /\ Parts(cs) \in Seq(ByteSeq) /\ Len(Parts(cs)) = Len(cs)
           /\ \A n \in 1 .. Len(cs) : Parts(cs)[n] = Bytes(cs[n])
<1>1. Len(cs) \in Nat /\ DOMAIN cs = 1 .. Len(cs)
  BY LenProperties
<1>2. \A n \in 1 .. Len(cs) : Bytes(cs[n]) \in ByteSeq
  BY ElementOfSeq, BytesType
<1>3. Parts(cs) = [n \in 1 .. Len(cs) |-> Bytes(cs[n])]
  BY <1>1, Zenon DEF Parts
<1>4. QED
  BY <1>1, <1>2, <1>3

\* A script is written chunk after chunk.
LEMMA WrittenIs == \A cs : Written(cs) = FlattenSeq(Parts(cs))
BY Zenon DEF Written, Parts

\* FlattenSeq on lists of byte strings: none, one more, and two lists.
LEMMA FlattenBytes ==
    /\ FlattenSeq(<<>>) = <<>>
    /\ \A ss \in Seq(ByteSeq) : FlattenSeq(ss) \in Seq(Byte)
    /\ \A ss \in Seq(ByteSeq) : \A s \in ByteSeq :
           FlattenSeq(Append(ss, s)) = FlattenSeq(ss) \o s
    /\ \A ss, tt \in Seq(ByteSeq) :
           FlattenSeq(ss \o tt) = FlattenSeq(ss) \o FlattenSeq(tt)
<1>1. ByteSeq = Seq(Byte)
  BY Zenon DEF ByteSeq
<1>2. \A ss, tt \in Seq(ByteSeq) :
          FlattenSeq(ss \o tt) = FlattenSeq(ss) \o FlattenSeq(tt)
  BY <1>1, FlattenConcat
<1>3. FlattenSeq(<<>>) = <<>>
  BY FlattenAppend
<1>4. \A ss \in Seq(ByteSeq) : FlattenSeq(ss) \in Seq(Byte)
  <2>1. <<>> \in Seq(Byte)
    OBVIOUS
  <2>2. QED
    BY <1>1, <2>1, FlattenAppend, Zenon
<1>5. \A ss \in Seq(ByteSeq) : \A s \in ByteSeq :
          FlattenSeq(Append(ss, s)) = FlattenSeq(ss) \o s
  BY <1>1, FlattenAppend, Zenon
<1>6. QED
  BY <1>2, <1>3, <1>4, <1>5, Zenon

\* A script is written as bytes, the empty one as none.
LEMMA WrittenType ==
    /\ Written(<<>>) = <<>>
    /\ \A cs \in Seq(Good) : Written(cs) \in Seq(Byte) /\ Len(Written(cs)) \in Nat
<1>1. Parts(<<>>) = <<>>
  BY DEF Parts
<1>2. Written(<<>>) = <<>>
  BY <1>1, WrittenIs, FlattenBytes
<1>3. ASSUME NEW cs \in Seq(Good) PROVE Written(cs) \in Seq(Byte)
  BY PartsType, WrittenIs, FlattenBytes
<1>4. \A s \in Seq(Byte) : Len(s) \in Nat
  BY LenProperties
<1>5. QED
  BY <1>2, <1>3, <1>4

\* One chunk more.
LEMMA WrittenAppend ==
    ASSUME NEW cs \in Seq(Good), NEW c \in Good
    PROVE  Written(Append(cs, c)) = Written(cs) \o Bytes(c)
<1> DEFINE t == Append(cs, c)
           p == Parts(cs)
           q == Parts(t)
           b == Bytes(c)
<1>1. /\ t \in Seq(Good) /\ Len(t) = Len(cs) + 1 /\ t[Len(cs) + 1] = c
      /\ \A n \in 1 .. Len(cs) : t[n] = cs[n]
      /\ Len(cs) \in Nat
  BY AppendProperties, LenProperties
<1> HIDE DEF t
<1>2. /\ p \in Seq(ByteSeq) /\ Len(p) = Len(cs)
      /\ \A n \in 1 .. Len(cs) : p[n] = Bytes(cs[n])
  BY PartsType
<1>3. /\ q \in Seq(ByteSeq) /\ Len(q) = Len(cs) + 1
      /\ \A n \in 1 .. Len(cs) + 1 : q[n] = Bytes(t[n])
  BY <1>1, PartsType
<1>4. b \in ByteSeq
  BY BytesType
<1>5. q[Len(cs) + 1] = b /\ \A n \in 1 .. Len(cs) : q[n] = p[n]
  BY <1>1, <1>2, <1>3
<1> HIDE DEF p, q, b
<1>6. /\ Append(p, b) \in Seq(ByteSeq) /\ Len(Append(p, b)) = Len(p) + 1
      /\ Append(p, b)[Len(p) + 1] = b
      /\ \A n \in 1 .. Len(p) : Append(p, b)[n] = p[n]
  BY <1>2, <1>4, AppendProperties
<1>7. \A n \in 1 .. Len(q) : q[n] = Append(p, b)[n]
  BY <1>1, <1>2, <1>3, <1>5, <1>6
<1>8. q = Append(p, b)
  BY <1>2, <1>3, <1>6, <1>7, SeqEqual
<1>9. FlattenSeq(q) = FlattenSeq(p) \o b
  BY <1>2, <1>4, <1>8, FlattenBytes
<1>10. QED
  BY <1>9, WrittenIs DEF p, q, b, t

\* Two scripts after one another are written after one another.
LEMMA WrittenConcat ==
    ASSUME NEW cs \in Seq(Good), NEW ds \in Seq(Good)
    PROVE  Written(cs \o ds) = Written(cs) \o Written(ds)
<1> DEFINE t == cs \o ds
           p == Parts(cs)
           q == Parts(ds)
           r == Parts(t)
<1>1. /\ t \in Seq(Good) /\ Len(t) = Len(cs) + Len(ds)
      /\ \A n \in 1 .. Len(cs) : t[n] = cs[n]
      /\ \A n \in 1 .. Len(ds) : t[Len(cs) + n] = ds[n]
  BY ConcatParts
<1>2. Len(cs) \in Nat /\ Len(ds) \in Nat
  BY LenProperties
<1> HIDE DEF t
<1>3. /\ p \in Seq(ByteSeq) /\ Len(p) = Len(cs)
      /\ \A n \in 1 .. Len(cs) : p[n] = Bytes(cs[n])
  BY PartsType
<1>4. /\ q \in Seq(ByteSeq) /\ Len(q) = Len(ds)
      /\ \A n \in 1 .. Len(ds) : q[n] = Bytes(ds[n])
  BY PartsType
<1>5. /\ r \in Seq(ByteSeq) /\ Len(r) = Len(cs) + Len(ds)
      /\ \A n \in 1 .. Len(cs) + Len(ds) : r[n] = Bytes(t[n])
  BY <1>1, PartsType
<1>6. /\ \A n \in 1 .. Len(cs) : r[n] = p[n]
      /\ \A n \in 1 .. Len(ds) : r[Len(cs) + n] = q[n]
  <2>1. ASSUME NEW n \in 1 .. Len(cs) PROVE r[n] = p[n]
    BY <1>1, <1>2, <1>3, <1>5
  <2>2. ASSUME NEW n \in 1 .. Len(ds) PROVE r[Len(cs) + n] = q[n]
    <3>1. Len(cs) + n \in 1 .. Len(cs) + Len(ds)
      BY <1>2
    <3>2. QED
      BY <1>1, <1>4, <1>5, <3>1
  <2>3. QED
    BY <2>1, <2>2
<1> HIDE DEF p, q, r
<1>7. /\ p \o q \in Seq(ByteSeq) /\ Len(p \o q) = Len(p) + Len(q)
      /\ \A n \in 1 .. Len(p) : (p \o q)[n] = p[n]
      /\ \A n \in 1 .. Len(q) : (p \o q)[Len(p) + n] = q[n]
  <2>1. p \in Seq(ByteSeq) /\ q \in Seq(ByteSeq)
    BY <1>3, <1>4
  <2>2. QED
    BY <2>1, ConcatParts
<1> DEFINE e == p \o q
<1> HIDE DEF e
<1>8. /\ e \in Seq(ByteSeq) /\ Len(e) = Len(cs) + Len(ds)
      /\ \A n \in 1 .. Len(cs) : e[n] = p[n]
      /\ \A n \in 1 .. Len(ds) : e[Len(cs) + n] = q[n]
  BY <1>3, <1>4, <1>7 DEF e
<1>9. ASSUME NEW n \in 1 .. Len(r) PROVE r[n] = e[n]
  <2>1. CASE n <= Len(cs)
    BY <1>2, <1>5, <1>6, <1>8, <2>1
  <2>2. CASE n > Len(cs)
    <3>1. n - Len(cs) \in 1 .. Len(ds) /\ Len(cs) + (n - Len(cs)) = n
      BY <1>2, <1>5, <2>2
    <3>2. QED
      BY <1>6, <1>8, <3>1
  <2>3. QED
    BY <1>2, <2>1, <2>2
<1>10. r = e
  BY <1>5, <1>8, <1>9, SeqEqual
<1>11. FlattenSeq(p \o q) = FlattenSeq(p) \o FlattenSeq(q)
  <2>1. p \in Seq(ByteSeq) /\ q \in Seq(ByteSeq)
    BY <1>3, <1>4
  <2>2. QED
    BY <2>1, FlattenBytes
<1>12. FlattenSeq(r) = FlattenSeq(p) \o FlattenSeq(q)
  BY <1>10, <1>11 DEF e
<1>13. QED
  BY <1>12, WrittenIs DEF p, q, r, t

---------------------------------------------------------------------------
\* Where each chunk ends.

Begin(cs, m) == SubSeq(cs, 1, m)
End(cs, m)   == Len(Written(Begin(cs, m)))

\* The first m chunks of a script, and where they end.
LEMMA BeginType ==
    ASSUME NEW cs \in Seq(Good), NEW m \in Nat, m <= Len(cs)
    PROVE  Begin(cs, m) \in Seq(Good) /\ Len(Begin(cs, m)) = m /\ End(cs, m) \in Nat
<1>1. m \in 0 .. Len(cs)
  BY LenProperties
<1>2. Begin(cs, m) \in Seq(Good)
  BY <1>1, CutAndJoin DEF Begin
<1>3. Len(Begin(cs, m)) = m
  BY <1>1, LenProperties DEF Begin
<1>4. QED
  BY <1>2, <1>3, WrittenType DEF End

\* A chunk more moves the end by the bytes of the chunk.
LEMMA EndsStep ==
    ASSUME NEW cs \in Seq(Good), NEW m \in Nat, m < Len(cs)
    PROVE  /\ cs[m + 1] \in Good
           /\ Written(Begin(cs, m + 1)) = Written(Begin(cs, m)) \o Bytes(cs[m + 1])
           /\ End(cs, m + 1) = End(cs, m) + Len(Bytes(cs[m + 1]))
<1>1. Len(cs) \in Nat /\ m + 1 <= Len(cs) /\ m <= Len(cs)
  BY LenProperties
<1>2. /\ Begin(cs, m) \in Seq(Good) /\ cs[m + 1] \in Good
      /\ Begin(cs, m + 1) = Append(Begin(cs, m), cs[m + 1])
  BY <1>1, PrefixGrows DEF Begin
<1>3. Written(Begin(cs, m + 1)) = Written(Begin(cs, m)) \o Bytes(cs[m + 1])
  BY <1>2, WrittenAppend
<1>4. Written(Begin(cs, m)) \in Seq(Byte) /\ Bytes(cs[m + 1]) \in Seq(Byte)
  BY <1>2, WrittenType, BytesType DEF ByteSeq
<1>5. QED
  BY <1>2, <1>3, <1>4, ConcatParts DEF End

\* The rest of a script goes on where its beginning ends.
LEMMA WrittenSplit ==
    ASSUME NEW cs \in Seq(Good), NEW m \in Nat, m <= Len(cs)
    PROVE  LET r == SubSeq(cs, m + 1, Len(cs))
           IN  r \in Seq(Good) /\ Written(cs) = Written(Begin(cs, m)) \o Written(r)
<1>1. m \in 0 .. Len(cs)
  BY LenProperties
<1> DEFINE a == SubSeq(cs, 1, m)
           r == SubSeq(cs, m + 1, Len(cs))
<1>2. a \in Seq(Good) /\ r \in Seq(Good) /\ a \o r = cs
  BY <1>1, CutAndJoin
<1> HIDE DEF a, r
<1>3. Written(a \o r) = Written(a) \o Written(r)
  BY <1>2, WrittenConcat
<1>4. QED
  BY <1>2, <1>3 DEF a, r, Begin

\* The ends of the chunks go from 0 to the length of the script.
LEMMA EndsGrow ==
    ASSUME NEW cs \in Seq(Good), NEW m \in Nat, m <= Len(cs)
    PROVE  /\ End(cs, m) <= Len(Written(cs)) /\ End(cs, 0) = 0
           /\ End(cs, Len(cs)) = Len(Written(cs))
<1> DEFINE r == SubSeq(cs, m + 1, Len(cs))
<1>1. r \in Seq(Good) /\ Written(cs) = Written(Begin(cs, m)) \o Written(r)
  BY WrittenSplit
<1> HIDE DEF r
<1>2. Written(Begin(cs, m)) \in Seq(Byte) /\ Written(r) \in Seq(Byte)
  BY <1>1, BeginType, WrittenType
<1>3. Len(Written(cs)) = End(cs, m) + Len(Written(r))
  BY <1>1, <1>2, ConcatParts DEF End
<1>4. End(cs, m) <= Len(Written(cs))
  BY <1>1, <1>3, BeginType, WrittenType
<1>5. End(cs, 0) = 0
  <2>1. Begin(cs, 0) = <<>>
    BY DEF Begin
  <2>2. QED
    BY <2>1, WrittenType DEF End
<1>6. End(cs, Len(cs)) = Len(Written(cs))
  BY SubSeqFull DEF End, Begin
<1>7. QED
  BY <1>4, <1>5, <1>6

\* A later chunk does not end before an earlier one.
LEMMA EndsOrder ==
    ASSUME NEW cs \in Seq(Good), NEW m \in Nat, NEW q \in Nat, m <= q, q <= Len(cs)
    PROVE  End(cs, m) <= End(cs, q)
<1> DEFINE b == Begin(cs, q)
<1>1. b \in Seq(Good) /\ Len(b) = q
  BY BeginType
<1>2. Begin(b, m) = Begin(cs, m)
  <2>1. Len(cs) \in Nat
    BY LenProperties
  <2>2. /\ Begin(b, m) \in Seq(Good) /\ Len(Begin(b, m)) = m
        /\ Begin(cs, m) \in Seq(Good) /\ Len(Begin(cs, m)) = m
    <3> HIDE DEF b
    <3>1. QED
      BY <1>1, <2>1, BeginType
  <2>3. \A n \in 1 .. m : Begin(b, m)[n] = Begin(cs, m)[n]
    BY <2>1 DEF Begin
  <2> HIDE DEF b
  <2>4. QED
    BY <2>2, <2>3, SeqEqual
<1> HIDE DEF b
<1>3. End(b, m) <= Len(Written(b))
  BY <1>1, EndsGrow
<1>4. QED
  BY <1>2, <1>3 DEF b, End

\* The bytes of a chunk stand where the chunks before it end.
LEMMA BytesAt ==
    ASSUME NEW cs \in Seq(Good), NEW m \in Nat, m < Len(cs)
    PROVE  \A j \in 1 .. Len(Bytes(cs[m + 1])) :
               Written(cs)[End(cs, m) + j] = Bytes(cs[m + 1])[j]
<1> DEFINE a == Written(Begin(cs, m))
           b == Bytes(cs[m + 1])
           e == Written(Begin(cs, m + 1))
           r == Written(SubSeq(cs, m + 2, Len(cs)))
<1>1. m + 1 \in Nat /\ m + 1 <= Len(cs) /\ m <= Len(cs) /\ (m + 1) + 1 = m + 2
  BY LenProperties
<1>2. a \in Seq(Byte) /\ b \in Seq(Byte) /\ e = a \o b
  BY <1>1, BeginType, WrittenType, EndsStep, BytesType DEF ByteSeq
<1>3. r \in Seq(Byte) /\ Written(cs) = e \o r
  <2> DEFINE t == SubSeq(cs, m + 2, Len(cs))
  <2>1. t \in Seq(Good) /\ Written(cs) = Written(Begin(cs, m + 1)) \o Written(t)
    BY <1>1, WrittenSplit
  <2> HIDE DEF t
  <2>2. Written(t) \in Seq(Byte)
    BY <2>1, WrittenType
  <2>3. QED
    BY <2>1, <2>2 DEF t
<1>4. End(cs, m) = Len(a)
  BY DEF End
<1> HIDE DEF a, b, e, r
<1>5. /\ e \in Seq(Byte) /\ Len(e) = Len(a) + Len(b)
      /\ \A j \in 1 .. Len(b) : e[Len(a) + j] = b[j]
  BY <1>2, ConcatParts
<1>6. \A j \in 1 .. Len(e) : Written(cs)[j] = e[j]
  <2>1. e \in Seq(Byte)
    BY <1>5
  <2>2. QED
    BY <1>3, <2>1, ConcatParts
<1>7. Len(a) \in Nat /\ Len(b) \in Nat
  BY <1>2, LenProperties
<1>8. ASSUME NEW j \in 1 .. Len(b) PROVE Written(cs)[Len(a) + j] = b[j]
  <2>1. Len(a) + j \in 1 .. Len(e)
    BY <1>5, <1>7
  <2>2. QED
    BY <1>5, <1>6, <2>1
<1>9. QED
  BY <1>4, <1>8 DEF b

\* What is left of a script when its last n bytes are gone.
LEMMA TruncatedIs ==
    ASSUME NEW cs \in Seq(Good), NEW n \in Cuts(cs)
    PROVE  LET s == Truncated(cs, n)
           IN  /\ s \in Seq(Byte) /\ n \in Nat /\ Len(s) \in Nat
               /\ Len(s) = End(cs, Len(cs)) - n
               /\ \A p \in 1 .. Len(s) : s[p] = Written(cs)[p]
               /\ Len(cs) = 0 => n = 0
               /\ Len(cs) > 0 => /\ End(cs, Len(cs) - 1) < Len(s)
                                 /\ n < Len(Bytes(cs[Len(cs)]))
<1> DEFINE w == Written(cs)
           q == Len(cs)
<1>1. w \in Seq(Byte) /\ Len(w) \in Nat /\ q \in Nat /\ End(cs, q) = Len(w)
  BY WrittenType, LenProperties, EndsGrow
<1>2. n \in Nat /\ (q = 0 => n = 0)
  <2>1. CASE cs = <<>>
    BY <2>1 DEF Cuts
  <2>2. CASE cs # <<>>
    BY <2>2, Scripts, EmptySeq DEF Cuts
  <2>3. QED
    BY <2>1, <2>2
<1>3. q > 0 => /\ n < Len(Bytes(cs[q])) /\ q - 1 \in Nat
               /\ End(cs, q) = End(cs, q - 1) + Len(Bytes(cs[q]))
               /\ End(cs, q - 1) \in Nat /\ Len(Bytes(cs[q])) \in Nat
  <2> SUFFICES ASSUME q > 0
               PROVE  /\ n < Len(Bytes(cs[q])) /\ q - 1 \in Nat
                      /\ End(cs, q) = End(cs, q - 1) + Len(Bytes(cs[q]))
                      /\ End(cs, q - 1) \in Nat /\ Len(Bytes(cs[q])) \in Nat
    OBVIOUS
  <2>1. cs # <<>>
    BY <1>1
  <2>2. n < Len(Bytes(cs[q]))
    BY <2>1 DEF Cuts
  <2>3. q - 1 \in Nat /\ q - 1 < q /\ (q - 1) + 1 = q /\ q - 1 <= q
    BY <1>1
  <2> HIDE DEF w
  <2>4. cs[q] \in Good /\ End(cs, q) = End(cs, q - 1) + Len(Bytes(cs[q]))
    <3>1. /\ cs[(q - 1) + 1] \in Good
          /\ End(cs, (q - 1) + 1) = End(cs, q - 1) + Len(Bytes(cs[(q - 1) + 1]))
      BY <2>3, EndsStep
    <3>2. QED
      BY <2>3, <3>1
  <2>5. End(cs, q - 1) \in Nat
    BY <2>3, BeginType
  <2>6. QED
    BY <2>2, <2>3, <2>4, <2>5, BytesType
<1>4. n <= Len(w)
  <2>1. CASE q = 0
    BY <1>1, <1>2, <2>1
  <2>2. CASE q > 0
    BY <1>1, <1>2, <1>3, <2>2
  <2>3. QED
    BY <1>1, <2>1, <2>2
<1> HIDE DEF w
<1> DEFINE s == SubSeq(w, 1, Len(w) - n)
<1>5. /\ s \in Seq(Byte) /\ Len(s) = Len(w) - n
      /\ \A p \in 1 .. Len(s) : s[p] = w[p]
  <2>1. Len(w) - n \in 0 .. Len(w)
    BY <1>1, <1>2, <1>4
  <2>2. QED
    BY <1>1, <2>1
<1> HIDE DEF s
<1>6. Truncated(cs, n) = s
  BY DEF Truncated, s, w
<1>7. q > 0 => End(cs, q - 1) < Len(s)
  BY <1>1, <1>2, <1>3, <1>5
<1>8. Len(s) \in Nat /\ Len(s) = End(cs, q) - n
  BY <1>1, <1>2, <1>4, <1>5
<1>9. q > 0 => n < Len(Bytes(cs[q]))
  BY <1>3
<1>10. QED
  BY <1>2, <1>5, <1>6, <1>7, <1>8, <1>9 DEF w

---------------------------------------------------------------------------
\* What the parser sees at the start of a chunk.

\* From position e + 1 on, the bytes of s are those of b, as far as s goes.
Agree(s, e, b) == \A j \in 1 .. Len(b) : e + j <= Len(s) => s[e + j] = b[j]

\* Where a push stands, its first byte gives the length of its head, and its
\* whole head the length of its data.
LEMMA ReadHead ==
    ASSUME NEW s \in Seq(Byte), NEW e \in Nat, e + 1 <= Len(s),
           NEW d \in Seq(Byte), NEW b, ReadsAs(b, d), Agree(s, e, b)
    PROVE  /\ s[e + 1] = b[1] /\ HeadLen(b[1]) \in 1 .. 5 /\ Len(s) \in Nat
           /\ Len(b) = HeadLen(b[1]) + Len(d) /\ Len(d) \in Nat
           /\ e + HeadLen(b[1]) <= Len(s) => DataLen(s, e + 1) = Len(d)
<1> DEFINE h == HeadLen(b[1])
<1>1. /\ h \in 1 .. 5 /\ DataLen(b, 1) = Len(d) /\ Len(b) = h + Len(d)
  BY DEF ReadsAs, DataAfter
<1>2. Len(d) \in Nat /\ Len(s) \in Nat
  BY LenProperties
<1>3. \A j \in 1 .. h : e + j <= Len(s) => s[e + j] = b[j]
  BY <1>1, <1>2 DEF Agree
<1>4. s[e + 1] = b[1]
  BY <1>1, <1>3
<1>5. ASSUME e + h <= Len(s) PROVE DataLen(s, e + 1) = DataLen(b, 1)
  <2>1. \A j \in 1 .. h : s[e + j] = b[j]
    <3>1. \A j \in 1 .. h : e + j <= Len(s)
      <4> HIDE DEF h
      <4> QED
        BY <1>1, <1>2, <1>5
    <3>2. QED
      BY <1>3, <3>1
  <2>2. CASE b[1] = 76
    <3>1. h = 2
      BY <2>2 DEF HeadLen
    <3>2. s[(e + 1) + 1] = b[1 + 1]
      BY <2>1, <3>1
    <3>3. QED
      BY <1>4, <2>2, <3>2 DEF DataLen
  <2>3. CASE b[1] = 77
    <3>1. h = 3
      BY <2>3 DEF HeadLen
    <3>2. s[(e + 1) + 1] = b[1 + 1] /\ s[(e + 1) + 2] = b[1 + 2]
      BY <2>1, <3>1
    <3>3. QED
      BY <1>4, <2>3, <3>2 DEF DataLen
  <2>4. CASE b[1] = 78
    <3>1. h = 5
      BY <2>4 DEF HeadLen
    <3>2. /\ s[(e + 1) + 1] = b[1 + 1] /\ s[(e + 1) + 2] = b[1 + 2]
          /\ s[(e + 1) + 3] = b[1 + 3] /\ s[(e + 1) + 4] = b[1 + 4]
      BY <2>1, <3>1
    <3>3. QED
      BY <1>4, <2>4, <3>2 DEF DataLen
  <2>5. CASE b[1] # 76 /\ b[1] # 77 /\ b[1] # 78
    BY <1>4, <2>5 DEF DataLen
  <2>6. QED
    BY <2>2, <2>3, <2>4, <2>5
<1>6. QED
  BY <1>1, <1>2, <1>4, <1>5

\* A part of a sequence, element by element.
LEMMA CutOut ==
    ASSUME NEW S, NEW s \in Seq(S), NEW o \in Nat, NEW n \in Nat, o + n <= Len(s)
    PROVE  LET r == SubSeq(s, o + 1, o + n)
           IN  /\ r \in Seq(S) /\ Len(r) = n
               /\ \A j \in 1 .. n : r[j] = s[o + j]
<1>1. Len(s) \in Nat /\ 1 <= o + 1 /\ \A j \in 1 .. Len(s) : s[j] \in S
  BY LenProperties, ElementOfSeq
<1>2. QED
  BY <1>1

\* A push is read as its data, and it fits exactly when all its bytes are there.
LEMMA ReadPush ==
    ASSUME NEW s \in Seq(Byte), NEW e \in Nat, e + 1 <= Len(s),
           NEW d \in Seq(Byte), NEW b, ReadsAs(b, d), Agree(s, e, b)
    PROVE  /\ IsPush(s[e + 1])
           /\ PushFits(s, e + 1) <=> e + Len(b) <= Len(s)
           /\ PushFits(s, e + 1) =>
                  LET first == e + 1 + HeadLen(s[e + 1])
                      next  == first + DataLen(s, e + 1)
                  IN  next = 1 + (e + Len(b)) /\ SubSeq(s, first, next - 1) = d
<1> DEFINE h == HeadLen(s[e + 1])
           n == DataLen(s, e + 1)
<1>0. s[e + 1] = b[1] /\ h = HeadLen(b[1])
  BY ReadHead
<1>1. /\ h \in 1 .. 5 /\ Len(s) \in Nat
      /\ Len(b) = h + Len(d) /\ Len(d) \in Nat
      /\ e + h <= Len(s) => n = Len(d)
  BY <1>0, ReadHead
<1>2. IsPush(s[e + 1])
  BY <1>0 DEF ReadsAs
<1> HIDE DEF h, n
<1>3. PushFits(s, e + 1) <=> e + 1 + h - 1 <= Len(s) /\ e + 1 + h + n - 1 <= Len(s)
  BY <1>1 DEF PushFits, h, n
<1>4. PushFits(s, e + 1) <=> e + Len(b) <= Len(s)
  <2>1. CASE e + h <= Len(s)
    BY <1>1, <1>3, <2>1
  <2>2. CASE ~(e + h <= Len(s))
    BY <1>1, <1>3, <2>2
  <2>3. QED
    BY <2>1, <2>2
<1>5. ASSUME PushFits(s, e + 1)
      PROVE  /\ e + 1 + h + n = 1 + (e + Len(b))
             /\ SubSeq(s, e + 1 + h, (e + 1 + h + n) - 1) = d
  <2>1. e + Len(b) <= Len(s) /\ n = Len(d)
    BY <1>1, <1>4, <1>5
  <2>2. e + 1 + h + n = 1 + (e + Len(b)) /\ (e + 1 + h + n) - 1 = (e + h) + Len(d)
    BY <1>1, <2>1
  <2>3. \A j \in 1 .. Len(d) : s[(e + h) + j] = d[j]
    <3> SUFFICES ASSUME NEW j \in 1 .. Len(d) PROVE s[(e + h) + j] = d[j]
      OBVIOUS
    <3>1. h + j \in 1 .. Len(b) /\ e + (h + j) <= Len(s) /\ e + (h + j) = (e + h) + j
      BY <1>1, <2>1
    <3>2. s[e + (h + j)] = b[h + j]
      BY <3>1 DEF Agree
    <3>3. b[h + j] = d[j]
      BY <1>0 DEF ReadsAs, DataAfter
    <3>4. QED
      BY <3>1, <3>2, <3>3
  <2> DEFINE r == SubSeq(s, (e + h) + 1, (e + h) + Len(d))
  <2>4. /\ r \in Seq(Byte) /\ Len(r) = Len(d)
        /\ \A j \in 1 .. Len(d) : r[j] = s[(e + h) + j]
    <3>1. (e + h) \in Nat /\ (e + h) + Len(d) <= Len(s)
      BY <1>1, <2>1
    <3>2. Len(d) \in Nat
      BY <1>1
    <3>3. QED
      BY <3>1, <3>2, CutOut
  <2> HIDE DEF r
  <2>5. r = d
    BY <2>3, <2>4, SeqEqual
  <2>6. e + 1 + h = (e + h) + 1
    BY <1>1
  <2>7. QED
    BY <2>2, <2>5, <2>6 DEF r
<1>6. QED
  BY <1>2, <1>4, <1>5, Zenon DEF h, n

\* Where the chunk m + 1 is in a script that has lost n bytes.
LEMMA ChunkPlace ==
    ASSUME NEW cs \in Seq(Good), NEW n \in Cuts(cs), NEW m \in Nat, m < Len(cs),
           NEW s, s = Truncated(cs, n)
    PROVE  /\ End(cs, m) \in Nat /\ End(cs, m) + 1 <= Len(s)
           /\ s \in Seq(Byte) /\ Len(s) \in Nat
           /\ cs[m + 1] \in Good /\ Agree(s, End(cs, m), Bytes(cs[m + 1]))
           /\ End(cs, m + 1) = End(cs, m) + Len(Bytes(cs[m + 1]))
           /\ End(cs, m + 1) \in Nat
           /\ (m + 1 < Len(cs) \/ n = 0) => End(cs, m + 1) <= Len(s)
           /\ (m + 1 = Len(cs) /\ n # 0) => Len(s) < End(cs, m + 1)
<1> DEFINE q == Len(cs)
           b == Bytes(cs[m + 1])
           e == End(cs, m)
<1>1. /\ s \in Seq(Byte) /\ n \in Nat /\ Len(s) \in Nat
      /\ Len(s) = End(cs, q) - n
      /\ \A p \in 1 .. Len(s) : s[p] = Written(cs)[p]
      /\ q > 0 => End(cs, q - 1) < Len(s)
  BY TruncatedIs
<1>2. q \in Nat /\ m + 1 \in Nat /\ m + 1 <= q /\ m <= q - 1 /\ q > 0 /\ q - 1 \in Nat /\ q - 1 <= q
  BY LenProperties
<1>3. e \in Nat /\ End(cs, m + 1) \in Nat /\ End(cs, q) \in Nat /\ End(cs, q - 1) \in Nat
  <2>1. \A p \in Nat : p <= Len(cs) => End(cs, p) \in Nat
    BY BeginType
  <2>2. q <= Len(cs)
    BY <1>2
  <2> HIDE DEF q
  <2>3. QED
    BY <1>2, <2>1, <2>2 DEF q
<1>4. cs[m + 1] \in Good /\ End(cs, m + 1) = e + Len(b)
  BY EndsStep
<1>5. b \in ByteSeq /\ Len(b) \in Nat /\ Len(b) > 0
  BY <1>4, BytesType
<1>6. e <= End(cs, q - 1)
  BY <1>2, EndsOrder
<1>7. \A j \in 1 .. Len(b) : Written(cs)[e + j] = b[j]
  BY BytesAt
<1> HIDE DEF b, e
<1>8. Agree(s, e, b)
  <2> SUFFICES ASSUME NEW j \in 1 .. Len(b), e + j <= Len(s) PROVE s[e + j] = b[j]
    BY DEF Agree
  <2>1. e + j \in 1 .. Len(s)
    BY <1>1, <1>3, <1>5
  <2>2. QED
    BY <1>1, <1>7, <2>1
<1>9. e + 1 <= Len(s)
  BY <1>1, <1>2, <1>3, <1>6
<1>10. ASSUME m + 1 < q \/ n = 0 PROVE End(cs, m + 1) <= Len(s)
  <2>1. CASE m + 1 < q
    <3>1. m + 1 <= q - 1
      BY <1>2, <2>1
    <3>2. End(cs, m + 1) <= End(cs, q - 1)
      BY <1>2, <3>1, EndsOrder
    <3>3. QED
      BY <1>1, <1>2, <1>3, <3>2
  <2>2. CASE n = 0
    <3>1. End(cs, m + 1) <= End(cs, q)
      BY <1>2, EndsOrder
    <3>2. QED
      BY <1>1, <1>3, <2>2, <3>1
  <2>3. QED
    BY <1>10, <2>1, <2>2
<1>11. ASSUME m + 1 = q, n # 0 PROVE Len(s) < End(cs, m + 1)
  BY <1>1, <1>3, <1>11
<1>12. QED
  BY <1>1, <1>3, <1>4, <1>8, <1>9, <1>10, <1>11 DEF b, e

\* At position p the parser reads the instruction x, and goes on at q.
ReadAt(s, p, x, q) ==
    /\ p <= Len(s) /\ q \in 1 .. Len(s) + 1
    /\ ~IsPush(s[p]) => p + 1 = q /\ [op |-> s[p]] = x
    /\ IsPush(s[p]) =>
           LET first == p + HeadLen(s[p])
               next  == first + DataLen(s, p)
           IN  PushFits(s, p) /\ next = q /\ [push |-> SubSeq(s, first, next - 1)] = x

\* A chunk that is whole is read as its instruction.
LEMMA WholeChunk ==
    ASSUME NEW cs \in Seq(Good), NEW n \in Cuts(cs), NEW m \in Nat, m < Len(cs),
           m + 1 < Len(cs) \/ n = 0,
           NEW s, s = Truncated(cs, n), NEW p, p = 1 + End(cs, m)
    PROVE  ReadAt(s, p, AsInstruction(cs[m + 1]), 1 + End(cs, m + 1))
<1> DEFINE c == cs[m + 1]
           b == Bytes(c)
           e == End(cs, m)
           f == End(cs, m + 1)
<1>1. /\ e \in Nat /\ e + 1 <= Len(s) /\ f \in Nat /\ Len(s) \in Nat
      /\ s \in Seq(Byte) /\ c \in Good /\ Agree(s, e, b)
      /\ f = e + Len(b) /\ f <= Len(s)
  BY ChunkPlace
<1>2. p = e + 1
  BY <1>1
<1> HIDE DEF c, b, e, f
<1>3. p <= Len(s) /\ 1 + f \in 1 .. Len(s) + 1
  BY <1>1, <1>2
<1>4. CASE "op" \in DOMAIN c
  <2>1. b = <<c.op>> /\ ~IsPush(c.op) /\ AsInstruction(c) = [op |-> c.op]
    BY <1>1, <1>4, OpBytes DEF b
  <2>2. Len(b) = 1 /\ b[1] = c.op
    BY <2>1
  <2>3. s[p] = c.op
    BY <1>1, <1>2, <2>2 DEF Agree
  <2>4. p + 1 = 1 + f
    BY <1>1, <1>2, <2>2
  <2>5. QED
    BY <1>3, <2>1, <2>3, <2>4 DEF c, f, ReadAt
<1>5. CASE "op" \notin DOMAIN c
  <2>1. ReadsAs(b, c.push) /\ c.push \in Seq(Byte) /\ AsInstruction(c) = [push |-> c.push]
    BY <1>1, <1>5, PushBytes DEF b, ByteSeq
  <2>2. /\ IsPush(s[e + 1])
        /\ PushFits(s, e + 1)
        /\ LET first == e + 1 + HeadLen(s[e + 1])
               next  == first + DataLen(s, e + 1)
           IN  next = 1 + (e + Len(b)) /\ SubSeq(s, first, next - 1) = c.push
    BY <1>1, <2>1, ReadPush
  <2>3. IsPush(s[p]) /\ PushFits(s, p)
    BY <1>2, <2>2
  <2> DEFINE first == p + HeadLen(s[p])
             next  == first + DataLen(s, p)
  <2>4. next = 1 + f /\ SubSeq(s, first, next - 1) = c.push
    BY <1>1, <1>2, <2>2
  <2> HIDE DEF first, next
  <2>5. [push |-> SubSeq(s, first, next - 1)] = AsInstruction(c)
    BY <2>1, <2>4
  <2>6. QED
    BY <1>3, <2>3, <2>4, <2>5 DEF c, f, first, next, ReadAt
<1>6. QED
  BY <1>4, <1>5

\* A chunk that has lost bytes is a push, and does not fit.
LEMMA CutChunk ==
    ASSUME NEW cs \in Seq(Good), NEW n \in Cuts(cs), NEW m \in Nat, m + 1 = Len(cs), n # 0,
           NEW s, s = Truncated(cs, n), NEW p, p = 1 + End(cs, m)
    PROVE  p <= Len(s) /\ IsPush(s[p]) /\ ~PushFits(s, p)
<1> DEFINE c == cs[m + 1]
           b == Bytes(c)
           e == End(cs, m)
<1>0. m < Len(cs)
  OBVIOUS
<1>1. /\ e \in Nat /\ e + 1 <= Len(s) /\ Len(s) \in Nat
      /\ s \in Seq(Byte) /\ c \in Good /\ Agree(s, e, b)
      /\ Len(s) < e + Len(b)
  BY <1>0, ChunkPlace
<1>2. p = e + 1
  BY <1>1
<1> HIDE DEF c, b, e
<1>3. "op" \notin DOMAIN c
  <2> SUFFICES ASSUME "op" \in DOMAIN c PROVE FALSE
    OBVIOUS
  <2>1. b = <<c.op>>
    BY <1>1, OpBytes DEF b
  <2>2. Len(b) = 1
    BY <2>1
  <2>3. QED
    BY <1>1, <2>2
<1>4. ReadsAs(b, c.push) /\ c.push \in Seq(Byte)
  BY <1>1, <1>3, PushBytes DEF b, ByteSeq
<1>5. IsPush(s[e + 1]) /\ (PushFits(s, e + 1) <=> e + Len(b) <= Len(s))
  BY <1>1, <1>4, ReadPush
<1>6. Len(b) \in Nat
  BY <1>1, BytesType DEF b
<1>7. ~(e + Len(b) <= Len(s))
  BY <1>1, <1>6
<1>8. QED
  BY <1>1, <1>2, <1>5, <1>7

---------------------------------------------------------------------------
\* The parser, as a relation between what was written and what it has read.

Instruction == [op : Byte] \cup [push : ByteSeq]

\* The instructions of the first m chunks.
Whole(cs, m) == [j \in 1 .. m |-> AsInstruction(cs[j])]

\* At position p the parser has read exactly the chunks before p, and there
\* is a chunk to come unless no byte is missing.
ReadSoFar(cs, n, p, ins) ==
    /\ Len(ins) <= Len(cs) /\ ins = Whole(cs, Len(ins))
    /\ p = 1 + End(cs, Len(ins))
    /\ Len(ins) = Len(cs) => n = 0

AllRead(cs, n, ins) ==
    LET all == [j \in DOMAIN cs |-> AsInstruction(cs[j])]
    IN  ins = IF n = 0 THEN all ELSE Append(Front(all), [op |-> Invalid])

\* A chunk is read as an instruction.
LEMMA InstructionType ==
    ASSUME NEW c \in Good
    PROVE  AsInstruction(c) \in Instruction
<1>1. CASE "op" \in DOMAIN c
  BY <1>1, OpBytes DEF Instruction
<1>2. CASE "op" \notin DOMAIN c
  BY <1>2, PushBytes DEF Instruction
<1>3. QED
  BY <1>1, <1>2

\* The instructions of the first m chunks, one by one.
LEMMA WholeType ==
    ASSUME NEW cs \in Seq(Good), NEW m \in Nat, m <= Len(cs)
    PROVE  /\ Whole(cs, m) \in Seq(Instruction) /\ Len(Whole(cs, m)) = m
           /\ \A j \in 1 .. m : Whole(cs, m)[j] = AsInstruction(cs[j])
<1>1. \A j \in 1 .. m : AsInstruction(cs[j]) \in Instruction
  BY LenProperties, ElementOfSeq, InstructionType
<1>2. QED
  BY <1>1 DEF Whole

\* A chunk more is an instruction more.
LEMMA WholeStep ==
    ASSUME NEW cs \in Seq(Good), NEW m \in Nat, m < Len(cs)
    PROVE  Append(Whole(cs, m), AsInstruction(cs[m + 1])) = Whole(cs, m + 1)
<1> DEFINE a == Whole(cs, m)
           x == AsInstruction(cs[m + 1])
           r == Append(a, x)
           w == Whole(cs, m + 1)
<1>1. /\ a \in Seq(Instruction) /\ Len(a) = m
      /\ \A j \in 1 .. m : a[j] = AsInstruction(cs[j])
  <2>1. m <= Len(cs)
    BY LenProperties
  <2>2. QED
    BY <2>1, WholeType
<1>2. /\ w \in Seq(Instruction) /\ Len(w) = m + 1
      /\ \A j \in 1 .. m + 1 : w[j] = AsInstruction(cs[j])
  <2>1. m + 1 \in Nat /\ m + 1 <= Len(cs)
    BY LenProperties
  <2> HIDE DEF w
  <2>2. QED
    BY <2>1, WholeType DEF w
<1>3. x \in Instruction
  <2>1. cs[m + 1] \in Good
    BY EndsStep
  <2>2. QED
    BY <2>1, InstructionType
<1> HIDE DEF a, w
<1>4. /\ r \in Seq(Instruction) /\ Len(r) = m + 1 /\ r[m + 1] = x
      /\ \A j \in 1 .. m : r[j] = a[j]
  <2> HIDE DEF x
  <2>1. QED
    BY <1>1, <1>3, AppendProperties
<1>5. ASSUME NEW j \in 1 .. m + 1 PROVE r[j] = w[j]
  <2> HIDE DEF r
  <2>1. CASE j = m + 1
    BY <1>2, <1>4, <2>1
  <2>2. CASE j # m + 1
    <3>1. j \in 1 .. m
      BY <2>2
    <3>2. QED
      BY <1>1, <1>2, <1>4, <3>1
  <2>3. QED
    BY <2>1, <2>2
<1> HIDE DEF r
<1>6. r = w
  BY <1>2, <1>4, <1>5, SeqEqual
<1>7. QED
  BY <1>6 DEF r, w, a

\* The parser begins with nothing read.
LEMMA ReadBegins ==
    ASSUME NEW cs \in Seq(Good), NEW n \in Cuts(cs)
    PROVE  /\ ReadSoFar(cs, n, 1, <<>>) /\ <<>> \in Seq(Instruction)
           /\ 1 \in 1 .. Len(Truncated(cs, n)) + 1
<1>1. /\ Len(cs) \in Nat /\ Len(Truncated(cs, n)) \in Nat
      /\ Len(cs) = 0 => n = 0
  BY LenProperties, TruncatedIs
<1>2. End(cs, 0) = 0 /\ Len(<<>>) = 0 /\ Whole(cs, 0) = <<>>
  BY <1>1, EndsGrow DEF Whole
<1>3. QED
  BY <1>1, <1>2 DEF ReadSoFar

\* The parser stands at a chunk: a whole one, or the one that is cut.
LEMMA ReadMore ==
    ASSUME NEW cs \in Seq(Good), NEW n \in Cuts(cs), NEW s, s = Truncated(cs, n),
           NEW ins \in Seq(Instruction), NEW p, ReadSoFar(cs, n, p, ins), p <= Len(s)
    PROVE  LET m == Len(ins) IN
           /\ m \in Nat /\ m < Len(cs) /\ p = 1 + End(cs, m)
           /\ m + 1 < Len(cs) \/ n = 0 \/ (m + 1 = Len(cs) /\ n # 0)
<1> DEFINE m == Len(ins)
<1>1. m \in Nat /\ Len(cs) \in Nat /\ m <= Len(cs) /\ p = 1 + End(cs, m)
  BY LenProperties DEF ReadSoFar
<1>2. m # Len(cs)
  <2> SUFFICES ASSUME m = Len(cs) PROVE FALSE
    OBVIOUS
  <2>1. n = 0
    BY DEF ReadSoFar
  <2>2. Len(s) = End(cs, Len(cs)) - n /\ Len(s) \in Nat
    BY TruncatedIs
  <2>3. p = 1 + End(cs, Len(cs)) /\ End(cs, Len(cs)) \in Nat
    BY <1>1, BeginType
  <2>4. QED
    BY <2>1, <2>2, <2>3
<1> HIDE DEF m
<1>3. m < Len(cs) /\ (m + 1 < Len(cs) \/ m + 1 = Len(cs))
  BY <1>1, <1>2
<1>4. QED
  BY <1>1, <1>3 DEF m

\* One more chunk.
LEMMA ReadStep ==
    ASSUME NEW cs \in Seq(Good), NEW n \in Cuts(cs),
           NEW ins \in Seq(Instruction), NEW p, ReadSoFar(cs, n, p, ins),
           Len(ins) < Len(cs), Len(ins) + 1 < Len(cs) \/ n = 0,
           NEW x, x = AsInstruction(cs[Len(ins) + 1]),
           NEW q, q = 1 + End(cs, Len(ins) + 1)
    PROVE  Append(ins, x) \in Seq(Instruction) /\ ReadSoFar(cs, n, q, Append(ins, x))
<1> DEFINE m == Len(ins)
           r == Append(ins, x)
<1>1. m \in Nat /\ Len(cs) \in Nat /\ m <= Len(cs) /\ ins = Whole(cs, m)
  BY LenProperties DEF ReadSoFar
<1>2. x \in Instruction
  BY <1>1, EndsStep, InstructionType
<1>3. r \in Seq(Instruction) /\ Len(r) = m + 1
  BY <1>2, AppendProperties
<1>4. r = Whole(cs, m + 1)
  BY <1>1, WholeStep
<1> HIDE DEF r
<1>5. m + 1 <= Len(cs) /\ (m + 1 = Len(cs) => n = 0)
  BY <1>1
<1>6. ReadSoFar(cs, n, q, r)
  BY <1>3, <1>4, <1>5 DEF ReadSoFar
<1>7. QED
  BY <1>3, <1>6 DEF r

\* The parser at an opcode reads the next chunk.
LEMMA ReadOp ==
    ASSUME NEW cs \in Seq(Good), NEW n \in Cuts(cs), NEW s, s = Truncated(cs, n),
           NEW ins \in Seq(Instruction), NEW p, ReadSoFar(cs, n, p, ins),
           p <= Len(s), ~IsPush(s[p])
    PROVE  LET r == Append(ins, [op |-> s[p]]) IN
           /\ r \in Seq(Instruction) /\ ReadSoFar(cs, n, p + 1, r)
           /\ p + 1 \in 1 .. Len(s) + 1
<1> DEFINE m == Len(ins)
<1>1. /\ m \in Nat /\ m < Len(cs) /\ p = 1 + End(cs, m)
      /\ m + 1 < Len(cs) \/ n = 0 \/ (m + 1 = Len(cs) /\ n # 0)
  BY ReadMore
<1> HIDE DEF m
<1>2. m + 1 < Len(cs) \/ n = 0
  BY <1>1, CutChunk
<1>3. /\ 1 + End(cs, m + 1) \in 1 .. Len(s) + 1
      /\ p + 1 = 1 + End(cs, m + 1)
      /\ [op |-> s[p]] = AsInstruction(cs[m + 1])
  <2>1. m \in Nat /\ m < Len(cs) /\ p = 1 + End(cs, m)
    BY <1>1
  <2>2. ReadAt(s, p, AsInstruction(cs[m + 1]), 1 + End(cs, m + 1))
    BY <1>2, <2>1, WholeChunk
  <2>3. QED
    BY <2>2 DEF ReadAt
<1>4. QED
  BY <1>1, <1>2, <1>3, ReadStep DEF m

\* The parser at a push whose bytes are all there reads the next chunk.
LEMMA ReadData ==
    ASSUME NEW cs \in Seq(Good), NEW n \in Cuts(cs), NEW s, s = Truncated(cs, n),
           NEW ins \in Seq(Instruction), NEW p, ReadSoFar(cs, n, p, ins),
           p <= Len(s), IsPush(s[p]), PushFits(s, p),
           NEW first, first = p + HeadLen(s[p]), NEW next, next = first + DataLen(s, p)
    PROVE  LET r == Append(ins, [push |-> SubSeq(s, first, next - 1)]) IN
           /\ r \in Seq(Instruction) /\ ReadSoFar(cs, n, next, r)
           /\ next \in 1 .. Len(s) + 1
<1> DEFINE m == Len(ins)
<1>1. /\ m \in Nat /\ m < Len(cs) /\ p = 1 + End(cs, m)
      /\ m + 1 < Len(cs) \/ n = 0 \/ (m + 1 = Len(cs) /\ n # 0)
  BY ReadMore
<1> HIDE DEF m
<1>2. m + 1 < Len(cs) \/ n = 0
  BY <1>1, CutChunk
<1>3. /\ 1 + End(cs, m + 1) \in 1 .. Len(s) + 1
      /\ next = 1 + End(cs, m + 1)
      /\ [push |-> SubSeq(s, first, next - 1)] = AsInstruction(cs[m + 1])
  <2>1. m \in Nat /\ m < Len(cs) /\ p = 1 + End(cs, m)
    BY <1>1
  <2>2. ReadAt(s, p, AsInstruction(cs[m + 1]), 1 + End(cs, m + 1))
    BY <1>2, <2>1, WholeChunk
  <2>3. QED
    BY <2>2 DEF ReadAt
<1>4. QED
  BY <1>1, <1>2, <1>3, ReadStep DEF m

\* The parser at a push that lacks bytes ends with the invalid opcode, and has
\* read all chunks but the last.
LEMMA ReadCut ==
    ASSUME NEW cs \in Seq(Good), NEW n \in Cuts(cs), NEW s, s = Truncated(cs, n),
           NEW ins \in Seq(Instruction), NEW p, ReadSoFar(cs, n, p, ins),
           p <= Len(s), IsPush(s[p]), ~PushFits(s, p)
    PROVE  AllRead(cs, n, Append(ins, [op |-> Invalid]))
<1> DEFINE m == Len(ins)
           all == Whole(cs, Len(cs))
<1>1. /\ m \in Nat /\ m < Len(cs) /\ p = 1 + End(cs, m)
      /\ m + 1 < Len(cs) \/ n = 0 \/ (m + 1 = Len(cs) /\ n # 0)
  BY ReadMore
<1> HIDE DEF m
<1>2. ~(m + 1 < Len(cs) \/ n = 0)
  <2> SUFFICES ASSUME m + 1 < Len(cs) \/ n = 0 PROVE FALSE
    OBVIOUS
  <2>1. ReadAt(s, p, AsInstruction(cs[m + 1]), 1 + End(cs, m + 1))
    BY <1>1, WholeChunk
  <2>2. QED
    BY <2>1 DEF ReadAt
<1>3. m + 1 = Len(cs) /\ n # 0
  BY <1>1, <1>2
<1>4. ins = Whole(cs, m)
  BY DEF ReadSoFar, m
<1>5. all \in Seq(Instruction) /\ Len(all) = m + 1
  <2>1. Len(cs) \in Nat /\ Len(cs) <= Len(cs)
    BY LenProperties
  <2>2. QED
    BY <1>3, <2>1, WholeType
<1>6. Front(all) = ins
  <2>1. Front(all) = SubSeq(all, 1, m)
    BY <1>1, <1>5 DEF Front
  <2>2. \A j \in 1 .. m : all[j] = Whole(cs, m)[j]
    BY <1>1, <1>3 DEF Whole
  <2>3. /\ Whole(cs, m) \in Seq(Instruction) /\ Len(Whole(cs, m)) = m
    BY <1>1, WholeType
  <2> DEFINE f == SubSeq(all, 1, m)
  <2> HIDE DEF all
  <2>4. f \in Seq(Instruction) /\ Len(f) = m /\ \A j \in 1 .. m : f[j] = all[j]
    BY <1>1, <1>5
  <2> HIDE DEF f
  <2>5. f = Whole(cs, m)
    BY <2>2, <2>3, <2>4, SeqEqual
  <2>6. QED
    BY <1>4, <2>1, <2>5 DEF f
<1>7. all = [j \in DOMAIN cs |-> AsInstruction(cs[j])]
  BY LenProperties DEF Whole
<1> HIDE DEF all
<1>8. QED
  BY <1>3, <1>6, <1>7 DEF AllRead

\* The parser behind the last byte has read all there is.
LEMMA ReadEnds ==
    ASSUME NEW cs \in Seq(Good), NEW n \in Cuts(cs), NEW s, s = Truncated(cs, n),
           NEW ins \in Seq(Instruction), NEW p, ReadSoFar(cs, n, p, ins), p > Len(s)
    PROVE  AllRead(cs, n, ins)
<1> DEFINE m == Len(ins)
<1>1. m \in Nat /\ Len(cs) \in Nat /\ m <= Len(cs) /\ p = 1 + End(cs, m)
  BY LenProperties DEF ReadSoFar
<1>2. m = Len(cs)
  <2> SUFFICES ASSUME m < Len(cs) PROVE FALSE
    BY <1>1
  <2> HIDE DEF m
  <2>1. End(cs, m) \in Nat /\ End(cs, m) + 1 <= Len(s) /\ Len(s) \in Nat
    BY <1>1, ChunkPlace
  <2>2. QED
    BY <1>1, <2>1
<1>3. n = 0 /\ ins = Whole(cs, Len(cs))
  BY <1>2 DEF ReadSoFar
<1>4. Whole(cs, Len(cs)) = [j \in DOMAIN cs |-> AsInstruction(cs[j])]
  BY LenProperties DEF Whole
<1>5. QED
  BY <1>3, <1>4 DEF AllRead

\* A script that has lost bytes holds an invalid opcode.
LEMMA CutIsInvalid ==
    ASSUME NEW cs, NEW n, n # 0, NEW ins \in Seq(Instruction), AllRead(cs, n, ins),
           Len(cs) # 0, cs \in Seq(Good)
    PROVE  \E j \in 1 .. Len(ins) : ins[j] = [op |-> Invalid]
<1> DEFINE all == Whole(cs, Len(cs))
           f == Front(all)
<1>1. all = [j \in DOMAIN cs |-> AsInstruction(cs[j])]
  BY LenProperties DEF Whole
<1>2. Len(cs) \in Nat /\ all \in Seq(Instruction) /\ Len(all) = Len(cs)
  <2>1. Len(cs) \in Nat /\ Len(cs) <= Len(cs)
    BY LenProperties
  <2>2. QED
    BY <2>1, WholeType
<1> HIDE DEF all
<1>3. f \in Seq(Instruction)
  BY <1>2 DEF Front
<1>4. ins = Append(f, [op |-> Invalid])
  BY <1>1 DEF AllRead
<1> HIDE DEF f
<1>5. Len(f) \in Nat /\ Len(ins) = Len(f) + 1 /\ ins[Len(f) + 1] = [op |-> Invalid]
  BY <1>3, <1>4, LenProperties, AppendProperties
<1>6. QED
  BY <1>5

---------------------------------------------------------------------------
\* The invariant of parsing and executing.

\* The script at work holds the chunks the environment chose.
AtWork ==
    /\ chunks \in Unlocks \X Locks
    /\ cut \in Cuts(chunks[1]) \X Cuts(chunks[2])
    /\ turn \in {1, 2} /\ pc \in {"parse", "execute", "ok", "err"}
    /\ script = Truncated(chunks[turn], cut[turn])

\* What the parser has read, and when it is done what it has made.
Reading ==
    /\ instructions \in Seq(Instruction)
    /\ i \in 1 .. Len(script) + 1
    /\ pc = "parse" => k = 1 /\ ReadSoFar(chunks[turn], cut[turn], i, instructions)
    /\ pc # "parse" => AllRead(chunks[turn], cut[turn], instructions)

\* No invalid opcode has been executed, and none is in a script that is done.
NoInvalid ==
    /\ k \in 1 .. Len(instructions) + 1
    /\ pc \in {"execute", "ok"} => \A j \in 1 .. k - 1 : instructions[j] # [op |-> Invalid]
    /\ turn = 2 => cut[1] = 0
    /\ pc = "ok" => turn = 2 /\ k = Len(instructions) + 1

ScriptInv == AtWork /\ Reading /\ NoInvalid

\* The two scripts, and what each has lost.
LEMMA Chosen ==
    ASSUME AtWork
    PROVE  /\ chunks[1] \in Seq(Good) /\ cut[1] \in Cuts(chunks[1])
           /\ chunks[2] \in Seq(Good) /\ cut[2] \in Cuts(chunks[2])
           /\ chunks[turn] \in Seq(Good) /\ cut[turn] \in Cuts(chunks[turn])
           /\ cut = <<cut[1], cut[2]>>
<1>1. chunks \in Unlocks \X Locks /\ cut \in Cuts(chunks[1]) \X Cuts(chunks[2])
  BY DEF AtWork
<1>2. /\ chunks[1] \in Unlocks /\ chunks[2] \in Locks
      /\ cut[1] \in Cuts(chunks[1]) /\ cut[2] \in Cuts(chunks[2])
      /\ cut = <<cut[1], cut[2]>>
  BY <1>1
<1>3. chunks[1] \in Seq(Good) /\ chunks[2] \in Seq(Good)
  BY <1>2, Scripts
<1>4. turn = 1 \/ turn = 2
  BY DEF AtWork
<1>5. QED
  BY <1>2, <1>3, <1>4

\* A step that leaves the input and the script alone leaves what was chosen.
LEMMA InputStays ==
    ASSUME AtWork, UNCHANGED input, UNCHANGED <<script, turn>>, pc' \in {"parse", "execute", "ok", "err"}
    PROVE  AtWork' /\ chunks' = chunks /\ cut' = cut
BY DEF AtWork, input

\* ScriptInv holds when execute_script is called.
LEMMA InitScriptInv == Init => ScriptInv
<1> SUFFICES ASSUME Init PROVE ScriptInv
  OBVIOUS
<1>1. AtWork
  BY DEF Init, AtWork
<1>2. turn = 1 /\ i = 1 /\ instructions = <<>> /\ k = 1 /\ pc = "parse"
  BY DEF Init
<1>3. script = Truncated(chunks[turn], cut[turn])
  BY <1>1 DEF AtWork
<1>4. /\ ReadSoFar(chunks[turn], cut[turn], 1, <<>>) /\ <<>> \in Seq(Instruction)
      /\ 1 \in 1 .. Len(script) + 1
  BY <1>1, <1>3, Chosen, ReadBegins
<1>5. Reading
  BY <1>2, <1>4 DEF Reading
<1>6. NoInvalid
  BY <1>2 DEF NoInvalid
<1>7. QED
  BY <1>1, <1>5, <1>6 DEF ScriptInv

\* The parser moves on by one chunk.
LEMMA OneMore ==
    ASSUME ScriptInv, pc = "parse", UNCHANGED <<input, pc, script, k, turn>>,
           instructions' \in Seq(Instruction), i' \in 1 .. Len(script) + 1,
           ReadSoFar(chunks[turn], cut[turn], i', instructions')
    PROVE  ScriptInv'
<1>1. AtWork /\ Reading /\ NoInvalid
  BY DEF ScriptInv
<1>2. AtWork' /\ chunks' = chunks /\ cut' = cut /\ turn' = turn /\ k' = k /\ pc' = pc /\ script' = script
  BY <1>1, InputStays DEF AtWork
<1>3. k = 1 /\ Len(instructions') \in Nat
  BY <1>1, LenProperties DEF Reading
<1>4. Reading'
  BY <1>2, <1>3 DEF Reading
<1>5. NoInvalid'
  BY <1>1, <1>2, <1>3 DEF NoInvalid
<1>6. QED
  BY <1>2, <1>4, <1>5 DEF ScriptInv

\* The parser is done.
LEMMA ParserDone ==
    ASSUME ScriptInv, pc = "parse", pc' = "execute", k' = 1,
           UNCHANGED <<input, script, i, turn>>,
           instructions' \in Seq(Instruction),
           AllRead(chunks[turn], cut[turn], instructions')
    PROVE  ScriptInv'
<1>1. AtWork /\ Reading /\ NoInvalid
  BY DEF ScriptInv
<1>2. AtWork' /\ chunks' = chunks /\ cut' = cut /\ turn' = turn /\ i' = i /\ script' = script
  BY <1>1, InputStays DEF AtWork
<1>3. Len(instructions') \in Nat
  BY LenProperties
<1>4. Reading'
  BY <1>1, <1>2 DEF Reading
<1>5. NoInvalid'
  BY <1>1, <1>2, <1>3 DEF NoInvalid
<1>6. QED
  BY <1>2, <1>4, <1>5 DEF ScriptInv

\* One instruction that is not invalid has been executed.
LEMMA OneExecuted ==
    ASSUME ScriptInv, Executing, instructions[k] # [op |-> Invalid], NEW s, Then(s)
    PROVE  ScriptInv'
<1>1. AtWork /\ Reading /\ NoInvalid
  BY DEF ScriptInv
<1>2. /\ AtWork' /\ chunks' = chunks /\ cut' = cut /\ turn' = turn /\ pc' = pc
      /\ script' = script /\ i' = i /\ instructions' = instructions /\ k' = k + 1
  BY <1>1, InputStays DEF AtWork, Then
<1>3. pc = "execute" /\ k <= Len(instructions)
  BY DEF Executing
<1>4. Reading'
  BY <1>1, <1>2, <1>3 DEF Reading
<1>5. k \in 1 .. Len(instructions) /\ Len(instructions) \in Nat
  BY <1>1, <1>3, LenProperties DEF NoInvalid, Reading
<1>6. ASSUME NEW j \in 1 .. (k + 1) - 1 PROVE instructions[j] # [op |-> Invalid]
  <2>1. CASE j = k
    BY <2>1
  <2>2. CASE j # k
    <3>1. j \in 1 .. k - 1
      BY <1>5, <2>2
    <3>2. QED
      BY <1>1, <1>3, <3>1 DEF NoInvalid
  <2>3. QED
    BY <2>1, <2>2
<1>7. NoInvalid'
  BY <1>1, <1>2, <1>3, <1>5, <1>6 DEF NoInvalid
<1>8. QED
  BY <1>2, <1>4, <1>7 DEF ScriptInv

\* Reading an opcode keeps ScriptInv.
LEMMA ParseOpKeeps == ScriptInv /\ ParseOp => ScriptInv'
<1> SUFFICES ASSUME ScriptInv, ParseOp PROVE ScriptInv'
  OBVIOUS
<1>1. AtWork /\ Reading
  BY DEF ScriptInv
<1>2. /\ pc = "parse" /\ i <= Len(script) /\ ~IsPush(script[i])
      /\ instructions' = Append(instructions, [op |-> script[i]])
      /\ i' = i + 1
      /\ UNCHANGED <<input, pc, script, k, turn>>
  BY DEF ParseOp, Parsing
<1>3. /\ chunks[turn] \in Seq(Good) /\ cut[turn] \in Cuts(chunks[turn])
      /\ script = Truncated(chunks[turn], cut[turn])
  BY <1>1, Chosen DEF AtWork
<1>4. instructions \in Seq(Instruction) /\ ReadSoFar(chunks[turn], cut[turn], i, instructions)
  BY <1>1, <1>2 DEF Reading
<1>5. /\ Append(instructions, [op |-> script[i]]) \in Seq(Instruction)
      /\ ReadSoFar(chunks[turn], cut[turn], i + 1, Append(instructions, [op |-> script[i]]))
      /\ i + 1 \in 1 .. Len(script) + 1
  BY <1>2, <1>3, <1>4, ReadOp
<1>6. QED
  BY <1>2, <1>5, OneMore

\* Reading a push keeps ScriptInv.
LEMMA ParsePushKeeps == ScriptInv /\ ParsePush => ScriptInv'
<1> SUFFICES ASSUME ScriptInv, ParsePush PROVE ScriptInv'
  OBVIOUS
<1>1. AtWork /\ Reading
  BY DEF ScriptInv
<1> DEFINE first == i + HeadLen(script[i])
           next  == first + DataLen(script, i)
           data  == SubSeq(script, first, next - 1)
<1>2. /\ pc = "parse" /\ i <= Len(script) /\ IsPush(script[i]) /\ PushFits(script, i)
      /\ instructions' = Append(instructions, [push |-> data])
      /\ i' = next
      /\ UNCHANGED <<input, pc, script, k, turn>>
  BY DEF ParsePush, Parsing
<1>3. /\ chunks[turn] \in Seq(Good) /\ cut[turn] \in Cuts(chunks[turn])
      /\ script = Truncated(chunks[turn], cut[turn])
  BY <1>1, Chosen DEF AtWork
<1>4. instructions \in Seq(Instruction) /\ ReadSoFar(chunks[turn], cut[turn], i, instructions)
  BY <1>1, <1>2 DEF Reading
<1>5. /\ Append(instructions, [push |-> data]) \in Seq(Instruction)
      /\ ReadSoFar(chunks[turn], cut[turn], next, Append(instructions, [push |-> data]))
      /\ next \in 1 .. Len(script) + 1
  BY <1>2, <1>3, <1>4, ReadData
<1> HIDE DEF next, data
<1>6. QED
  BY <1>2, <1>5, OneMore

\* Finding a push that lacks bytes keeps ScriptInv.
LEMMA ParseTruncatedKeeps == ScriptInv /\ ParseTruncated => ScriptInv'
<1> SUFFICES ASSUME ScriptInv, ParseTruncated PROVE ScriptInv'
  OBVIOUS
<1>1. AtWork /\ Reading
  BY DEF ScriptInv
<1>2. /\ pc = "parse" /\ i <= Len(script) /\ IsPush(script[i]) /\ ~PushFits(script, i)
      /\ instructions' = Append(instructions, [op |-> Invalid])
      /\ pc' = "execute" /\ k' = 1
      /\ UNCHANGED <<input, script, i, turn>>
  BY DEF ParseTruncated, Parsing
<1>3. /\ chunks[turn] \in Seq(Good) /\ cut[turn] \in Cuts(chunks[turn])
      /\ script = Truncated(chunks[turn], cut[turn])
  BY <1>1, Chosen DEF AtWork
<1>4. instructions \in Seq(Instruction) /\ ReadSoFar(chunks[turn], cut[turn], i, instructions)
  BY <1>1, <1>2 DEF Reading
<1>5. AllRead(chunks[turn], cut[turn], instructions')
  BY <1>2, <1>3, <1>4, ReadCut
<1>6. instructions' \in Seq(Instruction)
  <2>1. [op |-> Invalid] \in Instruction
    BY DEF Instruction, Invalid, Byte
  <2>2. QED
    BY <1>2, <1>4, <2>1, AppendProperties
<1>7. QED
  BY <1>2, <1>5, <1>6, ParserDone

\* The end of parsing keeps ScriptInv.
LEMMA ParseEndsKeeps == ScriptInv /\ ParseEnds => ScriptInv'
<1> SUFFICES ASSUME ScriptInv, ParseEnds PROVE ScriptInv'
  OBVIOUS
<1>1. AtWork /\ Reading
  BY DEF ScriptInv
<1>2. /\ pc = "parse" /\ i > Len(script)
      /\ pc' = "execute" /\ k' = 1
      /\ UNCHANGED <<input, script, i, instructions, turn>>
  BY DEF ParseEnds
<1>3. /\ chunks[turn] \in Seq(Good) /\ cut[turn] \in Cuts(chunks[turn])
      /\ script = Truncated(chunks[turn], cut[turn])
  BY <1>1, Chosen DEF AtWork
<1>4. instructions \in Seq(Instruction) /\ ReadSoFar(chunks[turn], cut[turn], i, instructions)
  BY <1>1, <1>2 DEF Reading
<1>5. AllRead(chunks[turn], cut[turn], instructions)
  BY <1>2, <1>3, <1>4, ReadEnds
<1>6. QED
  BY <1>2, <1>4, <1>5, ParserDone

\* The opcodes the engine knows are not the invalid one.
LEMMA KnownOpcode ==
    ASSUME NEW b, b # 255, Runs(b)
    PROVE  Executing /\ instructions[k] # [op |-> Invalid]
<1>1. Executing /\ instructions[k] = [op |-> b]
  BY DEF Runs
<1>2. [op |-> b].op = b /\ [op |-> Invalid].op = 255
  BY DEF Invalid
<1>3. QED
  BY <1>1, <1>2

\* An instruction executed keeps ScriptInv: it is not the invalid opcode.
LEMMA ExecutedKeeps ==
    ASSUME ScriptInv,
           PushData \/ OpConstant \/ OpDup \/ OpHash160 \/ OpEqual \/ OpEqualVerify \/ OpCheckSig
    PROVE  ScriptInv'
<1>1. CASE PushData
  <2>1. Executing /\ "push" \in DOMAIN instructions[k]
    BY <1>1 DEF PushData
  <2>2. instructions[k] # [op |-> Invalid]
    BY <2>1
  <2>3. QED
    BY <1>1, <2>1, <2>2, OneExecuted DEF PushData
<1>2. CASE OpConstant
  <2>1. PICK b \in ConstantOps : Runs(b) /\ Then(Append(stack, Constant(b)))
    BY <1>2 DEF OpConstant
  <2>2. b # 255
    BY DEF ConstantOps
  <2>3. QED
    BY <2>1, <2>2, KnownOpcode, OneExecuted
<1>3. CASE OpDup
  <2>1. 118 # 255
    OBVIOUS
  <2>2. QED
    BY <1>3, <2>1, KnownOpcode, OneExecuted DEF OpDup
<1>4. CASE OpHash160
  <2>1. 169 # 255
    OBVIOUS
  <2>2. QED
    BY <1>4, <2>1, KnownOpcode, OneExecuted DEF OpHash160
<1>5. CASE OpEqual
  <2>1. 135 # 255
    OBVIOUS
  <2>2. QED
    BY <1>5, <2>1, KnownOpcode, OneExecuted DEF OpEqual
<1>6. CASE OpEqualVerify
  <2>1. 136 # 255
    OBVIOUS
  <2>2. QED
    BY <1>6, <2>1, KnownOpcode, OneExecuted DEF OpEqualVerify
<1>7. CASE OpCheckSig
  <2>1. 172 # 255
    OBVIOUS
  <2>2. QED
    BY <1>7, <2>1, KnownOpcode, OneExecuted DEF OpCheckSig
<1>8. QED
  BY <1>1, <1>2, <1>3, <1>4, <1>5, <1>6, <1>7

\* A failing instruction keeps ScriptInv.
LEMMA FailsKeeps == ScriptInv /\ Fails => ScriptInv'
<1> SUFFICES ASSUME ScriptInv, Fails PROVE ScriptInv'
  OBVIOUS
<1>1. AtWork /\ Reading /\ NoInvalid
  BY DEF ScriptInv
<1>2. pc = "execute" /\ pc' = "err" /\ UNCHANGED <<input, script, i, instructions, k, turn, unlocked>>
  BY DEF Fails, Executing
<1>3. AtWork' /\ chunks' = chunks /\ cut' = cut
  BY <1>1, <1>2, InputStays
<1>4. Reading'
  BY <1>1, <1>2, <1>3 DEF Reading
<1>5. NoInvalid'
  BY <1>1, <1>2, <1>3 DEF NoInvalid
<1>6. QED
  BY <1>3, <1>4, <1>5 DEF ScriptInv

\* A script that has been executed to its end has lost nothing.
LEMMA DoneIsWhole ==
    ASSUME ScriptInv, pc \in {"execute", "ok"}, k > Len(instructions)
    PROVE  cut[turn] = 0 /\ k = Len(instructions) + 1
<1>1. AtWork /\ Reading /\ NoInvalid
  BY DEF ScriptInv
<1>2. Len(instructions) \in Nat /\ k = Len(instructions) + 1
  BY <1>1, LenProperties DEF Reading, NoInvalid
<1>3. chunks[turn] \in Seq(Good) /\ cut[turn] \in Cuts(chunks[turn])
  BY <1>1, Chosen
<1>4. instructions \in Seq(Instruction) /\ AllRead(chunks[turn], cut[turn], instructions)
  BY <1>1 DEF Reading
<1>5. cut[turn] = 0
  <2> SUFFICES ASSUME cut[turn] # 0 PROVE FALSE
    OBVIOUS
  <2>1. Len(chunks[turn]) # 0
    BY <1>3, TruncatedIs
  <2>2. \E j \in 1 .. Len(instructions) : instructions[j] = [op |-> Invalid]
    BY <1>3, <1>4, <2>1, CutIsInvalid
  <2>3. \A j \in 1 .. k - 1 : instructions[j] # [op |-> Invalid]
    BY <1>1 DEF NoInvalid
  <2>4. k - 1 = Len(instructions)
    BY <1>2
  <2>5. QED
    BY <2>2, <2>3, <2>4
<1>6. QED
  BY <1>2, <1>5

\* Going on to the locking script keeps ScriptInv.
LEMMA UnlockEndsKeeps == ScriptInv /\ UnlockEnds => ScriptInv'
<1> SUFFICES ASSUME ScriptInv, UnlockEnds PROVE ScriptInv'
  OBVIOUS
<1>1. AtWork
  BY DEF ScriptInv
<1>2. /\ pc = "execute" /\ turn = 1 /\ k > Len(instructions)
      /\ turn' = 2 /\ script' = Truncated(chunks[2], cut[2])
      /\ pc' = "parse" /\ i' = 1 /\ instructions' = <<>> /\ k' = 1
      /\ chunks' = chunks /\ cut' = cut
  BY DEF UnlockEnds, input
<1>3. cut[1] = 0
  BY <1>2, DoneIsWhole
<1>4. AtWork'
  BY <1>1, <1>2 DEF AtWork
<1>5. /\ ReadSoFar(chunks[2], cut[2], 1, <<>>) /\ <<>> \in Seq(Instruction)
      /\ 1 \in 1 .. Len(Truncated(chunks[2], cut[2])) + 1
  BY <1>1, Chosen, ReadBegins
<1>6. Reading'
  BY <1>2, <1>5 DEF Reading
<1>7. NoInvalid'
  BY <1>2, <1>3 DEF NoInvalid
<1>8. QED
  BY <1>4, <1>6, <1>7 DEF ScriptInv

\* The verdict after the locking script keeps ScriptInv.
LEMMA LockEndsKeeps == ScriptInv /\ LockEnds => ScriptInv'
<1> SUFFICES ASSUME ScriptInv, LockEnds PROVE ScriptInv'
  OBVIOUS
<1>1. AtWork /\ Reading /\ NoInvalid
  BY DEF ScriptInv
<1>2. /\ pc = "execute" /\ turn = 2 /\ k > Len(instructions) /\ pc' = "ok"
      /\ UNCHANGED <<input, script, i, instructions, k, turn, unlocked>>
  BY DEF LockEnds
<1>3. k = Len(instructions) + 1
  BY <1>2, DoneIsWhole
<1>4. AtWork' /\ chunks' = chunks /\ cut' = cut
  BY <1>1, <1>2, InputStays
<1>5. Reading'
  BY <1>1, <1>2, <1>4 DEF Reading
<1>6. NoInvalid'
  BY <1>1, <1>2, <1>3, <1>4 DEF NoInvalid
<1>7. QED
  BY <1>4, <1>5, <1>6 DEF ScriptInv

\* Every step keeps ScriptInv.
LEMMA NextKeepsScriptInv == ScriptInv /\ [Next]_vars => ScriptInv'
<1> SUFFICES ASSUME ScriptInv, [Next]_vars PROVE ScriptInv'
  OBVIOUS
<1>1. CASE Parse
  BY <1>1, ParseOpKeeps, ParsePushKeeps, ParseTruncatedKeeps, ParseEndsKeeps DEF Parse
<1>2. CASE Execute
  BY <1>2, ExecutedKeeps, FailsKeeps, UnlockEndsKeeps, LockEndsKeeps DEF Execute
<1>3. CASE UNCHANGED vars
  BY <1>3 DEF vars, input, ScriptInv, AtWork, Reading, NoInvalid
<1>4. QED
  BY <1>1, <1>2, <1>3 DEF Next

\* In every reachable state the parser is between two chunks of the script,
\* with the instructions of those it has passed, whatever the four forms of
\* its pushes and the bytes it has lost; and no invalid opcode has been
\* executed.
THEOREM ScriptInvariant == Spec => []ScriptInv
<1>1. Init => ScriptInv
  BY InitScriptInv
<1>2. ScriptInv /\ [Next]_vars => ScriptInv'
  BY NextKeepsScriptInv
<1>3. QED
  BY <1>1, <1>2, PTL DEF Spec

\* parse_script reads back what was written.
THEOREM ScriptParsedAsWritten == Spec => []ParsedAsWritten
<1>1. ScriptInv => ParsedAsWritten
  BY DEF ScriptInv, Reading, AllRead, ParsedAsWritten
<1>2. QED
  BY <1>1, ScriptInvariant, PTL

\* No evaluation in which a script has lost bytes succeeds.
THEOREM ScriptTruncatedFails == Spec => []TruncatedNeverSucceeds
<1>1. ScriptInv => TruncatedNeverSucceeds
  <2> SUFFICES ASSUME ScriptInv, pc = "ok" PROVE cut = <<0, 0>>
    BY DEF TruncatedNeverSucceeds
  <2>1. AtWork /\ Reading /\ NoInvalid
    BY DEF ScriptInv
  <2>2. turn = 2 /\ k = Len(instructions) + 1 /\ cut[1] = 0
    BY <2>1 DEF NoInvalid
  <2>3. k > Len(instructions)
    BY <2>1, <2>2, LenProperties DEF Reading
  <2>4. cut[2] = 0
    BY <2>1, <2>2, <2>3, DoneIsWhole
  <2>5. QED
    BY <2>1, <2>2, <2>4, Chosen
<1>2. QED
  BY <1>1, ScriptInvariant, PTL

---------------------------------------------------------------------------
\* The stack.

\* RIPEMD-160 makes bytes of bytes.  TLC cannot enumerate Seq(Byte), so this
\* is a hypothesis of the theorems about the stack, not an ASSUME.
HashesToBytes == \A d \in Seq(Byte) : Hash160(d) \in Seq(Byte)

Stacks == stack \in Seq(ByteSeq) /\ unlocked \in Seq(ByteSeq)

\* The items an instruction takes off the stack, and the stack below them.
LEMMA StackItems ==
    ASSUME NEW st \in Seq(ByteSeq), NEW n \in 1 .. 2, Len(st) >= n
    PROVE  /\ st[Len(st) + 1 - n] \in ByteSeq
           /\ SubSeq(st, 1, Len(st) - n) \in Seq(ByteSeq)
<1>1. Len(st) \in Nat
  BY LenProperties
<1>2. Len(st) + 1 - n \in 1 .. Len(st) /\ Len(st) - n \in 0 .. Len(st)
  BY <1>1
<1>3. st[Len(st) + 1 - n] \in ByteSeq
  BY <1>2, ElementOfSeq
<1>4. SubSeq(st, 1, Len(st) - n) \in Seq(ByteSeq)
  BY <1>2, CutAndJoin
<1>5. QED
  BY <1>3, <1>4

\* Verdicts and small numbers are byte strings.
LEMMA SmallItems ==
    /\ True \in ByteSeq /\ False \in ByteSeq
    /\ \A b \in ConstantOps : Constant(b) \in ByteSeq
<1>1. \A b \in Byte : <<b>> \in ByteSeq
  BY DEF ByteSeq
<1>2. True \in ByteSeq /\ False \in ByteSeq
  BY <1>1 DEF True, False, ByteSeq, Byte
<1>3. ASSUME NEW b \in ConstantOps PROVE Constant(b) \in ByteSeq
  <2>1. CASE b = 0
    BY <1>2, <2>1 DEF Constant, False
  <2>2. CASE b = 79
    <3>1. Constant(b) = <<129>> /\ 129 \in Byte
      BY <2>2 DEF Constant, Byte
    <3>2. QED
      BY <1>1, <3>1
  <2>3. CASE b \in 81 .. 96
    <3>1. b # 0 /\ b # 79 /\ b - 80 \in Byte
      BY <2>3 DEF Byte
    <3>2. Constant(b) = <<b - 80>>
      BY <2>3, <3>1 DEF Constant
    <3>3. QED
      BY <1>1, <3>1, <3>2
  <2>4. QED
    BY <2>1, <2>2, <2>3 DEF ConstantOps
<1>4. QED
  BY <1>2, <1>3

\* What a push pushes is a byte string.
LEMMA PushedData ==
    ASSUME NEW x \in Instruction, "push" \in DOMAIN x
    PROVE  x.push \in ByteSeq
BY DEF Instruction

\* Every step keeps byte strings on the stack.
LEMMA StacksStep ==
    ASSUME HashesToBytes, ScriptInv, Stacks, [Next]_vars
    PROVE  Stacks'
<1>0. stack \in Seq(ByteSeq) /\ unlocked \in Seq(ByteSeq)
  BY DEF Stacks
<1>1. \A x \in ByteSeq : Append(stack, x) \in Seq(ByteSeq)
  BY <1>0, AppendProperties
<1>2. \A n \in 1 .. 2 : Len(stack) >= n => Top(n) \in ByteSeq /\ Below(n) \in Seq(ByteSeq)
  BY <1>0, StackItems DEF Top, Below
<1>3. \A n \in 1 .. 2, x \in ByteSeq : Len(stack) >= n => Append(Below(n), x) \in Seq(ByteSeq)
  BY <1>2, AppendProperties
<1>4. 1 \in 1 .. 2 /\ 2 \in 1 .. 2 /\ (Len(stack) >= 2 => Len(stack) >= 1)
  BY <1>0, LenProperties
<1>5. ASSUME NEW s \in Seq(ByteSeq), Then(s) PROVE Stacks'
  BY <1>0, <1>5 DEF Then, Stacks
<1>6. CASE PushData
  <2>1. k \in 1 .. Len(instructions) /\ instructions \in Seq(Instruction)
    <3>1. /\ k \in 1 .. Len(instructions) + 1 /\ k <= Len(instructions)
          /\ instructions \in Seq(Instruction)
      BY <1>6 DEF PushData, Executing, ScriptInv, Reading, NoInvalid
    <3>2. QED
      BY <3>1, LenProperties
  <2>2. instructions[k].push \in ByteSeq
    BY <1>6, <2>1, ElementOfSeq, PushedData DEF PushData
  <2>3. QED
    BY <1>1, <1>5, <1>6, <2>2 DEF PushData
<1>7. CASE OpConstant
  BY <1>1, <1>5, <1>7, SmallItems DEF OpConstant
<1>8. CASE OpDup
  <2>1. Len(stack) >= 1 /\ Then(Append(stack, Top(1)))
    BY <1>8 DEF OpDup
  <2>2. QED
    BY <1>1, <1>2, <1>4, <1>5, <2>1
<1>9. CASE OpHash160
  <2>1. Len(stack) >= 1 /\ Then(Append(Below(1), Hash160(Top(1))))
    BY <1>9 DEF OpHash160
  <2>2. Hash160(Top(1)) \in ByteSeq
    BY <1>2, <1>4, <2>1 DEF HashesToBytes, ByteSeq
  <2>3. QED
    BY <1>3, <1>4, <1>5, <2>1, <2>2
<1>10. CASE OpEqual
  <2>1. Len(stack) >= 2 /\ Then(Append(Below(2), IF Top(1) = Top(2) THEN True ELSE False))
    BY <1>10 DEF OpEqual
  <2>2. (IF Top(1) = Top(2) THEN True ELSE False) \in ByteSeq
    BY SmallItems
  <2>3. QED
    BY <1>3, <1>4, <1>5, <2>1, <2>2
<1>11. CASE OpEqualVerify
  <2>1. Len(stack) >= 2 /\ Then(Below(2))
    BY <1>11 DEF OpEqualVerify
  <2>2. QED
    BY <1>2, <1>4, <1>5, <2>1
<1>12. CASE OpCheckSig
  <2>1. Len(stack) >= 2
        /\ Then(Append(Below(2), IF SignatureIsGood(Top(1), Top(2)) THEN True ELSE False))
    BY <1>12 DEF OpCheckSig
  <2>2. (IF SignatureIsGood(Top(1), Top(2)) THEN True ELSE False) \in ByteSeq
    BY SmallItems
  <2>3. QED
    BY <1>3, <1>4, <1>5, <2>1, <2>2
<1>13. CASE Fails
  <2>1. stack' = stack \/ (Len(stack) >= 2 /\ stack' = Below(2))
    BY <1>13 DEF Fails
  <2>2. stack' \in Seq(ByteSeq)
    BY <1>0, <1>2, <1>4, <2>1
  <2>3. unlocked' = unlocked
    BY <1>13 DEF Fails
  <2>4. QED
    BY <1>0, <2>2, <2>3 DEF Stacks
<1>14. CASE UnlockEnds
  BY <1>0, <1>14 DEF UnlockEnds, Stacks
<1>15. CASE LockEnds
  BY <1>0, <1>15 DEF LockEnds, Stacks
<1>16. CASE Parse
  BY <1>0, <1>16 DEF Parse, ParseOp, ParsePush, ParseTruncated, ParseEnds, Stacks
<1>17. CASE UNCHANGED vars
  BY <1>0, <1>17 DEF vars, Stacks
<1>18. QED
  BY <1>6, <1>7, <1>8, <1>9, <1>10, <1>11, <1>12, <1>13, <1>14, <1>15, <1>16, <1>17
     DEF Next, Execute

\* The two invariants together.
LEMMA ScriptStacks ==
    ASSUME HashesToBytes
    PROVE  Spec => [](ScriptInv /\ Stacks)
<1>1. Init => Stacks
  BY DEF Init, Stacks
<1>2. ScriptInv /\ Stacks /\ [Next]_vars => Stacks'
  BY StacksStep
<1>3. QED
  BY <1>1, <1>2, ScriptInvariant, PTL DEF Spec

\* Whatever bytes it is given, the engine keeps its position in the script,
\* its instruction counter in the instructions, and byte strings on the stack.
THEOREM ScriptTypeOK == HashesToBytes => (Spec => []TypeOK)
<1> SUFFICES ASSUME HashesToBytes PROVE Spec => []TypeOK
  OBVIOUS
<1>1. ScriptInv /\ Stacks => TypeOK
  <2> SUFFICES ASSUME ScriptInv, Stacks PROVE TypeOK
    OBVIOUS
  <2>1. AtWork /\ Reading /\ NoInvalid
    BY DEF ScriptInv
  <2>2. script \in Seq(Byte)
    BY <2>1, Chosen, TruncatedIs DEF AtWork
  <2>3. QED
    BY <2>1, <2>2 DEF AtWork, Reading, NoInvalid, Stacks, ByteSeq, TypeOK
<1>2. QED
  BY <1>1, ScriptStacks, PTL

---------------------------------------------------------------------------
\* Pay to public key hash.

\* What remains under the items that were appended.
LEMMA UnderOne ==
    ASSUME NEW S, NEW u \in Seq(S), NEW x \in S, NEW t, t = Append(u, x)
    PROVE  /\ Len(t) = Len(u) + 1 /\ Len(u) \in Nat
           /\ t[Len(t) + 1 - 1] = x /\ SubSeq(t, 1, Len(t) - 1) = u
<1>1. /\ t \in Seq(S) /\ Len(t) = Len(u) + 1 /\ Len(u) \in Nat
      /\ t[Len(u) + 1] = x /\ \A j \in 1 .. Len(u) : t[j] = u[j]
  BY LenProperties, AppendProperties
<1>2. Len(t) + 1 - 1 = Len(u) + 1 /\ Len(t) - 1 = Len(u)
  BY <1>1
<1> DEFINE r == SubSeq(t, 1, Len(u))
<1>3. r \in Seq(S) /\ Len(r) = Len(u) /\ \A j \in 1 .. Len(u) : r[j] = t[j]
  BY <1>1
<1> HIDE DEF r
<1>4. r = u
  BY <1>1, <1>3, SeqEqual
<1>5. QED
  BY <1>1, <1>2, <1>4 DEF r

\* A stack with two items on top.
LEMMA UnderTwo ==
    ASSUME NEW S, NEW u \in Seq(S), NEW x \in S, NEW y \in S, NEW t, t = Append(Append(u, x), y)
    PROVE  /\ Len(t) = Len(u) + 2 /\ Len(u) \in Nat
           /\ t[Len(t) + 1 - 1] = y /\ t[Len(t) + 1 - 2] = x
           /\ SubSeq(t, 1, Len(t) - 2) = u
<1> DEFINE a == Append(u, x)
<1>1. /\ a \in Seq(S) /\ Len(a) = Len(u) + 1 /\ Len(u) \in Nat
      /\ a[Len(u) + 1] = x /\ \A j \in 1 .. Len(u) : a[j] = u[j]
  BY LenProperties, AppendProperties
<1> HIDE DEF a
<1>2. t = Append(a, y)
  BY DEF a
<1>3. /\ t \in Seq(S) /\ Len(t) = Len(a) + 1
      /\ t[Len(a) + 1] = y /\ \A j \in 1 .. Len(a) : t[j] = a[j]
  BY <1>1, <1>2, AppendProperties
<1>4. Len(t) = Len(u) + 2 /\ Len(t) + 1 - 1 = Len(a) + 1 /\ Len(t) + 1 - 2 = Len(u) + 1 /\ Len(t) - 2 = Len(u)
  BY <1>1, <1>3
<1>5. t[Len(u) + 1] = x
  <2>1. Len(u) + 1 \in 1 .. Len(a)
    BY <1>1
  <2>2. QED
    BY <1>1, <1>3, <2>1
<1> DEFINE r == SubSeq(t, 1, Len(u))
<1>6. r \in Seq(S) /\ Len(r) = Len(u) /\ \A j \in 1 .. Len(u) : r[j] = t[j]
  BY <1>1, <1>3
<1> HIDE DEF r
<1>7. \A j \in 1 .. Len(u) : r[j] = u[j]
  BY <1>1, <1>3, <1>6
<1>8. r = u
  BY <1>6, <1>7, SeqEqual
<1>9. QED
  BY <1>1, <1>3, <1>4, <1>5, <1>8 DEF r

\* How many items the opcodes of P2PKH need.
LEMMA NeedsAre ==
    /\ {118, 169, 136, 172} \subseteq DOMAIN Needs
    /\ Needs[118] = 1 /\ Needs[169] = 1 /\ Needs[136] = 2 /\ Needs[172] = 2
BY DEF Needs, ConstantOps

\* The stack has what the first q - 1 instructions of the P2PKH script make
\* of the stack the unlocking script left.
Reached(h, q) ==
    LET u   == unlocked
        n   == Len(u)
        top == Hash160(u[n])
    IN  /\ q = 1 => stack = u
        /\ q = 2 => n >= 1 /\ stack = Append(u, u[n])
        /\ q = 3 => n >= 1 /\ stack = Append(u, top)
        /\ q = 4 => n >= 1 /\ stack = Append(Append(u, top), h)
        /\ q = 5 => n >= 1 /\ top = h /\ stack = u
        /\ q = 6 => /\ n >= 2 /\ top = h
                    /\ stack = Append(SubSeq(u, 1, n - 2),
                           IF SignatureIsGood(u[n], u[n - 1]) THEN True ELSE False)

Paying(h) == turn = 2 /\ cut[2] = 0 /\ IsP2PKH(chunks[2], h)

Paid(h) ==
    Paying(h) =>
        /\ pc = "parse" => stack = unlocked
        /\ pc \in {"execute", "ok"} => Reached(h, k)
        /\ pc = "err" => \/ Len(unlocked) < 2
                         \/ Hash160(unlocked[Len(unlocked)]) # h

\* The script that is executed is the one that was written.
LEMMA PayingScript ==
    ASSUME ScriptInv, NEW h, Paying(h), pc # "parse"
    PROVE  /\ Len(instructions) = 5 /\ k \in 1 .. 6 /\ h \in ByteSeq
           /\ instructions[1] = [op |-> 118] /\ instructions[2] = [op |-> 169]
           /\ instructions[3] = [push |-> h] /\ instructions[4] = [op |-> 136]
           /\ instructions[5] = [op |-> 172]
<1>1. /\ instructions \in Seq(Instruction) /\ AllRead(chunks[turn], cut[turn], instructions)
      /\ k \in 1 .. Len(instructions) + 1
  BY DEF ScriptInv, Reading, NoInvalid
<1>2. instructions = <<[op |-> 118], [op |-> 169], [push |-> h], [op |-> 136], [op |-> 172]>>
  BY <1>1 DEF Paying, AllRead, IsP2PKH
<1>3. /\ Len(instructions) = 5
      /\ instructions[1] = [op |-> 118] /\ instructions[2] = [op |-> 169]
      /\ instructions[3] = [push |-> h] /\ instructions[4] = [op |-> 136]
      /\ instructions[5] = [op |-> 172]
  BY <1>2
<1>4. k \in 1 .. 6
  BY <1>1, <1>3
<1>5. [push |-> h] \in Instruction
  BY <1>1, <1>3, ElementOfSeq
<1>6. h \in ByteSeq
  BY <1>5, PushedData
<1>7. QED
  BY <1>3, <1>4, <1>6

\* Which instruction an opcode of the P2PKH script is.
LEMMA PayingOpcode ==
    ASSUME ScriptInv, NEW h, Paying(h), NEW b, Runs(b)
    PROVE  /\ k \in {1, 2, 4, 5} /\ pc = "execute"
           /\ k = 1 => b = 118
           /\ k = 2 => b = 169
           /\ k = 4 => b = 136
           /\ k = 5 => b = 172
<1>1. pc = "execute" /\ k <= Len(instructions) /\ instructions[k] = [op |-> b]
  BY DEF Runs, Executing
<1>2. /\ Len(instructions) = 5 /\ k \in 1 .. 6
      /\ instructions[1] = [op |-> 118] /\ instructions[2] = [op |-> 169]
      /\ instructions[3] = [push |-> h] /\ instructions[4] = [op |-> 136]
      /\ instructions[5] = [op |-> 172]
  BY <1>1, PayingScript
<1>3. [op |-> b] # [push |-> h]
  <2>1. "op" \in DOMAIN [op |-> b] /\ "op" \notin DOMAIN [push |-> h]
    OBVIOUS
  <2>2. QED
    BY <2>1, Zenon
<1>4. \A x, y : [op |-> x] = [op |-> y] => x = y
  <2> SUFFICES ASSUME NEW x, NEW y, [op |-> x] = [op |-> y] PROVE x = y
    OBVIOUS
  <2>1. [op |-> x].op = x /\ [op |-> y].op = y
    OBVIOUS
  <2>2. QED
    BY <2>1
<1>5. k \in {1, 2, 3, 4, 5}
  BY <1>1, <1>2
<1>6. k # 3
  BY <1>1, <1>2, <1>3
<1>7. (k = 1 => b = 118) /\ (k = 2 => b = 169) /\ (k = 4 => b = 136) /\ (k = 5 => b = 172)
  BY <1>1, <1>2, <1>4
<1>8. QED
  BY <1>1, <1>5, <1>6, <1>7

\* What the effect of a paying instruction leaves to show.
LEMMA PayingThen ==
    ASSUME NEW h, NEW s, Then(s), pc = "execute", NEW q, q = k + 1, Reached(h, q)'
    PROVE  Paid(h)'
BY DEF Then, Paid

\* What the steps of the script start from.
LEMMA PayingStack ==
    ASSUME ScriptInv, Stacks, HashesToBytes, NEW h, Paying(h), Paid(h), pc = "execute"
    PROVE  LET u == unlocked IN
           /\ u \in Seq(ByteSeq) /\ Len(u) \in Nat /\ h \in ByteSeq
           /\ Len(u) >= 1 => u[Len(u)] \in ByteSeq /\ Hash160(u[Len(u)]) \in ByteSeq
           /\ Reached(h, k)
<1> DEFINE u == unlocked
<1>1. u \in Seq(ByteSeq) /\ Len(u) \in Nat
  BY LenProperties DEF Stacks
<1>2. h \in ByteSeq
  BY PayingScript
<1>3. Len(u) >= 1 => u[Len(u)] \in ByteSeq
  BY <1>1, ElementOfSeq
<1>4. Len(u) >= 1 => Hash160(u[Len(u)]) \in ByteSeq
  BY <1>3 DEF HashesToBytes, ByteSeq
<1>5. Reached(h, k)
  BY DEF Paid
<1>6. QED
  BY <1>1, <1>2, <1>3, <1>4, <1>5

\* OP_DUP leaves the stack that Paid says.
LEMMA DupPays ==
    ASSUME ScriptInv, Stacks, HashesToBytes, NEW h, Paying(h), Paid(h), OpDup
    PROVE  Paid(h)'
<1>1. Runs(118) /\ Len(stack) >= 1 /\ Then(Append(stack, Top(1)))
  BY DEF OpDup
<1>2. k = 1 /\ pc = "execute"
  BY <1>1, PayingOpcode
<1>3. stack = unlocked
  BY <1>2, PayingStack DEF Reached
<1>4. Len(unlocked) \in Nat
  BY <1>2, PayingStack
<1>5. Top(1) = unlocked[Len(unlocked)] /\ Len(unlocked) >= 1
  <2>1. Len(unlocked) + 1 - 1 = Len(unlocked)
    BY <1>4
  <2>2. QED
    BY <1>1, <1>3, <2>1 DEF Top
<1>6. stack' = Append(unlocked, unlocked[Len(unlocked)]) /\ unlocked' = unlocked
  BY <1>1, <1>3, <1>5 DEF Then
<1>7. Reached(h, 2)'
  BY <1>5, <1>6 DEF Reached
<1>8. QED
  BY <1>1, <1>2, <1>7, PayingThen

\* OP_HASH160 leaves the stack that Paid says.
LEMMA HashPays ==
    ASSUME ScriptInv, Stacks, HashesToBytes, NEW h, Paying(h), Paid(h), OpHash160
    PROVE  Paid(h)'
<1> DEFINE x == unlocked[Len(unlocked)]
<1>1. Runs(169) /\ Then(Append(Below(1), Hash160(Top(1))))
  BY DEF OpHash160
<1>2. k = 2 /\ pc = "execute"
  BY <1>1, PayingOpcode
<1>3. Len(unlocked) >= 1 /\ stack = Append(unlocked, x)
  BY <1>2, PayingStack DEF Reached
<1>4. unlocked \in Seq(ByteSeq) /\ x \in ByteSeq
  BY <1>2, <1>3, PayingStack
<1> HIDE DEF x
<1>5. Top(1) = x /\ Below(1) = unlocked
  BY <1>3, <1>4, UnderOne DEF Top, Below
<1>6. stack' = Append(unlocked, Hash160(x)) /\ unlocked' = unlocked
  BY <1>1, <1>5 DEF Then
<1>7. Reached(h, 3)'
  BY <1>3, <1>6 DEF Reached, x
<1>8. QED
  BY <1>1, <1>2, <1>7, PayingThen

\* The push of the hash leaves the stack that Paid says.
LEMMA PushPays ==
    ASSUME ScriptInv, Stacks, HashesToBytes, NEW h, Paying(h), Paid(h), PushData
    PROVE  Paid(h)'
<1>1. Executing /\ "push" \in DOMAIN instructions[k] /\ Then(Append(stack, instructions[k].push))
  BY DEF PushData
<1>2. pc = "execute" /\ k <= Len(instructions)
  BY <1>1 DEF Executing
<1>3. /\ Len(instructions) = 5 /\ k \in 1 .. 6
      /\ instructions[1] = [op |-> 118] /\ instructions[2] = [op |-> 169]
      /\ instructions[3] = [push |-> h] /\ instructions[4] = [op |-> 136]
      /\ instructions[5] = [op |-> 172]
  BY <1>2, PayingScript
<1>4. k = 3
  <2>1. \A b : "push" \notin DOMAIN [op |-> b]
    OBVIOUS
  <2>2. k \in {1, 2, 3, 4, 5}
    BY <1>2, <1>3
  <2>3. QED
    BY <1>1, <1>3, <2>1, <2>2
<1>5. instructions[k].push = h
  BY <1>3, <1>4
<1>6. Len(unlocked) >= 1 /\ stack = Append(unlocked, Hash160(unlocked[Len(unlocked)]))
  BY <1>2, <1>4, PayingStack DEF Reached
<1>7. /\ stack' = Append(Append(unlocked, Hash160(unlocked[Len(unlocked)])), h)
      /\ unlocked' = unlocked
  BY <1>1, <1>5, <1>6 DEF Then
<1>8. Reached(h, 4)'
  BY <1>6, <1>7 DEF Reached
<1>9. QED
  BY <1>1, <1>2, <1>4, <1>8, PayingThen

\* The stack as OP_EQUALVERIFY finds it.
LEMMA TwoOnTop ==
    ASSUME ScriptInv, Stacks, HashesToBytes, NEW h, Paying(h), Paid(h), pc = "execute", k = 4
    PROVE  /\ Top(1) = h /\ Top(2) = Hash160(unlocked[Len(unlocked)])
           /\ Below(2) = unlocked /\ Len(unlocked) >= 1 /\ Len(stack) >= 2
<1> DEFINE x == Hash160(unlocked[Len(unlocked)])
<1>1. Len(unlocked) >= 1 /\ stack = Append(Append(unlocked, x), h)
  BY PayingStack DEF Reached
<1>2. unlocked \in Seq(ByteSeq) /\ x \in ByteSeq /\ h \in ByteSeq
  BY <1>1, PayingStack
<1> HIDE DEF x
<1>3. /\ Top(1) = h /\ Top(2) = x /\ Below(2) = unlocked
      /\ Len(stack) = Len(unlocked) + 2 /\ Len(unlocked) \in Nat
  BY <1>1, <1>2, UnderTwo DEF Top, Below
<1>4. Len(stack) >= 2
  BY <1>3
<1>5. QED
  BY <1>1, <1>3, <1>4 DEF x

\* OP_EQUALVERIFY leaves the stack that Paid says, and passed because the
\* hashes are equal.
LEMMA EqualVerifyPays ==
    ASSUME ScriptInv, Stacks, HashesToBytes, NEW h, Paying(h), Paid(h), OpEqualVerify
    PROVE  Paid(h)'
<1>1. Runs(136) /\ Top(1) = Top(2) /\ Then(Below(2))
  BY DEF OpEqualVerify
<1>2. k \in {1, 2, 4, 5} /\ pc = "execute" /\ k = 4
  <2>1. 136 # 118 /\ 136 # 169 /\ 136 # 172
    OBVIOUS
  <2>2. QED
    BY <1>1, <2>1, PayingOpcode
<1>3. /\ Top(1) = h /\ Top(2) = Hash160(unlocked[Len(unlocked)])
      /\ Below(2) = unlocked /\ Len(unlocked) >= 1
  BY <1>2, TwoOnTop
<1>4. stack' = unlocked /\ unlocked' = unlocked
  BY <1>1, <1>3 DEF Then
<1>5. Reached(h, 5)'
  BY <1>1, <1>3, <1>4 DEF Reached
<1>6. QED
  BY <1>1, <1>2, <1>5, PayingThen

\* OP_CHECKSIG leaves the verdict on the signature.
LEMMA CheckSigPays ==
    ASSUME ScriptInv, Stacks, HashesToBytes, NEW h, Paying(h), Paid(h), OpCheckSig
    PROVE  Paid(h)'
<1> DEFINE n == Len(unlocked)
           y == IF SignatureIsGood(unlocked[n], unlocked[n - 1]) THEN True ELSE False
<1>1. /\ Runs(172) /\ Len(stack) >= 2
      /\ Then(Append(Below(2), IF SignatureIsGood(Top(1), Top(2)) THEN True ELSE False))
  BY DEF OpCheckSig
<1>2. k = 5 /\ pc = "execute"
  <2>1. 172 # 118 /\ 172 # 169 /\ 172 # 136
    OBVIOUS
  <2>2. QED
    BY <1>1, <2>1, PayingOpcode
<1>3. Hash160(unlocked[n]) = h /\ stack = unlocked
  BY <1>2, PayingStack DEF Reached
<1>4. n \in Nat
  BY <1>2, PayingStack
<1>5. Top(1) = unlocked[n] /\ Top(2) = unlocked[n - 1] /\ Below(2) = SubSeq(unlocked, 1, n - 2)
  <2>1. n + 1 - 1 = n /\ n + 1 - 2 = n - 1
    BY <1>4
  <2>2. QED
    BY <1>3, <2>1 DEF Top, Below
<1>6. stack' = Append(SubSeq(unlocked, 1, n - 2), y) /\ unlocked' = unlocked
  BY <1>1, <1>5 DEF Then
<1>7. Reached(h, 6)'
  BY <1>1, <1>3, <1>6 DEF Reached
<1>8. QED
  BY <1>1, <1>2, <1>7, PayingThen

\* The script has no other opcodes.
LEMMA OthersDoNotRun ==
    ASSUME ScriptInv, NEW h, Paying(h)
    PROVE  ~OpConstant /\ ~OpEqual
<1>1. ASSUME NEW b, Runs(b) PROVE b \in {118, 169, 136, 172}
  BY <1>1, PayingOpcode
<1>2. ~OpConstant
  <2>1. \A b \in ConstantOps : b \notin {118, 169, 136, 172}
    BY DEF ConstantOps
  <2>2. QED
    BY <1>1, <2>1 DEF OpConstant
<1>3. ~OpEqual
  <2>1. 135 \notin {118, 169, 136, 172}
    OBVIOUS
  <2>2. QED
    BY <1>1, <2>1 DEF OpEqual
<1>4. QED
  BY <1>2, <1>3

\* A paying script fails only where Paid allows it.
LEMMA FailsPays ==
    ASSUME ScriptInv, Stacks, HashesToBytes, NEW h, Paying(h), Paid(h), Fails
    PROVE  Paid(h)'
<1> DEFINE n == Len(unlocked)
           b == instructions[k].op
<1>1. /\ Executing /\ "op" \in DOMAIN instructions[k]
      /\ pc' = "err" /\ unlocked' = unlocked
      /\ \/ b \notin DOMAIN Needs
         \/ b \in DOMAIN Needs /\ Len(stack) < Needs[b]
         \/ b = 136 /\ Top(1) # Top(2)
  BY DEF Fails
<1>2. instructions[k] = [op |-> b] /\ Runs(b) /\ pc = "execute" /\ k \in 1 .. Len(instructions)
  <2>1. pc = "execute" /\ k <= Len(instructions)
    BY <1>1 DEF Executing
  <2>2. k \in 1 .. Len(instructions)
    <3>1. Len(instructions) = 5 /\ k \in 1 .. 6
      BY <2>1, PayingScript
    <3>2. QED
      BY <2>1, <3>1
  <2>3. instructions[k] \in Instruction
    BY <2>2, ElementOfSeq DEF ScriptInv, Reading
  <2>4. instructions[k] = [op |-> b]
    BY <1>1, <2>3 DEF Instruction
  <2>5. QED
    BY <1>1, <2>1, <2>2, <2>4 DEF Runs
<1>3. /\ k \in {1, 2, 4, 5}
      /\ k = 1 => b = 118
      /\ k = 2 => b = 169
      /\ k = 4 => b = 136
      /\ k = 5 => b = 172
  BY <1>2, PayingOpcode
<1> HIDE DEF b
<1>4. n \in Nat /\ unlocked \in Seq(ByteSeq) /\ Reached(h, k)
  BY <1>2, PayingStack
<1>5. n < 2 \/ Hash160(unlocked[n]) # h
  <2>1. CASE k = 1
    <3>1. b = 118 /\ stack = unlocked
      BY <1>3, <1>4, <2>1 DEF Reached
    <3>2. Len(stack) < 1
      BY <1>1, <3>1, NeedsAre
    <3>3. QED
      BY <1>4, <3>1, <3>2
  <2>2. CASE k = 2
    <3>1. b = 169 /\ n >= 1 /\ stack = Append(unlocked, unlocked[n])
      BY <1>3, <1>4, <2>2 DEF Reached
    <3>2. Len(stack) < 1
      BY <1>1, <3>1, NeedsAre
    <3>3. unlocked[n] \in ByteSeq
      BY <1>2, <3>1, PayingStack
    <3>4. Len(stack) = n + 1
      BY <1>4, <3>1, <3>3, UnderOne
    <3>5. QED
      BY <1>4, <3>2, <3>4
  <2>3. CASE k = 4
    <3>1. b = 136
      BY <1>3, <2>3
    <3>2. Len(stack) >= 2 /\ Top(1) = h /\ Top(2) = Hash160(unlocked[n])
      BY <1>2, <2>3, TwoOnTop
    <3>3. Len(stack) \in Nat
      BY LenProperties DEF Stacks
    <3>4. Top(1) # Top(2)
      BY <1>1, <3>1, <3>2, <3>3, NeedsAre
    <3>5. QED
      BY <3>2, <3>4
  <2>4. CASE k = 5
    <3>1. b = 172 /\ stack = unlocked
      BY <1>3, <1>4, <2>4 DEF Reached
    <3>2. Len(stack) < 2
      BY <1>1, <3>1, NeedsAre
    <3>3. QED
      BY <3>1, <3>2
  <2>5. QED
    BY <1>3, <2>1, <2>2, <2>3, <2>4
<1>6. QED
  BY <1>1, <1>5 DEF Paid

\* A step of the parser, or the end of a script, leaves the stack alone.
LEMMA ParsePays ==
    ASSUME ScriptInv, NEW h, Paid(h), Parse
    PROVE  Paid(h)'
<1>1. /\ pc = "parse" /\ UNCHANGED <<input, stack, turn, unlocked>>
      /\ pc' = "parse" \/ (pc' = "execute" /\ k' = 1)
  BY DEF Parse, ParseOp, ParsePush, ParseTruncated, ParseEnds, Parsing
<1>2. Paying(h)' = Paying(h)
  BY <1>1 DEF Paying, input
<1>3. Paying(h) => stack' = unlocked'
  BY <1>1 DEF Paid
<1>4. stack' = unlocked' => Reached(h, 1)'
  BY DEF Reached
<1>5. QED
  BY <1>1, <1>2, <1>3, <1>4 DEF Paid

\* Every step keeps Paid.
LEMMA PaidStep ==
    ASSUME HashesToBytes, ScriptInv, Stacks, NEW h, Paid(h), [Next]_vars
    PROVE  Paid(h)'
<1>1. CASE Parse
  BY <1>1, ParsePays
<1>2. CASE UnlockEnds
  BY <1>2 DEF UnlockEnds, Paid
<1>3. CASE LockEnds
  <2>1. /\ pc = "execute" /\ pc' = "ok" /\ UNCHANGED <<input, k, stack, turn, unlocked>>
    BY <1>3 DEF LockEnds
  <2>2. Paying(h)' = Paying(h) /\ Reached(h, k)' = Reached(h, k)
    BY <2>1 DEF Paying, Reached, input
  <2>3. QED
    BY <2>1, <2>2 DEF Paid
<1>4. CASE UNCHANGED vars
  BY <1>4 DEF vars, input, Paid, Paying, Reached
<1>5. CASE PushData \/ OpConstant \/ OpDup \/ OpHash160 \/ OpEqual \/ OpEqualVerify \/ OpCheckSig \/ Fails
  <2>1. Paying(h)' = Paying(h)
    BY <1>5 DEF PushData, OpConstant, OpDup, OpHash160, OpEqual, OpEqualVerify, OpCheckSig,
                Fails, Then, Paying, input
  <2>2. CASE Paying(h)
    BY <1>5, <2>2, PushPays, DupPays, HashPays, EqualVerifyPays, CheckSigPays, FailsPays,
       OthersDoNotRun
  <2>3. CASE ~Paying(h)
    BY <2>1, <2>3 DEF Paid
  <2>4. QED
    BY <2>2, <2>3
<1>6. QED
  BY <1>1, <1>2, <1>3, <1>4, <1>5 DEF Next, Execute

\* What a P2PKH output accepts, for any two scripts, any hash function and any
\* signature scheme: success is a key with the hash h on top of the stack the
\* unlocking script left, with an item below it that decides the result.
THEOREM ScriptP2PKHOutcome == HashesToBytes => (Spec => []P2PKHOutcome)
<1> SUFFICES ASSUME HashesToBytes PROVE Spec => []P2PKHOutcome
  OBVIOUS
<1> DEFINE AllPaid == \A h : Paid(h)
<1>1. Init => AllPaid
  BY DEF Init, Paid, Paying
<1>2. ScriptInv /\ Stacks /\ AllPaid /\ [Next]_vars => AllPaid'
  BY PaidStep
<1>3. ScriptInv /\ AllPaid => P2PKHOutcome
  <2> SUFFICES ASSUME ScriptInv, AllPaid, NEW j \in DOMAIN chunks[2],
                      "push" \in DOMAIN chunks[2][j],
                      IsP2PKH(chunks[2], chunks[2][j].push), turn = 2, cut[2] = 0
               PROVE  LET h == chunks[2][j].push
                          n == Len(unlocked)
                      IN  /\ pc = "ok" =>
                                 /\ n >= 2 /\ Hash160(unlocked[n]) = h
                                 /\ stack = Append(SubSeq(unlocked, 1, n - 2),
                                        IF SignatureIsGood(unlocked[n], unlocked[n - 1])
                                        THEN True ELSE False)
                          /\ pc = "err" => n < 2 \/ Hash160(unlocked[n]) # h
    BY DEF P2PKHOutcome
  <2> DEFINE h == chunks[2][j].push
  <2>1. Paying(h) /\ Paid(h)
    BY DEF Paying
  <2>2. ASSUME pc = "ok" PROVE k = 6
    <3>1. k = Len(instructions) + 1
      BY <2>2 DEF ScriptInv, NoInvalid
    <3>2. Len(instructions) = 5
      BY <2>1, <2>2, PayingScript
    <3>3. 5 + 1 = 6
      OBVIOUS
    <3>4. QED
      BY <3>1, <3>2, <3>3, Zenon
  <2>3. pc = "ok" => Reached(h, 6)
    BY <2>1, <2>2 DEF Paid
  <2>4. pc = "err" => Len(unlocked) < 2 \/ Hash160(unlocked[Len(unlocked)]) # h
    BY <2>1 DEF Paid
  <2> HIDE DEF h
  <2>5. QED
    BY <2>3, <2>4 DEF Reached, h
<1> HIDE DEF AllPaid
<1>4. QED
  BY <1>1, <1>2, <1>3, ScriptStacks, PTL DEF Spec

====
