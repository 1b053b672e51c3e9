---- MODULE MessageStreamProofs ----
(***************************************************************************)
(* Proofs about one connection's byte stream: wherever TCP cuts it, the      *)
(* messages processed are those sent, in order, nothing that could be        *)
(* processed is left in the buffer, and actions are performed in order.     *)
(***************************************************************************)
EXTENDS MessageStream, SequenceLemmas

---------------------------------------------------------------------------
\* The inductive invariant, in parts.

Cell      == [frame : Nat, at : Nat]
CellSeq   == Seq(Cell)
Acts      == UNION {Range(process(m)) : m \in Messages}
ActionSeq == Seq(Acts)

\* The frames of s after the first n, and the actions its first n call for.
Rest(s, n)  == [k \in 1 .. Len(s) - n |->
                   LET i == n + k IN Cells(i, FrameLen(s[i]))]
Calls(s, n) == [k \in 1 .. n |-> process(s[k])]

Types ==
    /\ sent \in Seq(Messages) /\ Len(sent) <= MaxFrames
    /\ pending \in Seq(Cell) /\ wire \in Seq(Cell)
    /\ actions \in Seq(Acts) /\ performed \in Seq(Acts)
    /\ pc \in {"read", "parse", "act", "closed"}

\* The frames processed are the first ones, each once and in order.
InOrder ==
    /\ Len(processed) \in Nat /\ Len(processed) <= Len(sent)
    /\ processed = [i \in 1 .. Len(processed) |-> i]

\* Each byte that is not yet parsed is a byte of a frame that was sent.
CellsOfFrames ==
    \A k \in 1 .. Len(pending \o wire) :
        LET c == (pending \o wire)[k]
        IN  c.frame \in 1 .. Len(sent) /\ c.at \in 1 .. FrameLen(sent[c.frame])

\* The bytes that are not yet parsed are the frames not yet processed.
RestIsThere == pending \o wire = FlattenSeq(Rest(sent, Len(processed)))

\* What was performed and what is still to be performed is what was called for.
CallsAreKept ==
    /\ FlattenSeq(Calls(sent, Len(processed))) = performed \o actions
    /\ pc \in {"read", "parse"} => actions = <<>>
    /\ pc = "act" => actions # <<>>

StreamInv ==
    /\ Types /\ InOrder /\ CellsOfFrames /\ RestIsThere
    /\ NothingLeftUnparsed /\ CallsAreKept

---------------------------------------------------------------------------
\* What a frame is made of, and what a message calls for.

\* The sizes of frames and reads are positive numbers.
LEMMA Sizes ==
    /\ HeaderLen \in Nat /\ HeaderLen > 0 /\ ReadSize \in Nat /\ ReadSize > 0
    /\ MaxFrames \in Nat
    /\ \A m \in Messages : FrameLen(m) \in Nat /\ FrameLen(m) > 0
BY StreamAssumption DEF FrameLen

\* The n bytes of frame i, one by one.
LEMMA CellsType ==
    ASSUME NEW i \in Nat, NEW n \in Nat
    PROVE  /\ Cells(i, n) \in CellSeq /\ Len(Cells(i, n)) = n
           /\ \A k \in 1 .. n : Cells(i, n)[k] = [frame |-> i, at |-> k]
BY DEF Cells, CellSeq, Cell

\* Processing a message calls for a sequence of actions.
LEMMA ProcessType ==
    ASSUME NEW m \in Messages
    PROVE  process(m) \in ActionSeq
<1>1. \E n \in 0 .. 2 : process(m) = [i \in 1 .. n |-> process(m)[i]]
  <2>1. \/ process(m) = <<>>
        \/ \E a : process(m) = <<a>>
        \/ \E a, b : process(m) = <<a, b>>
    BY DEF process
  <2>2. QED
    BY <2>1
<1>2. PICK n \in 0 .. 2 : process(m) = [i \in 1 .. n |-> process(m)[i]]
  BY <1>1
<1> DEFINE p == process(m)
<1>3. \A i \in 1 .. n : p[i] \in Acts
  <2> SUFFICES ASSUME NEW i \in 1 .. n PROVE p[i] \in Range(p)
    BY DEF Acts
  <2>1. DOMAIN p = 1 .. n
    <3> HIDE DEF p
    <3> QED
      BY <1>2 DEF p
  <2>2. QED
    BY <2>1, Zenon DEF Range
<1> HIDE DEF p
<1>4. p = [i \in 1 .. n |-> p[i]]
  BY <1>2, Zenon DEF p
<1>5. p \in Seq(Acts)
  BY <1>3, <1>4
<1>6. QED
  BY <1>5, Zenon DEF p, ActionSeq

\* FlattenSeq on sequences of frames and on sequences of calls.
LEMMA FlattenFrames ==
    /\ FlattenSeq(<<>>) = <<>>
    /\ \A ss \in Seq(CellSeq) : FlattenSeq(ss) \in Seq(Cell)
    /\ \A ss \in Seq(CellSeq) : \A s \in CellSeq :
           FlattenSeq(Append(ss, s)) = FlattenSeq(ss) \o s
    /\ \A ss, tt \in Seq(CellSeq) :
           FlattenSeq(ss \o tt) = FlattenSeq(ss) \o FlattenSeq(tt)
<1>1. CellSeq = Seq(Cell)
  BY Zenon DEF CellSeq
<1>2. \A ss, tt \in Seq(CellSeq) :
          FlattenSeq(ss \o tt) = FlattenSeq(ss) \o FlattenSeq(tt)
  BY <1>1, FlattenConcat
<1>3. FlattenSeq(<<>>) = <<>>
  BY FlattenAppend
<1>4. \A ss \in Seq(CellSeq) : FlattenSeq(ss) \in Seq(Cell)
  <2>1. <<>> \in Seq(Cell)
    OBVIOUS
  <2>2. QED
    BY <1>1, <2>1, FlattenAppend, Zenon
<1>5. \A ss \in Seq(CellSeq) : \A s \in CellSeq :
          FlattenSeq(Append(ss, s)) = FlattenSeq(ss) \o s
  BY <1>1, FlattenAppend, Zenon
<1>6. QED
  BY <1>2, <1>3, <1>4, <1>5, Zenon

\* FlattenSeq on lists of actions: none, and one list more.
LEMMA FlattenActions ==
    /\ FlattenSeq(<<>>) = <<>>
    /\ \A ss \in Seq(ActionSeq) : FlattenSeq(ss) \in Seq(Acts)
    /\ \A ss \in Seq(ActionSeq) : \A s \in ActionSeq :
           FlattenSeq(Append(ss, s)) = FlattenSeq(ss) \o s
<1>1. ActionSeq = Seq(Acts)
  BY Zenon DEF ActionSeq
<1>2. FlattenSeq(<<>>) = <<>>
  BY FlattenAppend
<1>3. \A ss \in Seq(ActionSeq) : FlattenSeq(ss) \in Seq(Acts)
  <2>1. <<>> \in Seq(Acts)
    OBVIOUS
  <2>2. QED
    BY <1>1, <2>1, FlattenAppend, Zenon
<1>4. \A ss \in Seq(ActionSeq) : \A s \in ActionSeq :
          FlattenSeq(Append(ss, s)) = FlattenSeq(ss) \o s
  BY <1>1, FlattenAppend, Zenon
<1>5. QED
  BY <1>2, <1>3, <1>4, Zenon

---------------------------------------------------------------------------
\* The frames after the first n, when one is sent and when one is taken.

\* The frames after the first n, one by one.
LEMMA RestType ==
    ASSUME NEW s \in Seq(Messages), NEW n \in Nat, n <= Len(s)
    PROVE  /\ Rest(s, n) \in Seq(CellSeq) /\ Len(Rest(s, n)) = Len(s) - n
           /\ \A k \in 1 .. Len(s) - n :
                  Rest(s, n)[k] = Cells(n + k, FrameLen(s[n + k]))
<1>1. Len(s) \in Nat /\ Len(s) - n \in Nat
  BY LenProperties
<1>2. ASSUME NEW k \in 1 .. Len(s) - n
      PROVE  Cells(n + k, FrameLen(s[n + k])) \in CellSeq
  <2>1. n + k \in 1 .. Len(s) /\ n + k \in Nat
    BY <1>1
  <2>2. s[n + k] \in Messages
    BY <2>1, ElementOfSeq
  <2>3. FrameLen(s[n + k]) \in Nat
    BY <2>2, Sizes
  <2>4. QED
    BY <2>1, <2>3, CellsType
<1>3. Rest(s, n) = [k \in 1 .. Len(s) - n |-> Cells(n + k, FrameLen(s[n + k]))]
  BY Zenon DEF Rest
<1>4. QED
  BY <1>1, <1>2, <1>3

\* A message sent adds its bytes at the end of what is left to process.
LEMMA RestSend ==
    ASSUME NEW s \in Seq(Messages), NEW n \in Nat, n <= Len(s), NEW m \in Messages
    PROVE  FlattenSeq(Rest(Append(s, m), n))
               = FlattenSeq(Rest(s, n)) \o Cells(Len(s) + 1, FrameLen(m))
<1> DEFINE t == Append(s, m)
           c == Cells(Len(s) + 1, FrameLen(m))
<1>1. /\ t \in Seq(Messages) /\ Len(t) = Len(s) + 1 /\ t[Len(s) + 1] = m
      /\ \A i \in 1 .. Len(s) : t[i] = s[i]
      /\ Len(s) \in Nat
  BY AppendProperties, LenProperties
<1>2. c \in CellSeq
  BY <1>1, CellsType, Sizes
<1> HIDE DEF t
<1> DEFINE r == Rest(s, n)
           q == Rest(t, n)
<1>3. /\ r \in Seq(CellSeq) /\ Len(r) = Len(s) - n
      /\ \A k \in 1 .. Len(s) - n : r[k] = Cells(n + k, FrameLen(s[n + k]))
  BY <1>1, RestType
<1>4. /\ q \in Seq(CellSeq) /\ Len(q) = Len(s) - n + 1
      /\ \A k \in 1 .. Len(s) - n + 1 : q[k] = Cells(n + k, FrameLen(t[n + k]))
  <2>1. n <= Len(t) /\ Len(t) - n = Len(s) - n + 1
    BY <1>1
  <2>2. /\ q \in Seq(CellSeq) /\ Len(q) = Len(t) - n
        /\ \A k \in 1 .. Len(t) - n : q[k] = Cells(n + k, FrameLen(t[n + k]))
    BY <1>1, <2>1, RestType
  <2> HIDE DEF q
  <2>3. QED
    BY <2>1, <2>2
<1> HIDE DEF r, q
<1>5. ASSUME NEW k \in 1 .. Len(s) - n PROVE q[k] = r[k]
  <2>1. k \in 1 .. Len(s) - n + 1 /\ n + k \in 1 .. Len(s)
    BY <1>1
  <2>2. t[n + k] = s[n + k]
    BY <1>1, <2>1
  <2>3. QED
    BY <1>3, <1>4, <2>1, <2>2
<1>6. q[Len(s) - n + 1] = c
  <2>1. n + (Len(s) - n + 1) = Len(s) + 1 /\ Len(s) - n + 1 \in 1 .. Len(s) - n + 1
    BY <1>1
  <2>2. QED
    BY <1>1, <1>4, <2>1
<1> HIDE DEF c
<1>7. q = Append(r, c)
  <2>1. /\ Append(r, c) \in Seq(CellSeq) /\ Len(Append(r, c)) = Len(r) + 1
        /\ Append(r, c)[Len(r) + 1] = c
        /\ \A k \in 1 .. Len(r) : Append(r, c)[k] = r[k]
    BY <1>2, <1>3, AppendProperties
  <2>2. \A k \in 1 .. Len(q) : q[k] = Append(r, c)[k]
    BY <1>1, <1>3, <1>4, <1>5, <1>6, <2>1
  <2>3. QED
    BY <1>3, <1>4, <2>1, <2>2, SeqEqual
<1>8. FlattenSeq(q) = FlattenSeq(r) \o c
  BY <1>2, <1>3, <1>7, FlattenFrames
<1>9. QED
  BY <1>8 DEF q, r, t, c

\* What is left to process begins with the bytes of the next frame.
LEMMA RestTaken ==
    ASSUME NEW s \in Seq(Messages), NEW n \in Nat, n < Len(s)
    PROVE  FlattenSeq(Rest(s, n))
               = Cells(n + 1, FrameLen(s[n + 1])) \o FlattenSeq(Rest(s, n + 1))
<1> DEFINE r == Rest(s, n)
           q == Rest(s, n + 1)
           c == Cells(n + 1, FrameLen(s[n + 1]))
<1>1. /\ Len(s) \in Nat /\ n + 1 \in 1 .. Len(s) /\ n + 1 \in Nat
      /\ n <= Len(s) /\ n + 1 <= Len(s)
  BY LenProperties
<1>2. c \in CellSeq
  <2>1. s[n + 1] \in Messages
    BY <1>1, ElementOfSeq
  <2>2. FrameLen(s[n + 1]) \in Nat
    BY <2>1, Sizes
  <2>3. QED
    BY <1>1, <2>2, CellsType
<1>3. /\ r \in Seq(CellSeq) /\ Len(r) = Len(s) - n
      /\ \A k \in 1 .. Len(s) - n : r[k] = Cells(n + k, FrameLen(s[n + k]))
  BY <1>1, RestType
<1>4. /\ q \in Seq(CellSeq) /\ Len(q) = Len(s) - (n + 1)
      /\ \A k \in 1 .. Len(s) - (n + 1) :
             q[k] = Cells((n + 1) + k, FrameLen(s[(n + 1) + k]))
  BY <1>1, RestType
<1>5. r[1] = c
  BY <1>1, <1>3
<1> HIDE DEF r, q, c
<1>6. \A k \in 1 .. Len(q) : r[1 + k] = q[k]
  <2> SUFFICES ASSUME NEW k \in 1 .. Len(q) PROVE r[1 + k] = q[k]
    OBVIOUS
  <2>1. 1 + k \in 1 .. Len(s) - n /\ n + (1 + k) = (n + 1) + k
        /\ k \in 1 .. Len(s) - (n + 1)
    BY <1>1, <1>4
  <2>2. r[1 + k] = Cells(n + (1 + k), FrameLen(s[n + (1 + k)]))
    BY <1>3, <2>1
  <2>3. QED
    BY <1>4, <2>1, <2>2
<1>7. r = <<c>> \o q
  <2>1. Len(r) = Len(q) + 1
    BY <1>1, <1>3, <1>4
  <2>2. StartsWith(r, c, q)
    BY <1>5, <1>6, <2>1 DEF StartsWith
  <2>3. QED
    BY <1>2, <1>3, <1>4, <2>2, FirstAndRest
<1>8. FlattenSeq(<<c>>) = c
  <2>1. <<>> \in Seq(CellSeq) /\ Append(<<>>, c) = <<c>>
    BY <1>2
  <2>2. FlattenSeq(Append(<<>>, c)) = FlattenSeq(<<>>) \o c
    BY <1>2, <2>1, FlattenFrames
  <2>3. <<>> \o c = c
    BY <1>2, ConcatEmptySeq DEF CellSeq
  <2>4. QED
    BY <2>1, <2>2, <2>3, FlattenFrames
<1>9. FlattenSeq(r) = c \o FlattenSeq(q)
  <2>1. <<c>> \in Seq(CellSeq)
    BY <1>2
  <2>2. QED
    BY <1>4, <1>7, <1>8, <2>1, FlattenFrames
<1>10. QED
  BY <1>9 DEF r, q, c

\* Nothing is left after the last.
LEMMA RestOfAll ==
    ASSUME NEW s \in Seq(Messages)
    PROVE  FlattenSeq(Rest(s, Len(s))) = <<>>
<1>1. Len(s) \in Nat /\ Len(s) - Len(s) = 0
  BY LenProperties
<1> DEFINE r == Rest(s, Len(s))
<1>2. r \in Seq(CellSeq) /\ Len(r) = 0
  BY <1>1, RestType
<1> HIDE DEF r
<1>3. r = <<>>
  BY <1>2, EmptySeq
<1>4. QED
  BY <1>3, FlattenFrames DEF r

---------------------------------------------------------------------------
\* The calls of the first n messages, when one is sent and when one is taken.

\* The calls for the first n messages, one list for each.
LEMMA CallsType ==
    ASSUME NEW s \in Seq(Messages), NEW n \in Nat, n <= Len(s)
    PROVE  /\ Calls(s, n) \in Seq(ActionSeq) /\ Len(Calls(s, n)) = n
           /\ \A k \in 1 .. n : Calls(s, n)[k] = process(s[k])
<1>1. \A k \in 1 .. n : s[k] \in Messages
  BY LenProperties, ElementOfSeq
<1>2. \A k \in 1 .. n : process(s[k]) \in ActionSeq
  BY <1>1, ProcessType
<1>3. Calls(s, n) = [k \in 1 .. n |-> process(s[k])]
  BY Zenon DEF Calls
<1>4. QED
  BY <1>2, <1>3

\* One more message processed adds its calls at the end.
LEMMA CallsTaken ==
    ASSUME NEW s \in Seq(Messages), NEW n \in Nat, n < Len(s)
    PROVE  FlattenSeq(Calls(s, n + 1)) = FlattenSeq(Calls(s, n)) \o process(s[n + 1])
<1> DEFINE c == Calls(s, n)
           d == Calls(s, n + 1)
           p == process(s[n + 1])
<1>1. n + 1 \in Nat /\ n + 1 <= Len(s) /\ n <= Len(s) /\ n + 1 \in 1 .. Len(s)
  BY LenProperties
<1>2. p \in ActionSeq
  BY <1>1, ElementOfSeq, ProcessType
<1>3. /\ c \in Seq(ActionSeq) /\ Len(c) = n
      /\ \A k \in 1 .. n : c[k] = process(s[k])
  BY <1>1, CallsType
<1>4. /\ d \in Seq(ActionSeq) /\ Len(d) = n + 1
      /\ \A k \in 1 .. n + 1 : d[k] = process(s[k])
  BY <1>1, CallsType
<1>5. d[n + 1] = p
  BY <1>4
<1> HIDE DEF c, d, p
<1>6. /\ Append(c, p) \in Seq(ActionSeq) /\ Len(Append(c, p)) = n + 1
      /\ Append(c, p)[n + 1] = p
      /\ \A k \in 1 .. n : Append(c, p)[k] = c[k]
  BY <1>2, <1>3, AppendProperties
<1>7. \A k \in 1 .. Len(d) : d[k] = Append(c, p)[k]
  BY <1>3, <1>4, <1>5, <1>6
<1>8. d = Append(c, p)
  BY <1>4, <1>6, <1>7, SeqEqual
<1>9. FlattenSeq(d) = FlattenSeq(c) \o p
  BY <1>2, <1>3, <1>8, FlattenActions
<1>10. QED
  BY <1>9 DEF c, d, p

\* A message sent changes nothing of the calls for earlier ones.
LEMMA CallsSend ==
    ASSUME NEW s \in Seq(Messages), NEW n \in Nat, n <= Len(s), NEW m \in Messages
    PROVE  Calls(Append(s, m), n) = Calls(s, n)
<1>1. \A k \in 1 .. n : Append(s, m)[k] = s[k]
  BY AppendProperties, LenProperties
<1>2. QED
  BY <1>1 DEF Calls

\* No message processed calls for nothing.
LEMMA CallsOfNone ==
    ASSUME NEW s PROVE FlattenSeq(Calls(s, 0)) = <<>>
<1>1. Calls(s, 0) = <<>>
  BY DEF Calls
<1>2. QED
  BY <1>1, FlattenActions

---------------------------------------------------------------------------
\* The invariant is inductive.

\* A frame looked at is a frame that was sent, so that what was sent since
\* changes nothing about it.
LEMMA FrontIsSent ==
    ASSUME Types, CellsOfFrames, Len(pending) > 0
    PROVE  pending[1].frame \in 1 .. Len(sent) /\ sent[pending[1].frame] \in Messages
<1>1. pending \in Seq(Cell) /\ wire \in Seq(Cell) /\ sent \in Seq(Messages)
  BY DEF Types
<1>2. /\ Len(pending \o wire) = Len(pending) + Len(wire)
      /\ (pending \o wire)[1] = pending[1] /\ 1 \in 1 .. Len(pending \o wire)
  BY <1>1, ConcatParts, LenProperties
<1>3. pending[1].frame \in 1 .. Len(sent)
  BY <1>2 DEF CellsOfFrames
<1>4. QED
  BY <1>1, <1>3, ElementOfSeq

\* StreamInv holds when the connection opens.
LEMMA InitInv == Init => StreamInv
<1> SUFFICES ASSUME Init PROVE StreamInv
  OBVIOUS
<1>1. /\ sent = <<>> /\ wire = <<>> /\ pending = <<>> /\ pc = "read"
      /\ actions = <<>> /\ processed = <<>> /\ performed = <<>>
  BY DEF Init
<1>2. pending \o wire = <<>> /\ performed \o actions = <<>> /\ Len(sent) = 0
  BY <1>1
<1>3. Types
  BY <1>1, Sizes DEF Types
<1>4. InOrder
  BY <1>1 DEF InOrder
<1>5. CellsOfFrames
  BY <1>2 DEF CellsOfFrames
<1>6. RestIsThere
  <2>1. FlattenSeq(Rest(sent, Len(sent))) = <<>>
    BY <1>3, RestOfAll DEF Types
  <2>2. QED
    BY <1>1, <1>2, <2>1 DEF RestIsThere
<1>7. NothingLeftUnparsed
  <2>1. Len(pending) = 0
    BY <1>1
  <2>2. QED
    BY <2>1, Sizes DEF NothingLeftUnparsed, Yields
<1>8. CallsAreKept
  <2>1. Len(processed) = 0
    BY <1>1
  <2>2. FlattenSeq(Calls(sent, Len(processed))) = <<>>
    BY <2>1, CallsOfNone
  <2>3. QED
    BY <1>1, <1>2, <2>2 DEF CallsAreKept
<1>9. QED
  BY <1>3, <1>4, <1>5, <1>6, <1>7, <1>8 DEF StreamInv

\* A message sent lengthens the wire by the bytes of its frame.
LEMMA SendStep ==
    ASSUME StreamInv, NEW m \in Messages, Send(m)
    PROVE  StreamInv'
<1> DEFINE n == Len(processed)
           f == Cells(Len(sent) + 1, FrameLen(m))
<1>1. /\ sent \in Seq(Messages) /\ pending \in Seq(Cell) /\ wire \in Seq(Cell)
      /\ n \in Nat /\ n <= Len(sent) /\ Len(sent) \in Nat
  BY LenProperties DEF StreamInv, Types, InOrder
<1>2. /\ sent' = Append(sent, m) /\ wire' = wire \o f
      /\ pending' = pending /\ pc' = pc /\ actions' = actions
      /\ processed' = processed /\ performed' = performed
      /\ Len(sent) < MaxFrames
  BY DEF Send
<1>3. /\ sent' \in Seq(Messages) /\ Len(sent') = Len(sent) + 1
      /\ sent'[Len(sent) + 1] = m /\ \A i \in 1 .. Len(sent) : sent'[i] = sent[i]
  BY <1>1, <1>2, AppendProperties
<1>4. /\ f \in Seq(Cell) /\ Len(f) = FrameLen(m) /\ FrameLen(m) \in Nat
      /\ \A k \in 1 .. FrameLen(m) : f[k] = [frame |-> Len(sent) + 1, at |-> k]
  BY <1>1, CellsType, Sizes DEF CellSeq
<1> HIDE DEF f
<1>5. Types'
  <2>1. wire' \in Seq(Cell)
    BY <1>1, <1>2, <1>4
  <2>2. Len(sent') <= MaxFrames
    BY <1>1, <1>2, <1>3, Sizes
  <2>3. QED
    BY <1>2, <1>3, <2>1, <2>2 DEF StreamInv, Types
<1>6. InOrder'
  BY <1>1, <1>2, <1>3 DEF StreamInv, InOrder
<1>7. pending' \o wire' = (pending \o wire) \o f
  <2>1. f \in Seq(Cell) /\ pending \in Seq(Cell) /\ wire \in Seq(Cell)
    BY <1>1, <1>4
  <2>2. (pending \o wire) \o f = pending \o (wire \o f)
    BY <2>1, ConcatThree
  <2>3. QED
    BY <1>2, <2>2
<1>8. CellsOfFrames'
  <2> DEFINE b == pending \o wire
             d == pending' \o wire'
  <2>1. b \in Seq(Cell)
    BY <1>1, ConcatParts
  <2>2. /\ Len(d) = Len(b) + Len(f)
        /\ \A i \in 1 .. Len(b) : d[i] = b[i]
        /\ \A i \in 1 .. Len(f) : d[Len(b) + i] = f[i]
    <3> HIDE DEF b
    <3>1. d = b \o f
      BY <1>7 DEF b
    <3> HIDE DEF d
    <3>2. f \in Seq(Cell)
      BY <1>4
    <3>3. QED
      BY <2>1, <3>1, <3>2, ConcatParts
  <2>3. \A i \in 1 .. Len(b) :
            b[i].frame \in 1 .. Len(sent) /\ b[i].at \in 1 .. FrameLen(sent[b[i].frame])
    BY DEF StreamInv, CellsOfFrames
  <2>4. Len(b) \in Nat
    BY <2>1, LenProperties
  <2> HIDE DEF b, d
  <2>5. ASSUME NEW k \in 1 .. Len(d)
        PROVE  d[k].frame \in 1 .. Len(sent') /\ d[k].at \in 1 .. FrameLen(sent'[d[k].frame])
    <3>1. CASE k <= Len(b)
      <4>1. d[k] = b[k] /\ b[k].frame \in 1 .. Len(sent)
            /\ b[k].at \in 1 .. FrameLen(sent[b[k].frame])
        BY <2>2, <2>3, <2>4, <3>1
      <4>2. sent'[b[k].frame] = sent[b[k].frame] /\ b[k].frame \in 1 .. Len(sent')
        BY <1>1, <1>3, <4>1
      <4>3. QED
        BY <4>1, <4>2
    <3>2. CASE k > Len(b)
      <4>1. k - Len(b) \in 1 .. Len(f) /\ Len(b) + (k - Len(b)) = k
        BY <1>4, <2>2, <2>4, <3>2
      <4>2. d[k] = [frame |-> Len(sent) + 1, at |-> k - Len(b)]
        BY <1>4, <2>2, <4>1
      <4>3. sent'[d[k].frame] = m
        BY <1>3, <4>2
      <4>4. QED
        BY <1>1, <1>3, <1>4, <4>1, <4>2, <4>3
    <3>3. QED
      BY <2>4, <3>1, <3>2
  <2>6. QED
    BY <2>5 DEF CellsOfFrames, d
<1>9. RestIsThere'
  <2>1. FlattenSeq(Rest(sent', n)) = FlattenSeq(Rest(sent, n)) \o f
    BY <1>1, <1>2, RestSend DEF f
  <2>2. pending \o wire = FlattenSeq(Rest(sent, n))
    BY DEF StreamInv, RestIsThere
  <2>3. QED
    BY <1>2, <1>7, <2>1, <2>2 DEF RestIsThere
<1>10. NothingLeftUnparsed'
  <2> SUFFICES ASSUME pc = "read", Yields(pending)' PROVE FALSE
    BY <1>2 DEF NothingLeftUnparsed
  <2>1. Len(pending) > 0 /\ Len(pending) \in Nat
    BY <1>1, <1>2, LenProperties, Sizes DEF Yields
  <2>2. sent'[pending[1].frame] = sent[pending[1].frame]
    BY <1>3, <2>1, FrontIsSent DEF StreamInv
  <2>3. Yields(pending)
    BY <1>2, <2>2 DEF Yields
  <2>4. QED
    BY <2>3 DEF StreamInv, NothingLeftUnparsed
<1>11. CallsAreKept'
  <2>1. Calls(sent', n) = Calls(sent, n)
    BY <1>1, <1>2, CallsSend
  <2>2. QED
    BY <1>2, <2>1 DEF StreamInv, CallsAreKept
<1>12. QED
  BY <1>5, <1>6, <1>8, <1>9, <1>10, <1>11 DEF StreamInv

\* A read moves bytes from the wire to the buffer.
LEMMA ReadStep ==
    ASSUME StreamInv, Read
    PROVE  StreamInv'
<1>1. /\ pending \in Seq(Cell) /\ wire \in Seq(Cell)
      /\ sent' = sent /\ actions' = actions
      /\ processed' = processed /\ performed' = performed
      /\ pc = "read" /\ pc' = "parse"
  BY DEF StreamInv, Types, Read
<1>2. PICK n \in 1 .. ReadSize :
          /\ n <= Len(wire)
          /\ pending' = pending \o SubSeq(wire, 1, n)
          /\ wire' = SubSeq(wire, n + 1, Len(wire))
  BY DEF Read
<1> DEFINE a == SubSeq(wire, 1, n)
           b == SubSeq(wire, n + 1, Len(wire))
<1>3. a \in Seq(Cell) /\ b \in Seq(Cell) /\ a \o b = wire
  <2>1. n \in 0 .. Len(wire)
    BY <1>1, <1>2, LenProperties, Sizes
  <2>2. QED
    BY <1>1, <2>1, CutAndJoin
<1> HIDE DEF a, b
<1>4. pending' = pending \o a /\ wire' = b
  BY <1>2 DEF a, b
<1>5. pending' \in Seq(Cell) /\ wire' \in Seq(Cell)
  BY <1>1, <1>3, <1>4, ConcatParts
\* A read moves bytes from the wire to the buffer, and their sequence stays.
<1>6. pending' \o wire' = pending \o wire
  <2>1. (pending \o a) \o b = pending \o (a \o b)
    <3>1. pending \in Seq(Cell) /\ a \in Seq(Cell) /\ b \in Seq(Cell)
      BY <1>1, <1>3
    <3>2. QED
      BY <3>1, ConcatThree
  <2>2. QED
    BY <1>3, <1>4, <2>1
<1>7. Types'
  BY <1>1, <1>5 DEF StreamInv, Types
<1>8. CellsOfFrames' /\ RestIsThere' /\ InOrder'
  BY <1>1, <1>6 DEF StreamInv, CellsOfFrames, RestIsThere, InOrder
<1>9. NothingLeftUnparsed' /\ CallsAreKept'
  BY <1>1 DEF StreamInv, NothingLeftUnparsed, CallsAreKept
<1>10. QED
  BY <1>7, <1>8, <1>9 DEF StreamInv

\* A frame that from_packet yields is the first not yet processed: the buffer
\* starts where that frame starts.
LEMMA YieldsNext ==
    ASSUME StreamInv, Yields(pending)
    PROVE  LET n == Len(processed)
               c == Cells(n + 1, FrameLen(sent[n + 1]))
           IN  /\ pending[1].frame = n + 1 /\ n < Len(sent)
               /\ sent[n + 1] \in Messages /\ c \in Seq(Cell)
               /\ Len(c) = FrameLen(sent[n + 1]) /\ Len(c) <= Len(pending)
               /\ SubSeq(pending, 1, Len(c)) = c
               /\ pending \o wire = c \o FlattenSeq(Rest(sent, n + 1))
<1> DEFINE n == Len(processed)
           m == sent[n + 1]
           c == Cells(n + 1, FrameLen(m))
           r == FlattenSeq(Rest(sent, n + 1))
<1>1. /\ sent \in Seq(Messages) /\ pending \in Seq(Cell) /\ wire \in Seq(Cell)
      /\ n \in Nat /\ n <= Len(sent) /\ Len(sent) \in Nat /\ Len(pending) \in Nat
      /\ pending \o wire = FlattenSeq(Rest(sent, n))
  BY LenProperties DEF StreamInv, Types, InOrder, RestIsThere
<1>2. Len(pending) > 0
  BY <1>1, Sizes DEF Yields
<1>3. /\ (pending \o wire)[1] = pending[1]
      /\ Len(pending \o wire) = Len(pending) + Len(wire)
  BY <1>1, <1>2, ConcatParts
<1>4. n < Len(sent)
  <2> SUFFICES ASSUME n = Len(sent) PROVE FALSE
    BY <1>1
  <2>1. pending \o wire = <<>>
    BY <1>1, RestOfAll
  <2>2. Len(pending) + Len(wire) = 0
    BY <1>3, <2>1
  <2>3. QED
    BY <1>1, <1>2, <2>2, LenProperties
<1>5. m \in Messages
  BY <1>1, <1>4, ElementOfSeq
<1>6. FrameLen(m) \in Nat /\ FrameLen(m) > 0
  BY <1>5, Sizes
<1>7. /\ c \in Seq(Cell) /\ Len(c) = FrameLen(m)
      /\ c[1] = [frame |-> n + 1, at |-> 1]
  <2> HIDE DEF m
  <2>1. n + 1 \in Nat /\ 1 \in 1 .. FrameLen(m)
    BY <1>1, <1>6
  <2>2. QED
    BY <1>6, <2>1, CellsType DEF CellSeq
<1>8. r \in Seq(Cell)
  <2>1. n + 1 \in Nat /\ n + 1 <= Len(sent)
    BY <1>1, <1>4
  <2>2. Rest(sent, n + 1) \in Seq(CellSeq)
    BY <1>1, <2>1, RestType
  <2>3. QED
    BY <2>2, FlattenFrames
<1>9. pending \o wire = c \o r
  BY <1>1, <1>4, RestTaken
<1> HIDE DEF r, c, m
<1>10. (c \o r)[1] = c[1]
  BY <1>6, <1>7, <1>8, ConcatParts
<1>11. pending[1].frame = n + 1
  <2>1. pending[1] = c[1]
    BY <1>3, <1>9, <1>10, Zenon
  <2>2. QED
    BY <1>7, <2>1
<1>12. Len(pending) >= FrameLen(m) /\ SubSeq(pending, 1, FrameLen(m)) = c
  BY <1>11 DEF Yields, m, c
<1>13. QED
  BY <1>4, <1>5, <1>7, <1>9, <1>11, <1>12 DEF r, c, m

\* A parse takes the first frame out of the buffer and makes its actions due.
LEMMA ParseStep ==
    ASSUME StreamInv, Parse
    PROVE  StreamInv'
<1> DEFINE n == Len(processed)
           m == sent[n + 1]
           c == Cells(n + 1, FrameLen(m))
           r == FlattenSeq(Rest(sent, n + 1))
           rest == SubSeq(pending, Len(c) + 1, Len(pending))
<1>1. Yields(pending) /\ pc = "parse"
  BY DEF Parse
<1>2. /\ pending[1].frame = n + 1 /\ n < Len(sent) /\ m \in Messages
      /\ c \in Seq(Cell) /\ Len(c) = FrameLen(m) /\ Len(c) <= Len(pending)
      /\ SubSeq(pending, 1, Len(c)) = c /\ pending \o wire = c \o r
  BY <1>1, YieldsNext
<1>3. /\ sent \in Seq(Messages) /\ pending \in Seq(Cell) /\ wire \in Seq(Cell)
      /\ n \in Nat /\ Len(sent) \in Nat /\ Len(pending) \in Nat /\ Len(c) \in Nat
      /\ processed = [i \in 1 .. n |-> i]
      /\ performed \in Seq(Acts)
      /\ actions = <<>>
  <2>1. /\ sent \in Seq(Messages) /\ pending \in Seq(Cell) /\ wire \in Seq(Cell)
        /\ performed \in Seq(Acts)
    BY DEF StreamInv, Types
  <2>2. n \in Nat /\ processed = [i \in 1 .. n |-> i]
    BY DEF StreamInv, InOrder
  <2>3. actions = <<>>
    BY <1>1 DEF StreamInv, CallsAreKept
  <2>4. Len(sent) \in Nat /\ Len(pending) \in Nat /\ Len(c) \in Nat
    BY <1>2, <2>1, LenProperties
  <2>5. QED
    BY <2>1, <2>2, <2>3, <2>4
<1>4. /\ pending' = rest /\ processed' = Append(processed, n + 1)
      /\ actions' = process(m)
      /\ sent' = sent /\ wire' = wire /\ performed' = performed
      /\ pc' = IF actions' = <<>> THEN "parse" ELSE "act"
  BY <1>2 DEF Parse
<1>5. process(m) \in ActionSeq
  BY <1>2, ProcessType
<1>6. r \in Seq(Cell)
  <2>1. n + 1 \in Nat /\ n + 1 <= Len(sent)
    BY <1>2, <1>3
  <2>2. Rest(sent, n + 1) \in Seq(CellSeq)
    BY <1>3, <2>1, RestType
  <2>3. QED
    BY <2>2, FlattenFrames
<1>7. c \in Seq(Cell) /\ Len(c) <= Len(pending) /\ SubSeq(pending, 1, Len(c)) = c
      /\ pending \o wire = c \o r
  BY <1>2
<1> HIDE DEF c, r
\* The frame goes and the bytes after it stay.
<1>8. rest \in Seq(Cell) /\ rest \o wire = r
  <2>1. Len(c) \in 0 .. Len(pending)
    BY <1>3, <1>7
  <2>2. rest \in Seq(Cell) /\ c \o rest = pending
    BY <1>3, <1>7, <2>1, CutAndJoin
  <2> HIDE DEF rest
  <2>3. (c \o rest) \o wire = c \o (rest \o wire) /\ rest \o wire \in Seq(Cell)
    <3>1. rest \in Seq(Cell) /\ wire \in Seq(Cell) /\ c \in Seq(Cell)
      BY <1>3, <1>7, <2>2
    <3>2. (c \o rest) \o wire = c \o (rest \o wire)
      BY <3>1, ConcatThree
    <3>3. rest \o wire \in Seq(Cell)
      BY <3>1, ConcatParts
    <3>4. QED
      BY <3>2, <3>3
  <2>4. c \o (rest \o wire) = c \o r
    BY <1>7, <2>2, <2>3, Zenon
  <2>5. QED
    BY <1>6, <1>7, <2>2, <2>3, <2>4, ConcatCancel
<1> HIDE DEF rest, m
<1>9. Len(processed') = n + 1 /\ processed' = [i \in 1 .. n + 1 |-> i]
  BY <1>3, <1>4
<1> HIDE DEF n
<1>10. Types'
  BY <1>3, <1>4, <1>5, <1>8 DEF StreamInv, Types, ActionSeq
<1>11. InOrder'
  BY <1>2, <1>3, <1>4, <1>9 DEF InOrder
<1>12. RestIsThere'
  BY <1>4, <1>8, <1>9 DEF RestIsThere, r
<1>13. CellsOfFrames'
  <2> DEFINE b == pending \o wire
             d == pending' \o wire'
  <2>1. \A i \in 1 .. Len(b) :
            b[i].frame \in 1 .. Len(sent) /\ b[i].at \in 1 .. FrameLen(sent[b[i].frame])
    BY DEF StreamInv, CellsOfFrames
  <2>2. b = c \o r /\ d = r
    BY <1>4, <1>7, <1>8
  <2>3. Len(b) = Len(c) + Len(r) /\ \A i \in 1 .. Len(r) : b[Len(c) + i] = r[i]
    BY <1>6, <1>7, <2>2, ConcatParts
  <2>4. Len(r) \in Nat
    BY <1>6, LenProperties
  <2> HIDE DEF b, d
  <2>5. ASSUME NEW k \in 1 .. Len(d)
        PROVE  d[k].frame \in 1 .. Len(sent') /\ d[k].at \in 1 .. FrameLen(sent'[d[k].frame])
    <3>1. d[k] = b[Len(c) + k] /\ Len(c) + k \in 1 .. Len(b)
      BY <1>3, <2>2, <2>3, <2>4
    <3>2. QED
      BY <1>4, <2>1, <3>1
  <2>6. QED
    BY <2>5 DEF CellsOfFrames, d
<1>14. NothingLeftUnparsed'
  BY <1>4 DEF NothingLeftUnparsed
<1>15. CallsAreKept'
  <2>1. FlattenSeq(Calls(sent, n + 1)) = FlattenSeq(Calls(sent, n)) \o process(m)
    BY <1>2, <1>3, CallsTaken DEF m
  <2>2. FlattenSeq(Calls(sent, n)) = performed
    <3>1. FlattenSeq(Calls(sent, n)) = performed \o actions
      BY DEF StreamInv, CallsAreKept, n
    <3>2. QED
      BY <1>3, <3>1, ConcatEmptySeq
  <2>3. FlattenSeq(Calls(sent', Len(processed'))) = performed' \o actions'
    BY <1>4, <1>9, <2>1, <2>2
  <2>4. QED
    BY <1>4, <2>3 DEF CallsAreKept
<1>16. QED
  BY <1>10, <1>11, <1>12, <1>13, <1>14, <1>15 DEF StreamInv

\* A parse that finds no whole frame changes neither bytes nor actions.
LEMMA ParseNoneStep ==
    ASSUME StreamInv, ParseNone
    PROVE  StreamInv'
<1>1. /\ ~Yields(pending) /\ pc = "parse" /\ pc' = "read"
      /\ sent' = sent /\ wire' = wire /\ pending' = pending /\ actions' = actions
      /\ processed' = processed /\ performed' = performed
  BY DEF ParseNone
<1>2. Types' /\ InOrder' /\ CellsOfFrames' /\ RestIsThere'
  BY <1>1 DEF StreamInv, Types, InOrder, CellsOfFrames, RestIsThere
<1>3. NothingLeftUnparsed'
  BY <1>1 DEF NothingLeftUnparsed, Yields
<1>4. CallsAreKept'
  BY <1>1 DEF StreamInv, CallsAreKept
<1>5. QED
  BY <1>2, <1>3, <1>4 DEF StreamInv

\* An action performed moves from the actions due to the actions done.
LEMMA PerformStep ==
    ASSUME StreamInv, Perform
    PROVE  StreamInv'
<1>1. /\ pc = "act" /\ pc' = (IF actions' = <<>> THEN "parse" ELSE "act")
      /\ performed' = Append(performed, Head(actions)) /\ actions' = Tail(actions)
      /\ sent' = sent /\ wire' = wire /\ pending' = pending
      /\ processed' = processed
  BY DEF Perform
<1>2. actions \in Seq(Acts) /\ performed \in Seq(Acts) /\ actions # <<>>
  BY <1>1 DEF StreamInv, Types, CallsAreKept
<1>3. /\ performed' \in Seq(Acts) /\ actions' \in Seq(Acts)
      /\ performed' \o actions' = performed \o actions
  BY <1>1, <1>2, HeadMoves
<1>4. Types' /\ InOrder' /\ CellsOfFrames' /\ RestIsThere'
  BY <1>1, <1>3 DEF StreamInv, Types, InOrder, CellsOfFrames, RestIsThere
<1>5. NothingLeftUnparsed'
  BY <1>1 DEF NothingLeftUnparsed
<1>6. CallsAreKept'
  <2>1. FlattenSeq(Calls(sent', Len(processed'))) = performed' \o actions'
    BY <1>1, <1>3 DEF StreamInv, CallsAreKept
  <2>2. QED
    BY <1>1, <2>1 DEF CallsAreKept
<1>7. QED
  BY <1>4, <1>5, <1>6 DEF StreamInv

\* Closing the connection keeps StreamInv.
LEMMA CloseStep ==
    ASSUME StreamInv, Close
    PROVE  StreamInv'
<1>1. /\ pc' = "closed"
      /\ sent' = sent /\ wire' = wire /\ pending' = pending /\ actions' = actions
      /\ processed' = processed /\ performed' = performed
  BY DEF Close
<1>2. Types' /\ InOrder' /\ CellsOfFrames' /\ RestIsThere'
  BY <1>1 DEF StreamInv, Types, InOrder, CellsOfFrames, RestIsThere
<1>3. NothingLeftUnparsed' /\ CallsAreKept'
  BY <1>1 DEF StreamInv, NothingLeftUnparsed, CallsAreKept
<1>4. QED
  BY <1>2, <1>3 DEF StreamInv

\* A connection opened again starts as the first one did.
LEMMA ReopenStep ==
    ASSUME Reopen
    PROVE  StreamInv'
<1>1. Init'
  BY DEF Reopen, Init
<1>2. (Init => StreamInv)'
  BY InitInv, PTL
<1>3. QED
  BY <1>1, <1>2

\* StreamInv depends on the variables alone.
LEMMA StutterStep ==
    ASSUME StreamInv, UNCHANGED vars
    PROVE  StreamInv'
<1>1. /\ sent' = sent /\ wire' = wire /\ pending' = pending /\ actions' = actions
      /\ processed' = processed /\ performed' = performed /\ pc' = pc
  BY DEF vars
<1>2. Types' /\ InOrder' /\ CellsOfFrames' /\ RestIsThere'
  BY <1>1 DEF StreamInv, Types, InOrder, CellsOfFrames, RestIsThere
<1>3. NothingLeftUnparsed' /\ CallsAreKept'
  BY <1>1 DEF StreamInv, NothingLeftUnparsed, Yields, CallsAreKept
<1>4. QED
  BY <1>2, <1>3 DEF StreamInv

\* In every state of a connection the bytes not yet parsed are the frames not
\* yet processed, nothing processable waits while the task reads, and what was
\* performed is what the processed messages call for, less what is still due:
\* the read loop of handle_connection and the loop over actions.
THEOREM StreamInvariant == Spec => []StreamInv
<1>1. Init => StreamInv
  BY InitInv
<1>2. StreamInv /\ [Next]_vars => StreamInv'
  BY SendStep, ReadStep, ParseStep, ParseNoneStep, PerformStep, CloseStep,
     ReopenStep, StutterStep DEF Next
<1>3. QED
  BY <1>1, <1>2, PTL DEF Spec

---------------------------------------------------------------------------
\* What the invariant says of the properties the runs check.

\* The types, and that the buffer and the wire hold bytes of frames that were
\* sent, none past its frame's end.
THEOREM StreamTypeOK == Spec => []TypeOK
<1>1. StreamInv => TypeOK
  <2> SUFFICES ASSUME StreamInv PROVE TypeOK
    OBVIOUS
  <2>1. /\ sent \in Seq(Messages) /\ Len(sent) <= MaxFrames
        /\ pc \in {"read", "parse", "act", "closed"}
        /\ pc = "act" => actions # <<>>
    BY DEF StreamInv, Types, CallsAreKept
  <2>2. \A c \in Range(pending \o wire) :
            c.frame \in 1 .. Len(sent) /\ c.at \in 1 .. FrameLen(sent[c.frame])
    <3> DEFINE b == pending \o wire
    <3>1. b \in Seq(Cell)
      BY ConcatParts DEF StreamInv, Types
    <3>2. DOMAIN b = 1 .. Len(b)
      <4> HIDE DEF b
      <4> QED
        BY <3>1
    <3>3. \A k \in 1 .. Len(b) :
              b[k].frame \in 1 .. Len(sent) /\ b[k].at \in 1 .. FrameLen(sent[b[k].frame])
      BY DEF StreamInv, CellsOfFrames
    <3> HIDE DEF b
    <3>4. \A c \in Range(b) : \E k \in 1 .. Len(b) : c = b[k]
      BY <3>2, Zenon DEF Range
    <3>5. \A c \in Range(b) :
              c.frame \in 1 .. Len(sent) /\ c.at \in 1 .. FrameLen(sent[c.frame])
      BY <3>3, <3>4, Zenon
    <3>6. QED
      BY <3>5 DEF b
  <2>3. processed \in Seq(1 .. Len(sent))
    <3> DEFINE n == Len(processed)
    <3>1. /\ n \in Nat /\ n <= Len(sent) /\ Len(sent) \in Nat
          /\ processed = [i \in 1 .. n |-> i]
      BY LenProperties DEF StreamInv, Types, InOrder
    <3> HIDE DEF n
    <3>2. QED
      BY <3>1
  <2>4. QED
    BY <2>1, <2>2, <2>3 DEF TypeOK
<1>2. QED
  BY <1>1, StreamInvariant, PTL

\* Wherever the reads cut the stream, messages are processed in the order
\* sent, each once, and the bytes left are the rest of the stream.
THEOREM StreamIntact == Spec => []StreamIsIntact
<1>1. StreamInv => StreamIsIntact
  BY DEF StreamInv, InOrder, RestIsThere, Rest, StreamIsIntact
<1>2. QED
  BY <1>1, StreamInvariant, PTL

\* The task never goes back to read() with a whole message in its buffer.
THEOREM StreamNothingLeft == Spec => []NothingLeftUnparsed
<1>1. StreamInv => NothingLeftUnparsed
  BY DEF StreamInv
<1>2. QED
  BY <1>1, StreamInvariant, PTL

\* The actions performed are the first of those the processed messages call
\* for, and all of them before another message or another read.
THEOREM StreamActionsInOrder == Spec => []ActionsInOrder
<1>1. StreamInv => ActionsInOrder
  <2> SUFFICES ASSUME StreamInv PROVE ActionsInOrder
    OBVIOUS
  <2> DEFINE n == Len(processed)
             called == FlattenSeq([k \in 1 .. n |-> process(sent[processed[k]])])
  <2>1. [k \in 1 .. n |-> process(sent[processed[k]])] = Calls(sent, n)
    <3>1. \A k \in 1 .. n : processed[k] = k
      BY Zenon DEF StreamInv, InOrder
    <3> HIDE DEF n
    <3>2. QED
      BY <3>1 DEF Calls
  <2>2. called = performed \o actions
    BY <2>1 DEF StreamInv, CallsAreKept
  <2>3. performed \in Seq(Acts) /\ actions \in Seq(Acts)
    BY DEF StreamInv, Types
  <2> HIDE DEF called
  <2>4. IsPrefix(performed, called)
    <3>1. /\ SubSeq(performed \o actions, 1, Len(performed)) = performed
          /\ Len(performed \o actions) = Len(performed) + Len(actions)
      BY <2>3, ConcatDrop, ConcatParts
    <3>2. SubSeq(performed, 1, Len(performed)) = performed
      BY <2>3, SubSeqFull
    <3>3. Len(performed) <= Len(performed) + Len(actions)
      BY <2>3, LenProperties
    <3>4. QED
      BY <2>2, <3>1, <3>2, <3>3 DEF IsPrefix
  <2>5. ASSUME pc \in {"read", "parse"} PROVE performed = called
    <3>1. actions = <<>>
      BY <2>5 DEF StreamInv, CallsAreKept
    <3>2. performed \o <<>> = performed
      BY <2>3, ConcatEmptySeq
    <3>3. QED
      BY <2>2, <3>1, <3>2
  <2>6. QED
    BY <2>4, <2>5 DEF called, ActionsInOrder
<1>2. QED
  BY <1>1, StreamInvariant, PTL

====
