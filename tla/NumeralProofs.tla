---- MODULE NumeralProofs ----
(***************************************************************************)
(* Proofs about sequences of digits and the numbers they stand for.          *)
(*                                                                          *)
(* ProofOfWork, for hashes of any width and bytes of any size: the           *)
(* comparison of digits is the comparison of the numbers, and the target of  *)
(* a header is the number its bits mean.                                     *)
(*                                                                          *)
(* Addresses, for all hashes, checksums and other arguments: Base58 brings   *)
(* every text the node shows back to the bytes it was made of, so the filter *)
(* made from the text holds the hash of the script.                          *)
(***************************************************************************)
EXTENDS ProofOfWork, Addresses, SequenceLemmas

---------------------------------------------------------------------------
\* The proof-of-work test.

\* v gives the numbers of the last digits of d, one digit more at a time.
Values(v, d, n) ==
    /\ v[0] = 0
    /\ \A i \in 1 .. n : v[i] = Base * v[i - 1] + d[n + 1 - i]
    /\ \A i \in 0 .. n : v[i] \in Nat

\* A product of naturals is a natural.
LEMMA ProductType == \A x, y \in Nat : x * y \in Nat
  OBVIOUS

\* NumberOf is the last of the values.
LEMMA NumberValues ==
    ASSUME NEW n \in Nat, NEW d, \A i \in 1 .. n : d[i] \in Byte
    PROVE  \E v : Values(v, d, n) /\ NumberOf(d, n) = v[n]
<1> DEFINE Is(v) == v = [i \in 0 .. n |-> IF i = 0 THEN 0 ELSE Base * v[i - 1] + d[n + 1 - i]]
           g == [x \in (1 .. n) \X Nat |-> Base * x[2] + d[n + 1 - x[1]]]
           v == CHOOSE v : Is(v)
<1>0. Base \in Nat /\ \A x \in Nat, i \in 1 .. n : Base * x + d[n + 1 - i] \in Nat
  <2>1. Base \in Nat
    BY WorkAssumption
  <2>2. ASSUME NEW x \in Nat, NEW i \in 1 .. n PROVE Base * x + d[n + 1 - i] \in Nat
    <3>1. Base * x \in Nat
      BY <2>1, ProductType
    <3>2. n + 1 - i \in 1 .. n
      OBVIOUS
    <3>3. d[n + 1 - i] \in Nat
      BY <2>1, <3>2 DEF Byte
    <3>4. QED
      BY <3>1, <3>3
  <2>3. QED
    BY <2>1, <2>2
<1>1. PICK f : Iterates(f, n, 0, g)
  BY IterationExists
<1>2. ASSUME NEW i \in 1 .. n, f[i - 1] \in Nat
      PROVE  f[i] = Base * f[i - 1] + d[n + 1 - i] /\ f[i] \in Nat
  <2>1. g[<<i, f[i - 1]>>] = Base * f[i - 1] + d[n + 1 - i]
    BY <1>2
  <2>2. QED
    BY <1>0, <1>1, <1>2, <2>1 DEF Iterates
<1>3. \A i \in 0 .. n : f[i] \in Nat
  <2>1. f[0] \in Nat
    BY <1>1 DEF Iterates
  <2>2. QED
    BY <1>2, <2>1, IterationKeeps
<1>4. Is(f)
  <2>1. ASSUME NEW i \in 0 .. n
        PROVE  f[i] = IF i = 0 THEN 0 ELSE Base * f[i - 1] + d[n + 1 - i]
    <3>1. CASE i = 0
      BY <1>1, <3>1 DEF Iterates
    <3>2. CASE i # 0
      <4>1. i \in 1 .. n /\ i - 1 \in 0 .. n
        BY <3>2
      <4>2. QED
        BY <1>2, <1>3, <3>2, <4>1
    <3>3. QED
      BY <3>1, <3>2
  <2>2. f = [i \in 0 .. n |-> f[i]]
    BY <1>1 DEF Iterates
  <2>3. QED
    BY <2>1, <2>2, Zenon
<1>5. Is(v)
  BY <1>4, Zenon
<1>6. NumberOf(d, n) = v[n]
  BY Zenon DEF NumberOf
<1> HIDE DEF v
<1>7. /\ v[0] = 0
      /\ \A i \in 1 .. n : v[i] = Base * v[i - 1] + d[n + 1 - i]
  <2>1. \A i \in 0 .. n : v[i] = IF i = 0 THEN 0 ELSE Base * v[i - 1] + d[n + 1 - i]
    BY <1>5, Zenon
  <2>2. 0 \in 0 .. n /\ \A i \in 1 .. n : i \in 0 .. n /\ i # 0
    OBVIOUS
  <2>3. QED
    BY <2>1, <2>2, Zenon
<1>8. \A i \in 0 .. n : v[i] \in Nat
  <2>1. \A i \in 1 .. n : v[i - 1] \in Nat => v[i] \in Nat
    BY <1>0, <1>7
  <2>2. v[0] \in Nat
    BY <1>7
  <2>3. QED
    BY <2>1, <2>2, IterationKeeps
<1>9. QED
  BY <1>6, <1>7, <1>8 DEF Values

\* Power is the end of a row of powers.
LEMMA PowerValues ==
    ASSUME NEW n \in Nat
    PROVE  \E p : /\ p[0] = 1
                  /\ \A i \in 1 .. n : p[i] = Base * p[i - 1]
                  /\ \A i \in 0 .. n : p[i] \in Nat
                  /\ Power(n) = p[n]
<1> DEFINE Is(p) == p = [i \in 0 .. n |-> IF i = 0 THEN 1 ELSE Base * p[i - 1]]
           g == [x \in (1 .. n) \X Nat |-> Base * x[2]]
           p == CHOOSE p : Is(p)
<1>0. Base \in Nat /\ \A x \in Nat : Base * x \in Nat
  BY WorkAssumption, ProductType
<1>1. PICK f : Iterates(f, n, 1, g)
  BY IterationExists
<1>2. ASSUME NEW i \in 1 .. n, f[i - 1] \in Nat
      PROVE  f[i] = Base * f[i - 1] /\ f[i] \in Nat
  <2>1. g[<<i, f[i - 1]>>] = Base * f[i - 1]
    BY <1>2
  <2>2. QED
    BY <1>0, <1>1, <1>2, <2>1 DEF Iterates
<1>3. \A i \in 0 .. n : f[i] \in Nat
  <2>1. f[0] \in Nat
    BY <1>1 DEF Iterates
  <2>2. QED
    BY <1>2, <2>1, IterationKeeps
<1>4. Is(f)
  <2>1. ASSUME NEW i \in 0 .. n PROVE f[i] = IF i = 0 THEN 1 ELSE Base * f[i - 1]
    <3>1. CASE i = 0
      BY <1>1, <3>1 DEF Iterates
    <3>2. CASE i # 0
      <4>1. i \in 1 .. n /\ i - 1 \in 0 .. n
        BY <3>2
      <4>2. QED
        BY <1>2, <1>3, <3>2, <4>1
    <3>3. QED
      BY <3>1, <3>2
  <2>2. f = [i \in 0 .. n |-> f[i]]
    BY <1>1 DEF Iterates
  <2>3. QED
    BY <2>1, <2>2, Zenon
<1>5. Is(p)
  BY <1>4, Zenon
<1>6. Power(n) = p[n]
  BY Zenon DEF Power
<1> HIDE DEF p
<1>7. p[0] = 1 /\ \A i \in 1 .. n : p[i] = Base * p[i - 1]
  <2>1. \A i \in 0 .. n : p[i] = IF i = 0 THEN 1 ELSE Base * p[i - 1]
    BY <1>5, Zenon
  <2>2. 0 \in 0 .. n /\ \A i \in 1 .. n : i \in 0 .. n /\ i # 0
    OBVIOUS
  <2>3. QED
    BY <2>1, <2>2, Zenon
<1>8. \A i \in 0 .. n : p[i] \in Nat
  <2>1. \A i \in 1 .. n : p[i - 1] \in Nat => p[i] \in Nat
    BY <1>0, <1>7
  <2>2. p[0] \in Nat
    BY <1>7
  <2>3. QED
    BY <2>1, <2>2, IterationKeeps
<1>9. QED
  BY <1>6, <1>7, <1>8

---------------------------------------------------------------------------
\* The order of digits is the order of the numbers.

\* A digit more at the end decides only between equal numbers.
LEMMA DigitOrder ==
    ASSUME NEW x \in Nat, NEW y \in Nat, NEW c \in Byte, NEW d \in Byte
    PROVE  /\ Base * x + c < Base * y + d <=> x < y \/ (x = y /\ c < d)
           /\ Base * x + c = Base * y + d <=> x = y /\ c = d
<1>0. Base \in Nat /\ Base > 0 /\ c \in Nat /\ c < Base /\ d \in Nat /\ d < Base
  BY WorkAssumption DEF Byte
<1>1. \A u, w \in Nat : u < w => Base * u + Base <= Base * w
  <2> SUFFICES ASSUME NEW u \in Nat, NEW w \in Nat, u < w
               PROVE  Base * u + Base <= Base * w
    OBVIOUS
  <2> DEFINE k == w - (u + 1)
  <2>1. k \in Nat /\ w = u + 1 + k
    OBVIOUS
  <2> HIDE DEF k
  <2>2. Base * w = Base * u + Base + Base * k
    BY <1>0, <2>1
  <2>3. Base * k \in Nat /\ Base * u \in Nat
    BY <1>0, <2>1, ProductType
  <2>4. QED
    BY <1>0, <2>2, <2>3
<1> DEFINE p == Base * x
           q == Base * y
<1>2. p \in Nat /\ q \in Nat
  BY <1>0, ProductType
<1>3. (x < y => p + Base <= q) /\ (y < x => q + Base <= p) /\ (x = y => p = q)
  BY <1>1
<1> HIDE DEF p, q
<1>4. /\ p + c < q + d <=> x < y \/ (x = y /\ c < d)
      /\ p + c = q + d <=> x = y /\ c = d
  BY <1>0, <1>2, <1>3
<1>5. QED
  BY <1>4 DEF p, q

\* a and b are the same, or a is less, in their k most significant digits.
SameAbove(a, b, k) == \A j \in Width + 1 - k .. Width : a[j] = b[j]
LessAbove(a, b, k) ==
    \E i \in Width + 1 - k .. Width : a[i] < b[i] /\ \A j \in i + 1 .. Width : a[j] = b[j]

\* A digit more extends the two comparisons.
LEMMA AboveStep ==
    ASSUME NEW a, NEW b, NEW k \in 1 .. Width
    PROVE  LET i == Width + 1 - k IN
           /\ SameAbove(a, b, k) <=> SameAbove(a, b, k - 1) /\ a[i] = b[i]
           /\ LessAbove(a, b, k) <=> \/ LessAbove(a, b, k - 1)
                                     \/ SameAbove(a, b, k - 1) /\ a[i] < b[i]
<1> DEFINE i == Width + 1 - k
<1>1. /\ Width \in Nat /\ i \in Int /\ Width + 1 - (k - 1) = i + 1
      /\ i .. Width = {i} \cup (i + 1 .. Width) /\ i \in i .. Width
  BY WorkAssumption
<1> HIDE DEF i
<1>2. SameAbove(a, b, k) <=> SameAbove(a, b, k - 1) /\ a[i] = b[i]
  BY <1>1, Zenon DEF SameAbove, i
<1>3. LessAbove(a, b, k) <=> \/ LessAbove(a, b, k - 1)
                             \/ SameAbove(a, b, k - 1) /\ a[i] < b[i]
  <2> DEFINE Here(m) == a[m] < b[m] /\ \A j \in m + 1 .. Width : a[j] = b[j]
  <2>1. LessAbove(a, b, k) <=> \E m \in i .. Width : Here(m)
    BY Zenon DEF LessAbove, i
  <2>2. LessAbove(a, b, k - 1) <=> \E m \in i + 1 .. Width : Here(m)
    BY <1>1, Zenon DEF LessAbove
  <2>3. SameAbove(a, b, k - 1) /\ a[i] < b[i] <=> Here(i)
    BY <1>1, Zenon DEF SameAbove
  <2> HIDE DEF Here
  <2>4. (\E m \in i .. Width : Here(m)) <=> (\E m \in i + 1 .. Width : Here(m)) \/ Here(i)
    BY <1>1, Zenon
  <2>5. QED
    BY <2>1, <2>2, <2>3, <2>4, Zenon
<1>4. QED
  BY <1>2, <1>3 DEF i

\* AtMost compares the numbers.
LEMMA OrderIsNumeric ==
    ASSUME NEW a \in Hashes, NEW b \in Hashes
    PROVE  AtMost(a, b) <=> NumberOf(a, Width) <= NumberOf(b, Width)
<1>0. /\ Width \in Nat
      /\ \A i \in 1 .. Width : a[i] \in Byte /\ b[i] \in Byte
      /\ a = [i \in 1 .. Width |-> a[i]] /\ b = [i \in 1 .. Width |-> b[i]]
  BY WorkAssumption DEF Hashes
<1>1. PICK v : Values(v, a, Width) /\ NumberOf(a, Width) = v[Width]
  BY <1>0, NumberValues
<1>2. PICK w : Values(w, b, Width) /\ NumberOf(b, Width) = w[Width]
  BY <1>0, NumberValues
<1> DEFINE Agree(k) == /\ SameAbove(a, b, k) <=> v[k] = w[k]
                       /\ LessAbove(a, b, k) <=> v[k] < w[k]
           S == {k \in Nat : k <= Width => Agree(k)}
<1>3. 0 \in S
  <2>1. v[0] = 0 /\ w[0] = 0
    BY <1>1, <1>2 DEF Values
  <2>2. SameAbove(a, b, 0)
    BY <1>0 DEF SameAbove
  <2>3. ~LessAbove(a, b, 0)
    BY <1>0 DEF LessAbove
  <2>4. 0 \in Nat /\ ~(0 < 0)
    OBVIOUS
  <2>5. Agree(0)
    BY <2>1, <2>2, <2>3, <2>4, Zenon
  <2> HIDE DEF Agree
  <2>6. QED
    BY <2>4, <2>5
<1>4. ASSUME NEW m \in Nat, m \in S PROVE m + 1 \in S
  <2> SUFFICES ASSUME m + 1 <= Width PROVE Agree(m + 1)
    <3> HIDE DEF Agree
    <3> QED
      OBVIOUS
  <2> DEFINE k == m + 1
             i == Width + 1 - k
  <2>1. k \in 1 .. Width /\ k - 1 = m /\ i \in 1 .. Width
    <3>1. m \in Nat /\ m + 1 <= Width /\ Width \in Nat
      BY <1>0
    <3> HIDE DEF S, Agree
    <3>2. QED
      BY <3>1
  <2>2. Agree(m)
    <3> HIDE DEF Agree
    <3> QED
      BY <1>0, <1>4
  <2> HIDE DEF k, i
  <2>3. /\ v[k] = Base * v[m] + a[i] /\ w[k] = Base * w[m] + b[i]
        /\ v[m] \in Nat /\ w[m] \in Nat /\ a[i] \in Byte /\ b[i] \in Byte
    <3>1. m \in 0 .. Width
      BY <1>0
    <3>2. QED
      BY <1>0, <1>1, <1>2, <2>1, <3>1 DEF Values, i
  <2>4. /\ SameAbove(a, b, k) <=> SameAbove(a, b, m) /\ a[i] = b[i]
        /\ LessAbove(a, b, k) <=> LessAbove(a, b, m) \/ (SameAbove(a, b, m) /\ a[i] < b[i])
    BY <2>1, AboveStep DEF i
  <2>5. /\ v[k] < w[k] <=> v[m] < w[m] \/ (v[m] = w[m] /\ a[i] < b[i])
        /\ v[k] = w[k] <=> v[m] = w[m] /\ a[i] = b[i]
    BY <2>3, DigitOrder
  <2>6. Agree(k)
    BY <2>2, <2>4, <2>5, Zenon
  <2>7. QED
    BY <2>6 DEF k
<1>5. Agree(Width)
  <2> HIDE DEF Agree
  <2>1. Nat \subseteq S
    <3> HIDE DEF S
    <3> QED
      BY <1>3, <1>4, Induction
  <2>2. QED
    BY <1>0, <2>1
<1>6. SameAbove(a, b, Width) <=> a = b
  <2>1. SameAbove(a, b, Width) => a = b
    BY <1>0, SMTT(60) DEF SameAbove
  <2>2. a = b => SameAbove(a, b, Width)
    BY Zenon DEF SameAbove
  <2>3. QED
    BY <2>1, <2>2, Zenon
<1>7. AtMost(a, b) <=> a = b \/ LessAbove(a, b, Width)
  <2>1. Width + 1 - Width = 1
    BY <1>0
  <2>2. QED
    BY <2>1, Zenon DEF AtMost, LessAbove
<1>8. v[Width] \in Nat /\ w[Width] \in Nat
  BY <1>0, <1>1, <1>2 DEF Values
<1>9. /\ SameAbove(a, b, Width) <=> v[Width] = w[Width]
      /\ LessAbove(a, b, Width) <=> v[Width] < w[Width]
  BY <1>5, Zenon
<1>10. AtMost(a, b) <=> v[Width] = w[Width] \/ v[Width] < w[Width]
  BY <1>6, <1>7, <1>9, Zenon
<1>11. QED
  BY <1>1, <1>2, <1>8, <1>10

---------------------------------------------------------------------------
\* Targets.

\* What the model says of bits: a mantissa of three bytes.
LEMMA BitsType ==
    ASSUME NEW b \in Bits
    PROVE  /\ b.exponent \in 0 .. Width + 1
           /\ \A i \in 1 .. 3 : b.mantissa[i] \in Byte
           /\ get_target_bytes(b) \in Hashes
<1>1. b.exponent \in 0 .. Width + 1 /\ b.mantissa \in [1 .. 3 -> Byte]
  BY DEF Bits
<1>2. 0 \in Byte /\ Width \in Nat
  BY WorkAssumption DEF Byte
<1>3. ASSUME NEW i \in 1 .. Width
      PROVE  (IF b.exponent \in 3 .. Width /\ i \in b.exponent - 2 .. b.exponent
              THEN b.mantissa[i - b.exponent + 3] ELSE 0) \in Byte
  <2>1. CASE b.exponent \in 3 .. Width /\ i \in b.exponent - 2 .. b.exponent
    <3>1. i - b.exponent + 3 \in 1 .. 3
      BY <2>1
    <3>2. QED
      BY <1>1, <2>1, <3>1
  <2>2. QED
    BY <1>2, <2>1
<1>4. get_target_bytes(b) \in Hashes
  BY <1>3 DEF get_target_bytes, Hashes
<1>5. QED
  BY <1>1, <1>4

\* A target that has its place in a hash is the mantissa, shifted by the
\* exponent less three bytes.
LEMMA TargetIsNumeric ==
    ASSUME NEW b \in Bits, b.exponent \in 3 .. Width
    PROVE  NumberOf(get_target_bytes(b), Width)
               = NumberOf(b.mantissa, 3) * Power(b.exponent - 3)
<1> DEFINE e == b.exponent
           m == b.mantissa
           t == get_target_bytes(b)
           z == Width - e
<1>0. /\ Width \in Nat /\ Base \in Nat /\ e \in 3 .. Width /\ z \in Nat /\ e - 3 \in Nat
      /\ z + 3 + (e - 3) = Width
  BY WorkAssumption
<1>1. \A i \in 1 .. 3 : m[i] \in Byte
  BY BitsType
<1>2. \A i \in 1 .. Width : t[i] = IF i \in e - 2 .. e THEN m[i - e + 3] ELSE 0
  BY DEF get_target_bytes
<1>3. \A i \in 1 .. Width : t[i] \in Byte
  BY BitsType DEF Hashes
<1> HIDE DEF e, m, t, z
<1>4. PICK v : Values(v, t, Width) /\ NumberOf(t, Width) = v[Width]
  BY <1>0, <1>3, NumberValues
<1>5. PICK w : Values(w, m, 3) /\ NumberOf(m, 3) = w[3]
  BY <1>1, NumberValues
<1>6. PICK p : /\ p[0] = 1
               /\ \A i \in 1 .. e - 3 : p[i] = Base * p[i - 1]
               /\ \A i \in 0 .. e - 3 : p[i] \in Nat
               /\ Power(e - 3) = p[e - 3]
  BY <1>0, PowerValues
<1>7. \A i \in 0 .. z : v[i] \in {0}
  <2>1. \A i \in 1 .. z : v[i] = Base * v[i - 1] + 0
    <3>1. ASSUME NEW i \in 1 .. z PROVE v[i] = Base * v[i - 1] + 0
      <4>1. i \in 1 .. Width /\ Width + 1 - i \in 1 .. Width /\ Width + 1 - i \notin e - 2 .. e
        BY <1>0 DEF z
      <4>2. QED
        BY <1>2, <1>4, <4>1 DEF Values
    <3>2. QED
      BY <3>1
  <2>2. Base * 0 + 0 = 0 /\ v[0] = 0
    BY <1>0, <1>4 DEF Values
  <2>3. \A i \in 1 .. z : v[i - 1] \in {0} => v[i] \in {0}
    BY <2>1, <2>2, Zenon
  <2>4. QED
    BY <1>0, <2>2, <2>3, IterationKeeps
<1>8. v[z + 3] = w[3]
  <2>1. /\ z + 1 \in 1 .. Width /\ z + 2 \in 1 .. Width /\ z + 3 \in 1 .. Width
        /\ Width + 1 - (z + 1) = e /\ Width + 1 - (z + 2) = e - 1 /\ Width + 1 - (z + 3) = e - 2
    BY <1>0 DEF z
  <2>2. t[e] = m[3] /\ t[e - 1] = m[2] /\ t[e - 2] = m[1]
    BY <1>0, <1>2
  <2>3. v[z + 1] = Base * v[z] + m[3] /\ v[z + 2] = Base * v[z + 1] + m[2]
        /\ v[z + 3] = Base * v[z + 2] + m[1]
    <3>1. \A i \in 1 .. Width : v[i] = Base * v[i - 1] + t[Width + 1 - i]
      BY <1>4 DEF Values
    <3>2. (z + 1) - 1 = z /\ (z + 2) - 1 = z + 1 /\ (z + 3) - 1 = z + 2
      BY <1>0
    <3>3. QED
      BY <2>1, <2>2, <3>1, <3>2
  <2>4. v[z] = 0 /\ w[0] = 0
    BY <1>0, <1>5, <1>7 DEF Values
  <2>5. w[1] = Base * w[0] + m[3] /\ w[2] = Base * w[1] + m[2] /\ w[3] = Base * w[2] + m[1]
    <3>1. \A i \in 1 .. 3 : w[i] = Base * w[i - 1] + m[4 - i]
      BY <1>5 DEF Values
    <3>2. QED
      BY <3>1
  <2>6. QED
    BY <2>3, <2>4, <2>5, Zenon
<1>9. \A j \in 0 .. e - 3 : v[z + 3 + j] = w[3] * p[j]
  <2> DEFINE f == [j \in 0 .. e - 3 |-> v[z + 3 + j]]
             h == [j \in 0 .. e - 3 |-> w[3] * p[j]]
  <2>0. w[3] \in Nat
    BY <1>5 DEF Values
  <2>1. f[0] = h[0]
    BY <1>0, <1>6, <1>8, <2>0
  <2>2. ASSUME NEW j \in 1 .. e - 3, f[j - 1] = h[j - 1]
        PROVE  f[j] = h[j]
    <3>1. /\ j - 1 \in 0 .. e - 3 /\ j \in 0 .. e - 3
          /\ z + 3 + j \in 1 .. Width /\ (z + 3 + j) - 1 = z + 3 + (j - 1)
          /\ Width + 1 - (z + 3 + j) \in 1 .. Width
          /\ Width + 1 - (z + 3 + j) \notin e - 2 .. e
      BY <1>0 DEF z
    <3>2. v[z + 3 + j] = Base * v[z + 3 + (j - 1)] + 0
      BY <1>2, <1>4, <3>1 DEF Values
    <3>3. v[z + 3 + (j - 1)] = w[3] * p[j - 1] /\ p[j] = Base * p[j - 1] /\ p[j - 1] \in Nat
      BY <1>6, <2>2, <3>1
    <3>4. \A x, y \in Nat : Base * (x * y) + 0 = x * (Base * y)
      BY <1>0
    <3>5. v[z + 3 + j] = w[3] * p[j]
      BY <2>0, <3>2, <3>3, <3>4
    <3>6. QED
      BY <3>1, <3>5
  <2>3. \A j \in 0 .. e - 3 : f[j] = h[j]
    <3> HIDE DEF f, h
    <3> QED
      BY <1>0, <2>1, <2>2, IterationsAgree
  <2>4. QED
    BY <2>3
<1>10. v[Width] = w[3] * p[e - 3]
  BY <1>0, <1>9
<1>11. QED
  BY <1>4, <1>5, <1>6, <1>10 DEF e, m, t

\* A target that has no place in a hash is 0.
LEMMA TargetIsZero ==
    ASSUME NEW b \in Bits, b.exponent \notin 3 .. Width
    PROVE  NumberOf(get_target_bytes(b), Width) = 0
<1> DEFINE t == get_target_bytes(b)
<1>0. Width \in Nat /\ Base \in Nat
  BY WorkAssumption
<1>1. \A i \in 1 .. Width : t[i] = 0
  BY DEF get_target_bytes
<1>2. \A i \in 1 .. Width : t[i] \in Byte
  BY BitsType DEF Hashes
<1> HIDE DEF t
<1>3. PICK v : Values(v, t, Width) /\ NumberOf(t, Width) = v[Width]
  BY <1>0, <1>2, NumberValues
<1>4. \A i \in 1 .. Width : v[i] = Base * v[i - 1] + 0
  BY <1>0, <1>1, <1>3 DEF Values
<1>5. Base * 0 + 0 = 0 /\ v[0] = 0
  BY <1>0, <1>3 DEF Values
<1>6. \A i \in 0 .. Width : v[i] \in {0}
  BY <1>0, <1>4, <1>5, IterationKeeps
<1>7. QED
  BY <1>0, <1>3, <1>6 DEF t

\* Numbers and powers are naturals.
LEMMA NumberTypes ==
    /\ \A h \in Hashes : NumberOf(h, Width) \in Nat
    /\ \A b \in Bits : NumberOf(b.mantissa, 3) \in Nat
    /\ \A n \in Nat : Power(n) \in Nat
<1>0. Width \in Nat
  BY WorkAssumption
<1>1. ASSUME NEW h \in Hashes PROVE NumberOf(h, Width) \in Nat
  <2>1. \A i \in 1 .. Width : h[i] \in Byte
    BY DEF Hashes
  <2>2. PICK v : Values(v, h, Width) /\ NumberOf(h, Width) = v[Width]
    BY <1>0, <2>1, NumberValues
  <2>3. QED
    BY <1>0, <2>2 DEF Values
<1>2. ASSUME NEW b \in Bits PROVE NumberOf(b.mantissa, 3) \in Nat
  <2>1. PICK v : Values(v, b.mantissa, 3) /\ NumberOf(b.mantissa, 3) = v[3]
    BY BitsType, NumberValues
  <2>2. QED
    BY <2>1 DEF Values
<1>3. ASSUME NEW n \in Nat PROVE Power(n) \in Nat
  <2>1. PICK p : (\A i \in 0 .. n : p[i] \in Nat) /\ Power(n) = p[n]
    BY PowerValues
  <2>2. QED
    BY <2>1
<1>4. QED
  BY <1>1, <1>2, <1>3

---------------------------------------------------------------------------
\* What a judgement says of the header, of any header.
LEMMA JudgedByNumber ==
    ASSUME NEW h \in Hashes, NEW b \in Bits
    PROVE  LET n == NumberOf(h, Width)
               m == NumberOf(b.mantissa, 3)
               small == IF b.exponent < 3
                        THEN n * Power(3 - b.exponent) <= m
                        ELSE n <= m * Power(b.exponent - 3)
           IN  /\ check_proof_of_work(h, b) => small
               /\ b.exponent \in 3 .. Width => (check_proof_of_work(h, b) <=> small)
               /\ b.exponent \notin 3 .. Width => (check_proof_of_work(h, b) <=> n = 0)
<1> DEFINE n == NumberOf(h, Width)
           m == NumberOf(b.mantissa, 3)
           t == NumberOf(get_target_bytes(b), Width)
           e == b.exponent
<1>1. check_proof_of_work(h, b) <=> n <= t
  BY BitsType, OrderIsNumeric DEF check_proof_of_work
<1>2. n \in Nat /\ m \in Nat /\ \A i \in Nat : Power(i) \in Nat
  BY NumberTypes
<1>3. e \in 0 .. Width + 1 /\ Width \in Nat /\ Width > 3
  BY BitsType, WorkAssumption
<1>4. CASE e \in 3 .. Width
  <2>1. t = m * Power(e - 3)
    BY <1>4, TargetIsNumeric
  <2>2. ~(e < 3)
    BY <1>3, <1>4
  <2>3. QED
    BY <1>1, <1>4, <2>1, <2>2, Zenon
<1>5. CASE e \notin 3 .. Width
  <2>1. t = 0
    BY <1>5, TargetIsZero
  <2> HIDE DEF n, m, e, t
  <2>2. check_proof_of_work(h, b) <=> n = 0
    BY <1>1, <1>2, <2>1
  <2>3. CASE e < 3
    <3>1. Power(3 - e) \in Nat
      BY <1>2, <1>3, <2>3
    <3>2. 0 * Power(3 - e) <= m
      BY <1>2, <3>1
    <3>3. n = 0 => n * Power(3 - e) <= m
      BY <3>2
    <3>4. QED
      BY <1>5, <2>2, <2>3, <3>3, Zenon DEF n, m, e
  <2>4. CASE ~(e < 3)
    <3>1. Power(e - 3) \in Nat
      BY <1>2, <1>3, <2>4
    <3>2. m * Power(e - 3) \in Nat
      BY <1>2, <3>1, ProductType
    <3>3. n = 0 => n <= m * Power(e - 3)
      BY <3>2
    <3>4. QED
      BY <1>5, <2>2, <2>4, <3>3, Zenon DEF n, m, e
  <2>5. QED
    BY <2>3, <2>4, Zenon
<1>6. QED
  BY <1>4, <1>5, Zenon

\* The judgement that is made is the one about the header.
WorkInv == judged => /\ hash \in Hashes /\ bits \in Bits
                     /\ passed = check_proof_of_work(hash, bits)

\* check_proof_of_work: for hashes of any width, a header passes only if its
\* hash is at most its target, both as numbers, and passes then whenever the
\* target fits into a hash.
THEOREM WorkNumeric == WorkSpec => []WorkIsNumeric
<1>1. Unjudged => WorkInv
  BY DEF Unjudged, WorkInv
<1>2. WorkInv /\ [Judge]_work => WorkInv'
  BY DEF WorkInv, Judge, work
<1>3. WorkInv => WorkIsNumeric
  BY JudgedByNumber DEF WorkInv, WorkIsNumeric
<1>4. QED
  BY <1>1, <1>2, <1>3, PTL DEF WorkSpec

---------------------------------------------------------------------------
\* A recursion of n steps.

\* A function iterated n times stays in what it keeps.
LEMMA IterationTyped ==
    ASSUME NEW n \in Nat, NEW T, NEW b \in T, NEW g,
           \A i \in 1 .. n : \A x \in T : g[<<i, x>>] \in T
    PROVE  \E f : Iterates(f, n, b, g) /\ \A i \in 0 .. n : f[i] \in T
<1>1. PICK f : Iterates(f, n, b, g)
  BY IterationExists
<1>2. f[0] \in T /\ \A i \in 1 .. n : f[i - 1] \in T => f[i] \in T
  BY <1>1 DEF Iterates
<1>3. \A i \in 0 .. n : f[i] \in T
  BY <1>2, IterationKeeps
<1>4. QED
  BY <1>1, <1>3

---------------------------------------------------------------------------
\* Powers.

Pow(b, n) == LET p[i \in 0 .. n] == IF i = 0 THEN 1 ELSE b * p[i - 1] IN p[n]

\* The powers up to the n-th, in a row.
Row(p, b, n) ==
    /\ p[0] = 1
    /\ \A i \in 1 .. n : p[i] = b * p[i - 1]
    /\ \A i \in 0 .. n : p[i] \in Nat

\* Pow(b, n) is the last of a row of powers.
LEMMA RowExists ==
    ASSUME NEW b \in Nat, NEW n \in Nat
    PROVE  \E p : Row(p, b, n) /\ Pow(b, n) = p[n]
<1> DEFINE Is(p) == p = [i \in 0 .. n |-> IF i = 0 THEN 1 ELSE b * p[i - 1]]
           g == [x \in (1 .. n) \X Nat |-> b * x[2]]
           p == CHOOSE p : Is(p)
<1>1. \A i \in 1 .. n : \A x \in Nat : g[<<i, x>>] = b * x /\ g[<<i, x>>] \in Nat
  BY ProductType
<1>2. PICK f : Iterates(f, n, 1, g) /\ \A i \in 0 .. n : f[i] \in Nat
  <2> HIDE DEF g
  <2>1. 1 \in Nat
    OBVIOUS
  <2>2. QED
    BY <1>1, <2>1, IterationTyped
<1> HIDE DEF g
<1>3. Is(f)
  <2>1. ASSUME NEW i \in 0 .. n
        PROVE  f[i] = IF i = 0 THEN 1 ELSE b * f[i - 1]
    <3>1. CASE i = 0
      BY <1>2, <3>1 DEF Iterates
    <3>2. CASE i # 0
      <4>1. i \in 1 .. n /\ i - 1 \in 0 .. n
        BY <3>2
      <4>2. QED
        BY <1>1, <1>2, <3>2, <4>1 DEF Iterates
    <3>3. QED
      BY <3>1, <3>2
  <2>2. f = [i \in 0 .. n |-> f[i]]
    BY <1>2 DEF Iterates
  <2>3. QED
    BY <2>1, <2>2, Zenon
<1>4. Is(p)
  BY <1>3, Zenon
<1>5. Pow(b, n) = p[n]
  BY Zenon DEF Pow
<1> HIDE DEF p
<1>6. p[0] = 1 /\ \A i \in 1 .. n : p[i] = b * p[i - 1]
  <2>1. \A i \in 0 .. n : p[i] = IF i = 0 THEN 1 ELSE b * p[i - 1]
    BY <1>4, Zenon
  <2>2. 0 \in 0 .. n /\ \A i \in 1 .. n : i \in 0 .. n /\ i # 0
    OBVIOUS
  <2>3. QED
    BY <2>1, <2>2, Zenon
<1>7. \A i \in 0 .. n : p[i] \in Nat
  <2>1. \A i \in 1 .. n : p[i - 1] \in Nat => p[i] \in Nat
    BY <1>6, ProductType
  <2>2. p[0] \in Nat
    BY <1>6
  <2>3. QED
    BY <2>1, <2>2, IterationKeeps
<1>8. QED
  BY <1>5, <1>6, <1>7 DEF Row

\* What a power is: 1, and b times the one before it.
LEMMA PowSteps ==
    ASSUME NEW b \in Nat \ {0}
    PROVE  /\ Pow(b, 0) = 1
           /\ \A n \in Nat : Pow(b, n) \in Nat \ {0} /\ Pow(b, n + 1) = b * Pow(b, n)
<1>1. Pow(b, 0) = 1
  BY RowExists DEF Row
<1>2. ASSUME NEW n \in Nat
      PROVE  Pow(b, n + 1) = b * Pow(b, n) /\ Pow(b, n) \in Nat
  <2>1. PICK p : Row(p, b, n) /\ Pow(b, n) = p[n]
    BY RowExists
  <2>2. PICK q : Row(q, b, n + 1) /\ Pow(b, n + 1) = q[n + 1]
    BY RowExists
  <2>3. p[0] = q[0] /\ \A i \in 1 .. n : p[i - 1] = q[i - 1] => p[i] = q[i]
    BY <2>1, <2>2 DEF Row
  <2>4. \A i \in 0 .. n : p[i] = q[i]
    BY <2>3, IterationsAgree
  <2>5. n + 1 \in 1 .. n + 1 /\ (n + 1) - 1 = n /\ n \in 0 .. n
    OBVIOUS
  <2>6. q[n + 1] = b * q[n]
    BY <2>2, <2>5, Zenon DEF Row
  <2>7. p[n] \in Nat
    BY <2>1, <2>5 DEF Row
  <2>8. QED
    BY <2>1, <2>2, <2>4, <2>5, <2>6, <2>7, Zenon
<1> DEFINE S == {n \in Nat : Pow(b, n) # 0}
<1>3. 0 \in S
  BY <1>1
<1>4. ASSUME NEW n \in Nat, n \in S PROVE n + 1 \in S
  <2>1. \A x, y \in Nat \ {0} : x * y # 0
    OBVIOUS
  <2>2. Pow(b, n) \in Nat \ {0}
    BY <1>2, <1>4
  <2>3. QED
    BY <1>2, <2>1, <2>2
<1>5. Nat \subseteq S
  <2> HIDE DEF S
  <2> QED
    BY <1>3, <1>4, Induction
<1>6. QED
  BY <1>1, <1>2, <1>5

---------------------------------------------------------------------------
\* The number that the digits s, the first of them first, stand for.
Worth(b, s) == LET v[i \in 0 .. Len(s)] == IF i = 0 THEN 0 ELSE b * v[i - 1] + s[i]
               IN  v[Len(s)]

\* The numbers of the first n digits, one digit more at a time.
PartialWorths(v, b, s, n) ==
    /\ v[0] = 0
    /\ \A i \in 1 .. n : v[i] = b * v[i - 1] + s[i]
    /\ \A i \in 0 .. n : v[i] \in Nat

\* Worth(b, s) is the last of the partial worths.
LEMMA WorthRow ==
    ASSUME NEW b \in Nat, NEW s \in Seq(Nat)
    PROVE  \E v : PartialWorths(v, b, s, Len(s)) /\ Worth(b, s) = v[Len(s)]
<1> DEFINE n == Len(s)
           Is(v) == v = [i \in 0 .. n |-> IF i = 0 THEN 0 ELSE b * v[i - 1] + s[i]]
           g == [x \in (1 .. n) \X Nat |-> b * x[2] + s[x[1]]]
           v == CHOOSE v : Is(v)
<1>0. n \in Nat /\ \A i \in 1 .. n : s[i] \in Nat
  BY LenProperties, ElementOfSeq
<1>1. \A i \in 1 .. n : \A x \in Nat :
          g[<<i, x>>] = b * x + s[i] /\ b * x + s[i] \in Nat
  <2>1. \A i \in 1 .. n : \A x \in Nat : b * x + s[i] \in Nat
    <3> SUFFICES ASSUME NEW i \in 1 .. n, NEW x \in Nat PROVE b * x + s[i] \in Nat
      OBVIOUS
    <3>1. b * x \in Nat /\ s[i] \in Nat
      BY <1>0, ProductType
    <3>2. QED
      BY <3>1
  <2>2. QED
    BY <2>1
<1> HIDE DEF n
<1>2. PICK f : Iterates(f, n, 0, g) /\ \A i \in 0 .. n : f[i] \in Nat
  <2> HIDE DEF g
  <2>1. 0 \in Nat
    OBVIOUS
  <2>2. \A i \in 1 .. n : \A x \in Nat : g[<<i, x>>] \in Nat
    BY <1>1
  <2>3. QED
    BY <1>0, <2>1, <2>2, IterationTyped
<1> HIDE DEF g
<1>3. Is(f)
  <2>1. ASSUME NEW i \in 0 .. n
        PROVE  f[i] = IF i = 0 THEN 0 ELSE b * f[i - 1] + s[i]
    <3>1. CASE i = 0
      BY <1>2, <3>1 DEF Iterates
    <3>2. CASE i # 0
      <4>1. i \in 1 .. n /\ i - 1 \in 0 .. n
        BY <1>0, <3>2
      <4>2. QED
        BY <1>1, <1>2, <3>2, <4>1 DEF Iterates
    <3>3. QED
      BY <3>1, <3>2
  <2>2. f = [i \in 0 .. n |-> f[i]]
    BY <1>2 DEF Iterates
  <2>3. QED
    BY <2>1, <2>2, Zenon
<1>4. Is(v)
  BY <1>3, Zenon
<1>5. Worth(b, s) = v[n]
  BY Zenon DEF Worth, n
<1> HIDE DEF v
<1>6. v[0] = 0 /\ \A i \in 1 .. n : v[i] = b * v[i - 1] + s[i]
  <2>1. \A i \in 0 .. n : v[i] = IF i = 0 THEN 0 ELSE b * v[i - 1] + s[i]
    BY <1>4, Zenon
  <2>2. 0 \in 0 .. n /\ \A i \in 1 .. n : i \in 0 .. n /\ i # 0
    BY <1>0
  <2>3. QED
    BY <2>1, <2>2, Zenon
<1>7. \A i \in 0 .. n : v[i] \in Nat
  <2>1. \A i \in 1 .. n : v[i - 1] \in Nat => v[i] \in Nat
    BY <1>1, <1>6
  <2>2. v[0] \in Nat
    BY <1>6
  <2>3. QED
    BY <1>0, <2>1, <2>2, IterationKeeps
<1>8. QED
  BY <1>5, <1>6, <1>7 DEF PartialWorths, n

\* Sums of the same digits are the same.
LEMMA SumsAgree ==
    ASSUME NEW b, NEW n \in Nat, NEW s, NEW t, NEW v, NEW w,
           PartialWorths(v, b, s, n), PartialWorths(w, b, t, n + 1), \A i \in 1 .. n : s[i] = t[i]
    PROVE  v[n] = w[n]
<1>1. v[0] = w[0]
  BY DEF PartialWorths
<1>2. \A i \in 1 .. n : i \in 1 .. n + 1
  OBVIOUS
<1>3. ASSUME NEW i \in 1 .. n, v[i - 1] = w[i - 1] PROVE v[i] = w[i]
  BY <1>2, <1>3, Zenon DEF PartialWorths
<1>4. \A i \in 0 .. n : v[i] = w[i]
  BY <1>1, <1>3, IterationsAgree
<1>5. QED
  BY <1>4

\* No digits stand for 0, and a digit more at the end for b times as much and
\* the digit.
LEMMA WorthSteps ==
    ASSUME NEW b \in Nat
    PROVE  /\ Worth(b, <<>>) = 0
           /\ \A s \in Seq(Nat) : Worth(b, s) \in Nat
           /\ \A s \in Seq(Nat) : \A x \in Nat :
                  Worth(b, Append(s, x)) = b * Worth(b, s) + x
<1>1. Worth(b, <<>>) = 0
  <2>1. <<>> \in Seq(Nat) /\ Len(<<>>) = 0
    OBVIOUS
  <2>2. QED
    BY <2>1, WorthRow DEF PartialWorths
<1>2. ASSUME NEW s \in Seq(Nat) PROVE Worth(b, s) \in Nat
  <2>1. Len(s) \in 0 .. Len(s)
    BY LenProperties
  <2>2. QED
    BY <2>1, WorthRow DEF PartialWorths
<1>3. ASSUME NEW s \in Seq(Nat), NEW x \in Nat
      PROVE  Worth(b, Append(s, x)) = b * Worth(b, s) + x
  <2> DEFINE t == Append(s, x)
             n == Len(s)
  <2>1. /\ t \in Seq(Nat) /\ n \in Nat /\ Len(t) = n + 1
        /\ t[n + 1] = x /\ \A i \in 1 .. n : t[i] = s[i]
    BY LenProperties, AppendProperties
  <2> HIDE DEF t, n
  <2>2. PICK v : PartialWorths(v, b, s, n) /\ Worth(b, s) = v[n]
    BY WorthRow DEF n
  <2>3. PICK w : PartialWorths(w, b, t, n + 1) /\ Worth(b, t) = w[n + 1]
    BY <2>1, WorthRow
  <2>4. \A i \in 1 .. n : s[i] = t[i]
    BY <2>1
  <2>5. v[n] = w[n]
    <3>1. n \in Nat
      BY <2>1
    <3>2. QED
      BY <2>2, <2>3, <2>4, <3>1, SumsAgree
  <2>6. n + 1 \in 1 .. n + 1 /\ (n + 1) - 1 = n /\ n \in 0 .. n
    BY <2>1
  <2>7. w[n + 1] = b * w[n] + t[n + 1]
    BY <2>3, <2>6, Zenon DEF PartialWorths
  <2>8. QED
    BY <2>1, <2>2, <2>3, <2>5, <2>6, <2>7, Zenon DEF t
<1>4. QED
  BY <1>1, <1>2, <1>3

\* A sequence is empty or another one with an element more.
LEMMA LastOf ==
    ASSUME NEW S, NEW s \in Seq(S), NEW n \in Nat, Len(s) = n + 1
    PROVE  \E r \in Seq(S) : \E x \in S : s = Append(r, x) /\ Len(r) = n
<1> DEFINE r == SubSeq(s, 1, n)
<1>1. r \in Seq(S) /\ s[n + 1] \in S /\ SubSeq(s, 1, n + 1) = Append(r, s[n + 1])
  BY PrefixGrows
<1>2. SubSeq(s, 1, n + 1) = s
  <2>1. SubSeq(s, 1, Len(s)) = s
    BY SubSeqFull
  <2>2. QED
    BY <2>1
<1>3. Len(r) = n
  <2>1. 1 \in 1 .. Len(s) + 1 /\ n \in 0 .. Len(s) /\ Len(s) \in Nat
    BY LenProperties
  <2>2. QED
    BY SubSeqProperties, <2>1
<1>4. QED
  BY <1>1, <1>2, <1>3

\* A greater factor makes a product greater by b at least.
LEMMA TimesGrows ==
    ASSUME NEW b \in Nat
    PROVE  \A u, w \in Nat : u < w => b * u + b <= b * w
<1> SUFFICES ASSUME NEW u \in Nat, NEW w \in Nat, u < w PROVE b * u + b <= b * w
  OBVIOUS
<1> DEFINE k == w - (u + 1)
<1>1. k \in Nat /\ w = u + 1 + k
  OBVIOUS
<1> HIDE DEF k
<1>2. b * w = b * u + b + b * k /\ b * k \in Nat /\ b * u \in Nat
  BY <1>1, ProductType
<1>3. QED
  BY <1>2

\* n digits stand for less than the n-th power.
LEMMA WorthBelow ==
    ASSUME NEW b \in Nat \ {0}, NEW s \in Seq(0 .. b - 1)
    PROVE  Worth(b, s) < Pow(b, Len(s))
<1> DEFINE D == 0 .. b - 1
           S == {n \in Nat : \A t \in Seq(D) : Len(t) = n => Worth(b, t) < Pow(b, n)}
<1>0. \A t \in Seq(D) : t \in Seq(Nat)
  OBVIOUS
<1>1. 0 \in S
  <2>1. \A t \in Seq(D) : Len(t) = 0 => t = <<>>
    BY EmptySeq
  <2>2. QED
    BY <2>1, WorthSteps, PowSteps
<1>2. ASSUME NEW n \in Nat, n \in S PROVE n + 1 \in S
  <2> SUFFICES ASSUME NEW t \in Seq(D), Len(t) = n + 1 PROVE Worth(b, t) < Pow(b, n + 1)
    OBVIOUS
  <2>1. PICK r \in Seq(D) : \E x \in D : t = Append(r, x) /\ Len(r) = n
    <3> HIDE DEF D
    <3> QED
      BY LastOf
  <2>2. PICK x \in D : t = Append(r, x)
    BY <2>1
  <2>3. Worth(b, r) < Pow(b, n) /\ Worth(b, r) \in Nat /\ Pow(b, n) \in Nat
    BY <1>0, <1>2, <2>1, WorthSteps, PowSteps
  <2>4. Worth(b, t) = b * Worth(b, r) + x /\ Pow(b, n + 1) = b * Pow(b, n)
    <3>1. r \in Seq(Nat) /\ x \in Nat
      BY <1>0
    <3>2. Worth(b, Append(r, x)) = b * Worth(b, r) + x
      BY <3>1, WorthSteps
    <3>3. QED
      BY <2>2, <3>2, PowSteps
  <2>5. \A u, w \in Nat : u < w => b * u + b <= b * w
    BY TimesGrows
  <2>6. b * Worth(b, r) + b <= b * Pow(b, n)
    BY <2>3, <2>5
  <2>7. b * Worth(b, r) \in Nat /\ b * Pow(b, n) \in Nat
    BY <2>3, ProductType
  <2>8. QED
    BY <2>4, <2>6, <2>7
<1>3. Nat \subseteq S
  <2> HIDE DEF S
  <2> QED
    BY <1>1, <1>2, Induction
<1>4. Len(s) \in Nat
  BY LenProperties
<1>5. QED
  BY <1>3, <1>4

\* The two facts of WorthSteps, one by one.
LEMMA WorthAppend ==
    ASSUME NEW b \in Nat, NEW s \in Seq(Nat), NEW x \in Nat
    PROVE  Worth(b, Append(s, x)) = b * Worth(b, s) + x /\ Worth(b, s) \in Nat
BY WorthSteps

\* Products of naturals, reordered.
LEMMA ProductsCommute ==
    /\ \A x, y, z \in Nat : x * (y * z) = y * (x * z)
    /\ \A x, y, z \in Nat : x * (y + z) = x * y + x * z
  OBVIOUS

\* A digit more at the start stands for itself times a power.
LEMMA WorthCons ==
    ASSUME NEW b \in Nat \ {0}, NEW x \in Nat, NEW s \in Seq(Nat)
    PROVE  Worth(b, <<x>> \o s) = x * Pow(b, Len(s)) + Worth(b, s)
<1> DEFINE Claim(t, n) == Worth(b, <<x>> \o t) = x * Pow(b, n) + Worth(b, t)
           S == {n \in Nat : \A t \in Seq(Nat) : Len(t) = n => Claim(t, n)}
<1>1. 0 \in S
  <2>1. \A t \in Seq(Nat) : Len(t) = 0 => t = <<>>
    BY EmptySeq
  <2>2. Claim(<<>>, 0)
    <3>1. <<x>> \o <<>> = Append(<<>>, x) /\ <<>> \in Seq(Nat)
      OBVIOUS
    <3>2. Worth(b, Append(<<>>, x)) = b * Worth(b, <<>>) + x
      BY <3>1, WorthAppend
    <3>3. Worth(b, <<>>) = 0 /\ Pow(b, 0) = 1
      BY WorthSteps, PowSteps
    <3>4. QED
      BY <3>1, <3>2, <3>3
  <2> HIDE DEF Claim
  <2>3. QED
    BY <2>1, <2>2
<1>2. ASSUME NEW n \in Nat, n \in S PROVE n + 1 \in S
  <2> SUFFICES ASSUME NEW t \in Seq(Nat), Len(t) = n + 1 PROVE Claim(t, n + 1)
    <3> HIDE DEF Claim
    <3> QED
      OBVIOUS
  <2>1. PICK r \in Seq(Nat) : \E y \in Nat : t = Append(r, y) /\ Len(r) = n
    BY LastOf, ZenonT(60)
  <2>2. PICK y \in Nat : t = Append(r, y)
    BY <2>1
  <2> DEFINE q == <<x>> \o r
  <2>3. q \in Seq(Nat) /\ <<x>> \o t = Append(q, y)
    <3>1. <<x>> \in Seq(Nat)
      OBVIOUS
    <3>2. QED
      BY <2>2, <3>1, ConcatAppend, ConcatParts
  <2>4. Claim(r, n)
    <3> HIDE DEF Claim
    <3> QED
      BY <1>2, <2>1
  <2> HIDE DEF q
  <2> DEFINE w == Worth(b, r)
             p == Pow(b, n)
  <2>5. /\ Worth(b, q) = x * p + w
        /\ Worth(b, <<x>> \o t) = b * Worth(b, q) + y
        /\ Worth(b, t) = b * w + y
        /\ Pow(b, n + 1) = b * p
        /\ w \in Nat /\ p \in Nat
    <3>1. Worth(b, q) = x * p + w
      BY <2>4 DEF q
    <3>2. Worth(b, <<x>> \o t) = b * Worth(b, q) + y
      <4>1. Worth(b, Append(q, y)) = b * Worth(b, q) + y
        BY <2>3, WorthAppend
      <4>2. QED
        BY <2>3, <4>1
    <3>3. Worth(b, t) = b * w + y
      BY <2>2, WorthAppend
    <3>4. Pow(b, n + 1) = b * p /\ w \in Nat /\ p \in Nat
      BY PowSteps, WorthSteps
    <3>5. QED
      BY <3>1, <3>2, <3>3, <3>4
  <2> HIDE DEF w, p
  <2>6. b * (x * p + w) = x * (b * p) + b * w
    <3>1. x * p \in Nat
      BY <2>5, ProductType
    <3>2. QED
      BY <2>5, <3>1, ProductsCommute
  <2>7. x * (b * p) \in Nat /\ b * w \in Nat
    BY <2>5, ProductType
  <2>8. QED
    BY <2>5, <2>6, <2>7
<1>3. Nat \subseteq S
  <2> HIDE DEF S
  <2> QED
    BY <1>1, <1>2, Induction
<1>4. Len(s) \in Nat
  BY LenProperties
<1>5. Claim(s, Len(s))
  <2> HIDE DEF Claim
  <2> QED
    BY <1>3, <1>4
<1>6. QED
  BY <1>5

\* What Repeat is made of.
LEMMA RepeatType ==
    ASSUME NEW S, NEW x \in S, NEW n \in Nat
    PROVE  /\ Repeat(x, n) \in Seq(S) /\ Len(Repeat(x, n)) = n
           /\ \A i \in 1 .. n : Repeat(x, n)[i] = x
  BY DEF Repeat

\* Repeat, one element more in front.
LEMMA RepeatSteps ==
    ASSUME NEW x \in Nat, NEW n \in Nat, NEW s \in Seq(Nat)
    PROVE  /\ Repeat(x, 0) \o s = s
           /\ Repeat(x, n + 1) \o s = <<x>> \o (Repeat(x, n) \o s)
<1>1. Repeat(x, 0) \o s = s
  <2>1. Repeat(x, 0) = <<>>
    BY DEF Repeat
  <2>2. QED
    BY <2>1
<1>2. Repeat(x, n + 1) = <<x>> \o Repeat(x, n)
  <2> DEFINE r == Repeat(x, n)
             q == Repeat(x, n + 1)
  <2>1. r \in Seq(Nat) /\ Len(r) = n /\ \A i \in 1 .. n : r[i] = x
    BY RepeatType
  <2>2. q \in Seq(Nat) /\ Len(q) = n + 1 /\ \A i \in 1 .. n + 1 : q[i] = x
    <3>1. n + 1 \in Nat
      OBVIOUS
    <3>2. QED
      BY <3>1, RepeatType
  <2> HIDE DEF r, q
  <2>3. /\ <<x>> \o r \in Seq(Nat) /\ Len(<<x>> \o r) = 1 + n
        /\ (<<x>> \o r)[1] = x
        /\ \A i \in 1 .. n : (<<x>> \o r)[1 + i] = r[i]
    <3>1. <<x>> \in Seq(Nat) /\ Len(<<x>>) = 1 /\ <<x>>[1] = x
      OBVIOUS
    <3>2. QED
      BY <2>1, <3>1, ConcatParts
  <2>4. ASSUME NEW i \in 1 .. n + 1 PROVE (<<x>> \o r)[i] = q[i]
    <3>1. CASE i = 1
      BY <2>2, <2>3, <3>1
    <3>2. CASE i # 1
      <4>1. i - 1 \in 1 .. n /\ 1 + (i - 1) = i
        BY <3>2
      <4>2. QED
        BY <2>1, <2>2, <2>3, <4>1
    <3>3. QED
      BY <3>1, <3>2
  <2>5. Len(<<x>> \o r) = Len(q)
    BY <2>2, <2>3
  <2>6. q = <<x>> \o r
    BY <2>2, <2>3, <2>4, <2>5, SeqEqual
  <2>7. QED
    BY <2>6 DEF q, r
<1>3. <<x>> \in Seq(Nat) /\ Repeat(x, n) \in Seq(Nat)
  <2>1. Repeat(x, n) \in Seq(Nat)
    BY RepeatType
  <2>2. QED
    BY <2>1
<1>4. (<<x>> \o Repeat(x, n)) \o s = <<x>> \o (Repeat(x, n) \o s)
  BY <1>3, ConcatThree
<1>5. QED
  BY <1>1, <1>2, <1>4

\* Zeros in front stand for nothing.
LEMMA WorthZeros ==
    ASSUME NEW b \in Nat \ {0}, NEW s \in Seq(Nat), NEW k \in Nat
    PROVE  Worth(b, Repeat(0, k) \o s) = Worth(b, s)
<1> DEFINE S == {n \in Nat : Worth(b, Repeat(0, n) \o s) = Worth(b, s)}
<1>1. 0 \in S
  BY RepeatSteps
<1>2. ASSUME NEW n \in Nat, n \in S PROVE n + 1 \in S
  <2> DEFINE t == Repeat(0, n) \o s
  <2>1. t \in Seq(Nat)
    BY RepeatType, ConcatParts
  <2>2. Repeat(0, n + 1) \o s = <<0>> \o t
    <3>1. 0 \in Nat
      OBVIOUS
    <3>2. QED
      BY <3>1, RepeatSteps, Zenon
  <2>3. Worth(b, t) = Worth(b, s)
    BY <1>2
  <2> HIDE DEF t
  <2>4. Worth(b, <<0>> \o t) = 0 * Pow(b, Len(t)) + Worth(b, t)
    BY <2>1, WorthCons
  <2>5. Len(t) \in Nat /\ Pow(b, Len(t)) \in Nat /\ Worth(b, t) \in Nat
    BY <2>1, LenProperties, PowSteps, WorthSteps
  <2>6. \A p \in Nat : 0 * p = 0
    OBVIOUS
  <2>7. 0 * Pow(b, Len(t)) = 0
    BY <2>5, <2>6
  <2>8. Worth(b, <<0>> \o t) = Worth(b, t)
    BY <2>4, <2>5, <2>7
  <2>9. Worth(b, Repeat(0, n + 1) \o s) = Worth(b, s)
    BY <2>2, <2>3, <2>8, Zenon
  <2>10. QED
    BY <2>9
<1>3. Nat \subseteq S
  <2> HIDE DEF S
  <2> QED
    BY <1>1, <1>2, Induction
<1>4. QED
  BY <1>3

\* A first digit that is not 0 stands for one power at least.
LEMMA WorthLead ==
    ASSUME NEW b \in Nat \ {0}, NEW s \in Seq(Nat), s # <<>>, s[1] # 0
    PROVE  Len(s) - 1 \in Nat /\ Pow(b, Len(s) - 1) <= Worth(b, s)
<1> DEFINE x == s[1]
           r == Tail(s)
<1>1. /\ x \in Nat \ {0} /\ r \in Seq(Nat) /\ s = <<x>> \o r
      /\ Len(r) = Len(s) - 1 /\ Len(r) \in Nat
  OBVIOUS
<1> HIDE DEF x, r
<1>2. Worth(b, s) = x * Pow(b, Len(r)) + Worth(b, r)
  BY <1>1, WorthCons
<1>3. Pow(b, Len(r)) \in Nat /\ Worth(b, r) \in Nat
  BY <1>1, PowSteps, WorthSteps
<1>4. \A p \in Nat : p <= x * p /\ x * p \in Nat
  BY <1>1
<1> DEFINE p == Pow(b, Len(r))
<1>5. p <= x * p /\ x * p \in Nat
  BY <1>3, <1>4
<1> DEFINE q == x * p
<1>6. Worth(b, s) = q + Worth(b, r)
  BY <1>2
<1> HIDE DEF q
<1>7. p <= Worth(b, s)
  BY <1>3, <1>5, <1>6 DEF q
<1>8. QED
  BY <1>1, <1>7

\* Digits, as many of them, that stand for the same number are the same.
LEMMA WorthUnique ==
    ASSUME NEW b \in Nat \ {0}, NEW s \in Seq(0 .. b - 1), NEW t \in Seq(0 .. b - 1),
           Len(s) = Len(t), Worth(b, s) = Worth(b, t)
    PROVE  s = t
<1> DEFINE D == 0 .. b - 1
           S == {n \in Nat : \A u, w \in Seq(D) :
                     Len(u) = n /\ Len(w) = n /\ Worth(b, u) = Worth(b, w) => u = w}
<1>1. 0 \in S
  <2>1. \A u \in Seq(D) : Len(u) = 0 => u = <<>>
    BY EmptySeq
  <2>2. QED
    BY <2>1
<1>2. ASSUME NEW n \in Nat, n \in S PROVE n + 1 \in S
  <2> SUFFICES ASSUME NEW u \in Seq(D), NEW w \in Seq(D), Len(u) = n + 1, Len(w) = n + 1,
                      Worth(b, u) = Worth(b, w)
               PROVE  u = w
    OBVIOUS
  <2> HIDE DEF D
  <2>1. PICK p \in Seq(D) : \E x \in D : u = Append(p, x) /\ Len(p) = n
    BY LastOf, ZenonT(60)
  <2>2. PICK x \in D : u = Append(p, x)
    BY <2>1
  <2>3. PICK q \in Seq(D) : \E y \in D : w = Append(q, y) /\ Len(q) = n
    BY LastOf, ZenonT(60)
  <2>4. PICK y \in D : w = Append(q, y)
    BY <2>3
  <2>5. /\ p \in Seq(Nat) /\ q \in Seq(Nat) /\ x \in Nat /\ y \in Nat /\ x < b /\ y < b
    BY SMTT(60) DEF D
  <2>6. Worth(b, u) = b * Worth(b, p) + x
    BY <2>2, <2>5, WorthSteps
  <2>7. Worth(b, w) = b * Worth(b, q) + y
    BY <2>4, <2>5, WorthSteps
  <2>8. Worth(b, p) \in Nat /\ Worth(b, q) \in Nat
    BY <2>5, WorthSteps
  <2>9. \A i, j \in Nat : b * i + x = b * j + y => i = j /\ x = y
    <3> SUFFICES ASSUME NEW i \in Nat, NEW j \in Nat, b * i + x = b * j + y
                 PROVE  i = j /\ x = y
      OBVIOUS
    <3>1. \A k, m \in Nat : k < m => b * k + b <= b * m
      BY TimesGrows
    <3>2. b * i \in Nat /\ b * j \in Nat
      BY ProductType
    <3> DEFINE k == b * i
               m == b * j
    <3>3. k \in Nat /\ m \in Nat /\ k + x = m + y
      BY <3>2
    <3>4. (i < j => k + b <= m) /\ (j < i => m + b <= k)
      BY <3>1
    <3>5. i = j => k = m
      OBVIOUS
    <3> HIDE DEF k, m
    <3>6. ~(i < j) /\ ~(j < i)
      BY <2>5, <3>3, <3>4
    <3>7. i = j
      BY <3>6
    <3>8. QED
      BY <2>5, <3>3, <3>5, <3>7
  <2>10. Worth(b, p) = Worth(b, q) /\ x = y
    BY <2>6, <2>7, <2>8, <2>9
  <2>11. p = q
    BY <1>2, <2>1, <2>3, <2>10
  <2>12. QED
    BY <2>2, <2>4, <2>10, <2>11
<1>3. Nat \subseteq S
  <2> HIDE DEF S
  <2> QED
    BY <1>1, <1>2, Induction
<1>4. Len(s) \in Nat
  BY LenProperties
<1>5. QED
  BY <1>3, <1>4

---------------------------------------------------------------------------
\* Zeros at the start.

Leads(s) == s = <<>> \/ s[1] # 0

\* n zeros, and no more.
IsZeros(s, n) == /\ \A i \in 1 .. n : s[i] = 0
                 /\ n < Len(s) => s[n + 1] # 0

\* Zeros counts the zeros a sequence begins with.
LEMMA ZerosExist ==
    ASSUME NEW s \in Seq(Nat)
    PROVE  Zeros(s) \in 0 .. Len(s) /\ IsZeros(s, Zeros(s))
<1>0. Len(s) \in Nat
  BY LenProperties
<1>1. \E n \in 0 .. Len(s) : IsZeros(s, n)
  <2> SUFFICES ASSUME \A n \in 0 .. Len(s) : ~IsZeros(s, n) PROVE FALSE
    OBVIOUS
  <2> DEFINE S == {n \in Nat : n <= Len(s) => \A i \in 1 .. n : s[i] = 0}
  <2>1. 0 \in S
    OBVIOUS
  <2>2. ASSUME NEW n \in Nat, n \in S PROVE n + 1 \in S
    <3> SUFFICES ASSUME n + 1 <= Len(s) PROVE \A i \in 1 .. n + 1 : s[i] = 0
      OBVIOUS
    <3>1. \A i \in 1 .. n : s[i] = 0
      BY <1>0, <2>2
    <3>2. ~IsZeros(s, n)
      BY <1>0
    <3>3. s[n + 1] = 0
      BY <3>1, <3>2 DEF IsZeros
    <3>4. QED
      BY <3>1, <3>3
  <2>3. Nat \subseteq S
    <3> HIDE DEF S
    <3> QED
      BY <2>1, <2>2, Induction
  <2>4. \A i \in 1 .. Len(s) : s[i] = 0
    BY <1>0, <2>3
  <2>5. IsZeros(s, Len(s))
    BY <1>0, <2>4 DEF IsZeros
  <2>6. QED
    BY <1>0, <2>5
<1>2. Zeros(s) = CHOOSE n \in 0 .. Len(s) : IsZeros(s, n)
  BY Zenon DEF Zeros, IsZeros
<1>3. QED
  BY <1>1, <1>2

\* There is one such count.
LEMMA ZerosUnique ==
    ASSUME NEW s \in Seq(Nat), NEW n \in 0 .. Len(s), IsZeros(s, n),
           NEW m \in 0 .. Len(s), IsZeros(s, m)
    PROVE  n = m
<1>1. Len(s) \in Nat
  BY LenProperties
<1>2. ASSUME NEW i \in 0 .. Len(s), NEW j \in 0 .. Len(s), IsZeros(s, i), IsZeros(s, j)
      PROVE  ~(i < j)
  BY <1>1, <1>2 DEF IsZeros
<1>3. ~(n < m) /\ ~(m < n)
  BY <1>2
<1>4. QED
  BY <1>1, <1>3

\* A sequence is the zeros at its start and what Strip leaves of it.
LEMMA StripParts ==
    ASSUME NEW D, D \subseteq Nat, 0 \in D, NEW s \in Seq(D)
    PROVE  /\ Zeros(s) \in Nat /\ Strip(s) \in Seq(D) /\ Leads(Strip(s))
           /\ Len(Strip(s)) = Len(s) - Zeros(s)
           /\ s = Repeat(0, Zeros(s)) \o Strip(s)
<1> DEFINE z == Zeros(s)
<1>1. s \in Seq(Nat) /\ Len(s) \in Nat
  BY LenProperties, SeqMonotonic
<1>2. z \in 0 .. Len(s) /\ IsZeros(s, z)
  BY <1>1, ZerosExist
<1> HIDE DEF z
<1>3. /\ SubSeq(s, 1, z) \in Seq(D) /\ SubSeq(s, z + 1, Len(s)) \in Seq(D)
      /\ SubSeq(s, 1, z) \o SubSeq(s, z + 1, Len(s)) = s
  BY <1>2, CutAndJoin
<1>4. SubSeq(s, 1, z) = Repeat(0, z)
  <2>1. Len(SubSeq(s, 1, z)) = z /\ \A i \in 1 .. z : SubSeq(s, 1, z)[i] = s[i]
    BY <1>1, <1>2
  <2>2. Repeat(0, z) \in Seq(D) /\ Len(Repeat(0, z)) = z /\ \A i \in 1 .. z : Repeat(0, z)[i] = 0
    BY <1>1, <1>2, RepeatType
  <2>3. \A i \in 1 .. z : SubSeq(s, 1, z)[i] = Repeat(0, z)[i]
    BY <1>2, <2>1, <2>2 DEF IsZeros
  <2>4. QED
    BY <1>3, <2>1, <2>2, <2>3, SeqEqual
<1>5. Strip(s) = SubSeq(s, z + 1, Len(s))
  BY DEF Strip, z
<1>6. Len(SubSeq(s, z + 1, Len(s))) = Len(s) - z
  BY <1>1, <1>2
<1>7. Leads(SubSeq(s, z + 1, Len(s)))
  <2>1. CASE z = Len(s)
    <3>1. Len(SubSeq(s, z + 1, Len(s))) = 0
      BY <1>1, <1>6, <2>1
    <3>2. QED
      BY <1>3, <3>1, EmptySeq DEF Leads
  <2>2. CASE z < Len(s)
    <3>1. SubSeq(s, z + 1, Len(s))[1] = s[z + 1]
      BY <1>1, <1>2, <2>2
    <3>2. QED
      BY <1>2, <2>2, <3>1 DEF Leads, IsZeros
  <2>3. QED
    BY <1>1, <1>2, <2>1, <2>2
<1>8. z \in Nat
  BY <1>1, <1>2
<1>9. QED
  BY <1>3, <1>4, <1>5, <1>6, <1>7, <1>8 DEF z

\* And the zeros and the rest that a sequence is put together of are those.
LEMMA StripOf ==
    ASSUME NEW D, D \subseteq Nat, 0 \in D, NEW n \in Nat, NEW t \in Seq(D), Leads(t)
    PROVE  /\ Repeat(0, n) \o t \in Seq(D) /\ Len(Repeat(0, n) \o t) = n + Len(t)
           /\ Zeros(Repeat(0, n) \o t) = n /\ Strip(Repeat(0, n) \o t) = t
<1> DEFINE r == Repeat(0, n)
           s == r \o t
<1>1. r \in Seq(D) /\ Len(r) = n /\ \A i \in 1 .. n : r[i] = 0
  BY RepeatType
<1> HIDE DEF r
<1>2. /\ s \in Seq(D) /\ Len(s) = n + Len(t)
      /\ \A i \in 1 .. n : s[i] = r[i]
      /\ \A i \in 1 .. Len(t) : s[n + i] = t[i]
  <2>1. /\ r \o t \in Seq(D) /\ Len(r \o t) = Len(r) + Len(t)
        /\ \A i \in 1 .. Len(r) : (r \o t)[i] = r[i]
        /\ \A i \in 1 .. Len(t) : (r \o t)[Len(r) + i] = t[i]
    <3>1. r \in Seq(D)
      BY <1>1
    <3>2. QED
      BY <3>1, ConcatParts
  <2>2. QED
    BY <1>1, <2>1
<1>3. Len(t) \in Nat /\ s \in Seq(Nat)
  <2> HIDE DEF s
  <2> QED
    BY <1>2, LenProperties, SeqMonotonic
<1>4. IsZeros(s, n)
  <2>1. \A i \in 1 .. n : s[i] = 0
    BY <1>1, <1>2
  <2>2. ASSUME n < Len(s) PROVE s[n + 1] # 0
    <3>1. 1 \in 1 .. Len(t) /\ t # <<>>
      BY <1>2, <1>3, <2>2
    <3>2. QED
      BY <1>2, <3>1 DEF Leads
  <2>3. QED
    BY <2>1, <2>2 DEF IsZeros
<1>5. Zeros(s) = n
  <2> HIDE DEF s
  <2>1. n \in 0 .. Len(s)
    BY <1>2, <1>3
  <2>2. QED
    BY <1>3, <1>4, <2>1, ZerosExist, ZerosUnique
<1>6. SubSeq(s, n + 1, n + Len(t)) = t
  BY <1>1, ConcatDrop
<1>7. Strip(s) = t
  BY <1>2, <1>5, <1>6 DEF Strip
<1>8. QED
  BY <1>2, <1>5, <1>7 DEF r

---------------------------------------------------------------------------
\* The long division.

Digit == 0 .. 57

\* What is known of a division on its way: a remainder, and a quotient of bytes
\* that does not begin with 0.
Divided == {a \in [rem : Digit, quo : Seq(Octet)] : Leads(a.quo)}

\* Quotient and remainder by 58, and by 256.
LEMMA Quotient58 ==
    ASSUME NEW acc \in Nat
    PROVE  /\ acc % 58 \in 0 .. 57 /\ acc \div 58 \in Nat
           /\ acc = 58 * (acc \div 58) + (acc % 58)
OBVIOUS

\* The same for 256.
LEMMA Quotient256 ==
    ASSUME NEW acc \in Nat
    PROVE  /\ acc % 256 \in 0 .. 255 /\ acc \div 256 \in Nat
           /\ acc = 256 * (acc \div 256) + (acc % 256)
OBVIOUS

\* A byte more brings down 256 times what there was, and the byte.
LEMMA DivideStep ==
    ASSUME NEW a \in Divided, NEW byte \in Octet
    PROVE  /\ DivideByte(a, byte) \in Divided
           /\ 58 * Worth(256, DivideByte(a, byte).quo) + DivideByte(a, byte).rem
                  = 256 * (58 * Worth(256, a.quo) + a.rem) + byte
<1> DEFINE acc == 256 * a.rem + byte
           q == acc \div 58
           r == acc % 58
           w == Worth(256, a.quo)
           d == DivideByte(a, byte)
<1>1. a.rem \in Digit /\ a.quo \in Seq(Octet) /\ Leads(a.quo)
  BY DEF Divided
<1>0. a.rem \in 0 .. 57 /\ byte \in 0 .. 255
  BY <1>1 DEF Digit, Octet
<1>2. r \in Digit /\ q \in Octet /\ acc = 58 * q + r
  <2>1. 256 * a.rem + byte \in Nat /\ 256 * a.rem + byte < 58 * 256
    BY <1>0
  <2> HIDE DEF acc
  <2>2. acc \in Nat /\ acc < 58 * 256
    BY <2>1 DEF acc
  <2>3. r \in 0 .. 57 /\ q \in Nat /\ acc = 58 * q + r
    BY <2>2, Quotient58
  <2> HIDE DEF q, r
  <2>4. q <= 255
    BY <2>2, <2>3
  <2>5. QED
    BY <2>3, <2>4 DEF Digit, Octet
<1> HIDE DEF q, r
<1>3. a.quo \in Seq(Nat) /\ w \in Nat /\ q \in Nat
  <2>1. Octet \subseteq Nat
    BY DEF Octet
  <2>2. a.quo \in Seq(Nat)
    BY <1>1, <2>1, SeqMonotonic
  <2>3. w \in Nat
    BY <2>2, WorthSteps, ZenonT(60)
  <2>4. QED
    BY <1>2, <2>1, <2>2, <2>3
<1>4. d = [rem |-> r, quo |-> IF a.quo = <<>> /\ q = 0 THEN <<>> ELSE Append(a.quo, q)]
  <2> USE DEF q, r
  <2> QED
    BY Zenon DEF DivideByte
<1> HIDE DEF d
<1>5. CASE a.quo = <<>> /\ q = 0
  <2>1. d = [rem |-> r, quo |-> <<>>]
    BY <1>4, <1>5
  <2>2. d \in Divided
    BY <1>2, <2>1 DEF Divided, Leads
  <2>3. Worth(256, d.quo) = 0 /\ w = 0 /\ d.rem = r
    BY <1>5, <2>1, WorthSteps
  <2> HIDE DEF w
  <2>4. 256 * a.rem + byte = r
    BY <1>2, <1>5 DEF Digit
  <2>5. 58 * 0 + r = 256 * (58 * 0 + a.rem) + byte
    BY <1>0, <2>4
  <2>6. 58 * Worth(256, d.quo) + d.rem = 256 * (58 * w + a.rem) + byte
    BY <2>3, <2>5, Zenon
  <2>7. QED
    BY <2>2, <2>6 DEF d, w
<1>6. CASE ~(a.quo = <<>> /\ q = 0)
  <2>1. d = [rem |-> r, quo |-> Append(a.quo, q)]
    BY <1>4, <1>6
  <2>2. Append(a.quo, q) \in Seq(Octet) /\ Leads(Append(a.quo, q))
    <3>1. Append(a.quo, q) \in Seq(Octet)
      BY <1>1, <1>2
    <3>2. CASE a.quo = <<>>
      <4>1. Append(a.quo, q) = <<q>> /\ q # 0
        BY <1>6, <3>2
      <4>2. <<q>>[1] # 0
        BY <4>1
      <4>3. QED
        BY <3>1, <4>1, <4>2, Zenon DEF Leads
    <3>3. CASE a.quo # <<>>
      <4>1. Append(a.quo, q)[1] = a.quo[1]
        BY <1>1, <3>3
      <4>2. Append(a.quo, q) # <<>>
        BY <1>1
      <4>3. QED
        BY <1>1, <3>1, <3>3, <4>1 DEF Leads
    <3>4. QED
      BY <3>1, <3>2, <3>3
  <2>3. d \in Divided
    BY <1>2, <2>1, <2>2 DEF Divided
  <2>4. Worth(256, d.quo) = 256 * w + q /\ d.rem = r
    <3>1. Worth(256, Append(a.quo, q)) = 256 * w + q
      BY <1>3, WorthAppend
    <3>2. QED
      BY <2>1, <3>1
  <2>5. 58 * (256 * w + q) + r = 256 * (58 * w + a.rem) + byte
    <3>1. 256 * a.rem + byte = 58 * q + r
      BY <1>2
    <3>2. a.rem \in Nat /\ byte \in Nat /\ r \in Nat /\ q \in Nat
      <4>1. a.rem \in Nat /\ byte \in Nat
        BY <1>0
      <4>2. r \in Nat /\ q \in Nat
        BY <1>2, <1>3 DEF Digit
      <4>3. QED
        BY <4>1, <4>2
    <3> DEFINE m == a.rem
    <3>3. m \in Nat /\ 256 * m + byte = 58 * q + r
      BY <3>1, <3>2
    <3> HIDE DEF w, m
    <3>4. 58 * (256 * w + q) + r = 256 * (58 * w + m) + byte
      BY <1>3, <3>2, <3>3
    <3>5. QED
      BY <3>4 DEF m
  <2>6. QED
    BY <2>3, <2>4, <2>5 DEF d, w
<1>7. QED
  BY <1>5, <1>6

\* Division of bytes by 58.
LEMMA DivideIs ==
    ASSUME NEW s \in Seq(Octet)
    PROVE  /\ Divide(s) \in Divided
           /\ Worth(256, s) = 58 * Worth(256, Divide(s).quo) + Divide(s).rem
<1> DEFINE n == Len(s)
           b == [rem |-> 0, quo |-> <<>>]
           Is(f) == f = [i \in 0 .. n |-> IF i = 0 THEN b ELSE DivideByte(f[i - 1], s[i])]
           g == [x \in (1 .. n) \X Divided |-> DivideByte(x[2], s[x[1]])]
           v == CHOOSE f : Is(f)
<1>0. /\ n \in Nat /\ \A i \in 1 .. n : s[i] \in Octet
      /\ b \in Divided
  <2>1. n \in Nat /\ \A i \in 1 .. n : s[i] \in Octet
    BY LenProperties, ElementOfSeq
  <2>2. b \in Divided
    BY DEF Divided, Digit, Leads
  <2>3. QED
    BY <2>1, <2>2
<1>1. \A i \in 1 .. n : \A x \in Divided :
          g[<<i, x>>] = DivideByte(x, s[i]) /\ DivideByte(x, s[i]) \in Divided
  BY <1>0, DivideStep
<1> HIDE DEF n, b
<1>2. PICK f : Iterates(f, n, b, g) /\ \A i \in 0 .. n : f[i] \in Divided
  <2> HIDE DEF g
  <2>1. \A i \in 1 .. n : \A x \in Divided : g[<<i, x>>] \in Divided
    BY <1>1
  <2>2. QED
    BY <1>0, <2>1, IterationTyped
<1> HIDE DEF g
<1>3. Is(f)
  <2>1. ASSUME NEW i \in 0 .. n
        PROVE  f[i] = IF i = 0 THEN b ELSE DivideByte(f[i - 1], s[i])
    <3>1. CASE i = 0
      BY <1>2, <3>1 DEF Iterates
    <3>2. CASE i # 0
      <4>1. i \in 1 .. n /\ i - 1 \in 0 .. n
        BY <1>0, <3>2
      <4>2. f[i] = g[<<i, f[i - 1]>>] /\ f[i - 1] \in Divided
        BY <1>2, <4>1 DEF Iterates
      <4>3. QED
        BY <1>1, <3>2, <4>1, <4>2
    <3>3. QED
      BY <3>1, <3>2
  <2>2. f = [i \in 0 .. n |-> f[i]]
    BY <1>2 DEF Iterates
  <2>3. QED
    BY <2>1, <2>2, Zenon
<1>4. Is(v)
  BY <1>3, Zenon
<1>5. Divide(s) = v[n]
  BY Zenon DEF Divide, n, b
<1> HIDE DEF v
<1>6. v[0] = b /\ \A i \in 1 .. n : v[i] = DivideByte(v[i - 1], s[i])
  <2>1. \A i \in 0 .. n : v[i] = IF i = 0 THEN b ELSE DivideByte(v[i - 1], s[i])
    BY <1>4, Zenon
  <2>2. 0 \in 0 .. n /\ \A i \in 1 .. n : i \in 0 .. n /\ i # 0
    BY <1>0
  <2>3. QED
    BY <2>1, <2>2, Zenon
<1> DEFINE Good(i) == /\ v[i] \in Divided
                      /\ Worth(256, SubSeq(s, 1, i)) = 58 * Worth(256, v[i].quo) + v[i].rem
           S == {i \in Nat : i <= n => Good(i)}
<1>7. 0 \in S
  <2>1. SubSeq(s, 1, 0) = <<>>
    BY <1>0
  <2>2. v[0].quo = <<>> /\ v[0].rem = 0
    BY <1>6 DEF b
  <2>3. Good(0)
    <3>1. Worth(256, <<>>) = 0
      BY WorthSteps
    <3>2. 0 = 58 * 0 + 0
      OBVIOUS
    <3>3. v[0] \in Divided
      BY <1>0, <1>6
    <3>4. QED
      BY <2>1, <2>2, <3>1, <3>2, <3>3, Zenon
  <2> HIDE DEF Good
  <2>4. QED
    BY <2>3
<1>8. ASSUME NEW i \in Nat, i \in S PROVE i + 1 \in S
  <2> SUFFICES ASSUME i + 1 <= n PROVE Good(i + 1)
    <3> HIDE DEF Good
    <3> QED
      OBVIOUS
  <2>1. Good(i)
    <3> HIDE DEF Good
    <3> QED
      BY <1>0, <1>8
  <2> DEFINE p == SubSeq(s, 1, i)
             c == s[i + 1]
             a == v[i]
  <2>2. /\ p \in Seq(Octet) /\ c \in Octet /\ SubSeq(s, 1, i + 1) = Append(p, c)
    BY PrefixGrows DEF n
  <2>3. i + 1 \in 1 .. n /\ (i + 1) - 1 = i
    BY <1>0
  <2>4. v[i + 1] = DivideByte(a, c)
    BY <1>6, <2>3
  <2>5. a \in Divided /\ Worth(256, p) = 58 * Worth(256, a.quo) + a.rem
    BY <2>1
  <2> HIDE DEF p, c, a
  <2>6. Worth(256, Append(p, c)) = 256 * Worth(256, p) + c
    <3>1. Octet \subseteq Nat
      BY DEF Octet
    <3>2. p \in Seq(Nat) /\ c \in Nat
      BY <2>2, <3>1, SeqMonotonic
    <3>3. QED
      BY <3>2, WorthAppend
  <2>7. /\ DivideByte(a, c) \in Divided
        /\ 58 * Worth(256, DivideByte(a, c).quo) + DivideByte(a, c).rem
               = 256 * (58 * Worth(256, a.quo) + a.rem) + c
    BY <2>2, <2>5, DivideStep
  <2>8. QED
    BY <2>2, <2>4, <2>5, <2>6, <2>7, ZenonT(60)
<1>9. Good(n)
  <2> HIDE DEF Good
  <2>1. Nat \subseteq S
    <3> HIDE DEF S
    <3> QED
      BY <1>7, <1>8, Induction
  <2>2. QED
    BY <1>0, <2>1
<1>10. SubSeq(s, 1, n) = s
  BY SubSeqFull DEF n
<1>11. QED
  BY <1>5, <1>9, <1>10

---------------------------------------------------------------------------
\* The loop of encode_base58.

\* What holds between its rounds: payload and digits together stand for the
\* bytes s, and neither begins with a zero that the bytes do not call for.
LoopOf(s) ==
    {a \in [payload : Seq(Octet), digits : Seq(Digit)] :
        /\ Worth(256, s) = Worth(256, a.payload) * Pow(58, Len(a.digits)) + Worth(58, a.digits)
        /\ a.digits # <<>> => Leads(a.payload)
        /\ a.payload = <<>> /\ a.digits # <<>> => a.digits[1] # 0 \/ a.digits = <<0>>}

\* Bytes and digits are numbers.
LEMMA Numerals ==
    /\ \A s \in Seq(Octet) : s \in Seq(Nat) /\ Worth(256, s) \in Nat
    /\ \A s \in Seq(Digit) : s \in Seq(Nat) /\ Worth(58, s) \in Nat
<1>1. Octet \subseteq Nat /\ Digit \subseteq Nat
  BY DEF Octet, Digit
<1>2. /\ \A s \in Seq(Octet) : s \in Seq(Nat)
      /\ \A s \in Seq(Digit) : s \in Seq(Nat)
  BY <1>1, SeqMonotonic
<1>3. QED
  BY <1>2, WorthSteps, ZenonT(60)

\* The powers in use.
LEMMA Powers ==
    /\ Pow(16, 0) = 1 /\ Pow(58, 0) = 1 /\ Pow(256, 0) = 1
    /\ \A n \in Nat : Pow(16, n) \in Nat \ {0} /\ Pow(16, n + 1) = 16 * Pow(16, n)
    /\ \A n \in Nat : Pow(58, n) \in Nat \ {0} /\ Pow(58, n + 1) = 58 * Pow(58, n)
    /\ \A n \in Nat : Pow(256, n) \in Nat \ {0} /\ Pow(256, n + 1) = 256 * Pow(256, n)
<1> DEFINE Steps(b) == /\ Pow(b, 0) = 1
                       /\ \A n \in Nat : Pow(b, n) \in Nat \ {0} /\ Pow(b, n + 1) = b * Pow(b, n)
<1>1. \A b \in Nat \ {0} : Steps(b)
  BY PowSteps
<1>2. Steps(16) /\ Steps(58) /\ Steps(256)
  <2> HIDE DEF Steps
  <2> QED
    BY <1>1
<1>3. QED
  BY <1>2

\* Bytes with a first one that is not 0 stand for more than 0.
LEMMA LeadsPositive ==
    \A s \in Seq(Nat) : s # <<>> /\ Leads(s) => Worth(256, s) > 0 /\ Worth(58, s) > 0
<1> SUFFICES ASSUME NEW s \in Seq(Nat), s # <<>>, Leads(s)
             PROVE  Worth(256, s) > 0 /\ Worth(58, s) > 0
  OBVIOUS
<1>1. s[1] # 0
  BY DEF Leads
<1>2. Len(s) - 1 \in Nat /\ Pow(256, Len(s) - 1) <= Worth(256, s)
  BY <1>1, WorthLead
<1>3. Pow(58, Len(s) - 1) <= Worth(58, s)
  BY <1>1, WorthLead
<1>4. Pow(256, Len(s) - 1) \in Nat \ {0} /\ Pow(58, Len(s) - 1) \in Nat \ {0}
  <2> DEFINE n == Len(s) - 1
  <2>1. n \in Nat
    BY <1>2
  <2> HIDE DEF n
  <2>2. Pow(256, n) \in Nat \ {0}
    BY <2>1, Powers, ZenonT(60)
  <2>3. Pow(58, n) \in Nat \ {0}
    BY <2>1, Powers
  <2>4. QED
    BY <2>2, <2>3 DEF n
<1>5. Worth(256, s) \in Nat /\ Worth(58, s) \in Nat
  BY WorthSteps, ZenonT(60)
<1>6. QED
  BY <1>2, <1>3, <1>4, <1>5

\* A round keeps it, leaves digits, and takes away a factor of 58.
LEMMA RoundKeeps ==
    ASSUME NEW s \in Seq(Octet), NEW a \in LoopOf(s)
    PROVE  /\ Round(a) \in LoopOf(s)
           /\ a.payload # <<>> \/ a.digits # <<>> => Round(a).digits # <<>>
           /\ 58 * Worth(256, Round(a).payload) <= Worth(256, a.payload)
<1> DEFINE p == a.payload
           d == Divide(p)
           q == d.quo
           m == d.rem
           t == a.digits
           u == <<m>> \o t
<1>1. /\ p \in Seq(Octet) /\ t \in Seq(Digit)
      /\ Worth(256, s) = Worth(256, p) * Pow(58, Len(t)) + Worth(58, t)
      /\ t # <<>> => Leads(p)
      /\ p = <<>> /\ t # <<>> => t[1] # 0 \/ t = <<0>>
  BY DEF LoopOf
<1>2. CASE p = <<>>
  <2>1. Round(a) = a
    BY <1>2 DEF Round
  <2>2. Worth(256, p) = 0
    BY <1>2, WorthSteps
  <2>3. QED
    BY <1>2, <2>1, <2>2
<1>3. CASE p # <<>>
  <2>1. d \in Divided /\ Worth(256, p) = 58 * Worth(256, q) + m
    BY <1>1, DivideIs
  <2>2. Round(a) = [payload |-> q, digits |-> u]
    BY <1>3 DEF Round
  <2>3. q \in Seq(Octet) /\ Leads(q) /\ m \in Digit
    BY <2>1 DEF Divided
  <2> HIDE DEF d, q, m, p, t
  <2>4. /\ u \in Seq(Digit) /\ Len(u) = Len(t) + 1 /\ u # <<>> /\ u[1] = m
        /\ t = <<>> => u = <<m>>
    <3>1. <<m>> \in Seq(Digit) /\ Len(<<m>>) = 1 /\ <<m>>[1] = m
      BY <2>3
    <3>2. /\ <<m>> \o t \in Seq(Digit) /\ Len(<<m>> \o t) = Len(<<m>>) + Len(t)
          /\ \A i \in 1 .. Len(<<m>>) : (<<m>> \o t)[i] = <<m>>[i]
      <4>1. <<m>> \in Seq(Digit)
        BY <3>1
      <4>2. QED
        BY <1>1, <4>1, ConcatParts
    <3>3. Len(t) \in Nat
      BY <1>1, LenProperties
    <3>4. u \in Seq(Digit) /\ Len(u) = Len(t) + 1 /\ u[1] = m
      BY <3>1, <3>2, <3>3
    <3>5. u # <<>>
      <4> HIDE DEF u
      <4> QED
        BY <3>3, <3>4
    <3>6. t = <<>> => u = <<m>>
      BY <3>1
    <3>7. QED
      BY <3>4, <3>5, <3>6
  <2>5. Worth(58, u) = m * Pow(58, Len(t)) + Worth(58, t)
    <3>1. t \in Seq(Nat) /\ m \in Nat
      BY <1>1, <2>3, Numerals DEF Digit
    <3>2. QED
      BY <3>1, WorthCons
  <2> HIDE DEF u
  <2> DEFINE n  == Len(t)
             k  == Pow(58, n)
             wq == Worth(256, q)
             wp == Worth(256, p)
             wt == Worth(58, t)
  <2>6. /\ Pow(58, Len(u)) = 58 * k /\ k \in Nat \ {0}
        /\ wq \in Nat /\ wp \in Nat /\ wt \in Nat /\ m \in Nat
    <3>1. n \in Nat
      BY <1>1, LenProperties
    <3>2. k \in Nat \ {0} /\ Pow(58, n + 1) = 58 * k
      <4> HIDE DEF n
      <4>1. Pow(58, n) \in Nat \ {0} /\ Pow(58, n + 1) = 58 * Pow(58, n)
        BY <3>1, Powers
      <4>2. QED
        BY <4>1
    <3>3. Len(u) = n + 1
      BY <2>4
    <3>4. wq \in Nat /\ wp \in Nat /\ wt \in Nat
      BY <1>1, <2>3, Numerals
    <3>5. m \in Nat
      BY <2>3 DEF Digit
    <3>6. QED
      BY <3>2, <3>3, <3>4, <3>5
  <2>7. wp = 58 * wq + m /\ Worth(256, s) = wp * k + wt /\ Worth(58, u) = m * k + wt
    BY <1>1, <2>1, <2>5
  <2>8. Worth(256, s) = wq * Pow(58, Len(u)) + Worth(58, u)
    <3> HIDE DEF k, wq, wp, wt
    <3>1. (58 * wq + m) * k + wt = wq * (58 * k) + (m * k + wt)
      BY <2>6
    <3>2. QED
      BY <2>6, <2>7, <3>1
  <2>9. q = <<>> => u[1] # 0 \/ u = <<0>>
    <3> SUFFICES ASSUME q = <<>> PROVE u[1] # 0 \/ u = <<0>>
      OBVIOUS
    <3>1. wq = 0
      BY WorthSteps
    <3>2. m = wp
      <4> HIDE DEF wq, wp
      <4> QED
        BY <2>6, <2>7, <3>1
    <3>3. CASE t = <<>>
      BY <2>4, <3>3
    <3>4. CASE t # <<>>
      <4>1. Leads(p) /\ p \in Seq(Nat)
        BY <1>1, <3>4, Numerals
      <4>2. wp > 0
        BY <1>3, <4>1, LeadsPositive
      <4>3. QED
        BY <2>4, <2>6, <3>2, <4>2
    <3>5. QED
      BY <3>3, <3>4
  <2>10. Round(a) \in LoopOf(s)
    <3> DEFINE c == [payload |-> q, digits |-> u]
    <3>1. c.payload = q /\ c.digits = u /\ c \in [payload : Seq(Octet), digits : Seq(Digit)]
      BY <2>3, <2>4
    <3> HIDE DEF c
    <3>2. /\ Worth(256, s)
                 = Worth(256, c.payload) * Pow(58, Len(c.digits)) + Worth(58, c.digits)
          /\ Leads(c.payload)
          /\ c.payload = <<>> => c.digits[1] # 0 \/ c.digits = <<0>>
      BY <2>3, <2>8, <2>9, <3>1, Zenon
    <3>3. c \in LoopOf(s)
      BY <3>1, <3>2 DEF LoopOf
    <3>4. QED
      BY <2>2, <3>3 DEF c
  <2>11. Round(a).payload = q /\ Round(a).digits = u
    BY <2>2
  <2>12. 58 * wq <= wp
    <3> HIDE DEF wq, wp
    <3> QED
      BY <2>6, <2>7
  <2>13. QED
    BY <2>4, <2>10, <2>11, <2>12 DEF p
<1>4. QED
  BY <1>2, <1>3

\* Two powers of 16 are one of 256.
LEMMA PowSquares == \A n \in Nat : Pow(16, 2 * n) = Pow(256, n)
<1> DEFINE S == {n \in Nat : Pow(16, 2 * n) = Pow(256, n)}
<1>1. 0 \in S
  <2>1. 2 * 0 = 0 /\ Pow(16, 0) = 1 /\ Pow(256, 0) = 1
    BY Powers
  <2>2. QED
    BY <2>1
<1>2. ASSUME NEW n \in Nat, n \in S PROVE n + 1 \in S
  <2> DEFINE k == 2 * n
  <2>1. k \in Nat /\ k + 1 \in Nat /\ 2 * (n + 1) = (k + 1) + 1 /\ Pow(16, k) = Pow(256, n)
    BY <1>2
  <2> HIDE DEF k
  <2>2. /\ Pow(16, (k + 1) + 1) = 16 * Pow(16, k + 1)
        /\ Pow(16, k + 1) = 16 * Pow(16, k) /\ Pow(16, k) \in Nat
    BY <2>1, Powers
  <2>3. Pow(256, n + 1) = 256 * Pow(256, n)
    BY Powers
  <2>4. Pow(16, 2 * (n + 1)) = Pow(256, n + 1)
    BY <2>1, <2>2, <2>3
  <2>5. QED
    BY <2>4
<1>3. Nat \subseteq S
  <2> HIDE DEF S
  <2> QED
    BY <1>1, <1>2, Induction
<1>4. QED
  BY <1>3

\* A smaller factor makes a product smaller.
LEMMA TimesMonotone == \A x, y, p \in Nat : x <= y => x * p <= y * p
<1> SUFFICES ASSUME NEW x \in Nat, NEW y \in Nat, NEW p \in Nat, x <= y
             PROVE  x * p <= y * p
  OBVIOUS
<1> DEFINE k == y - x
<1>1. k \in Nat /\ y = x + k
  OBVIOUS
<1> HIDE DEF k
<1>2. y * p = x * p + k * p /\ k * p \in Nat /\ x * p \in Nat
  BY <1>1
<1>3. QED
  BY <1>2

\* The rounds, one by one.
LEMMA RoundsTaken ==
    ASSUME NEW s \in Seq(Octet)
    PROVE  \E v : /\ v[0] = [payload |-> s, digits |-> <<>>]
                  /\ \A i \in 1 .. 2 * Len(s) : v[i] = Round(v[i - 1])
                  /\ Digits(s) = v[2 * Len(s)].digits
                  /\ \A i \in 0 .. 2 * Len(s) : v[i] \in LoopOf(s)
<1> DEFINE n == 2 * Len(s)
           b == [payload |-> s, digits |-> <<>>]
           Is(f) == f = [i \in 0 .. n |-> IF i = 0 THEN b ELSE Round(f[i - 1])]
           g == [x \in (1 .. n) \X LoopOf(s) |-> Round(x[2])]
           v == CHOOSE f : Is(f)
<1>0. n \in Nat /\ b \in LoopOf(s)
  <2>1. n \in Nat
    BY LenProperties
  <2>2. /\ b \in [payload : Seq(Octet), digits : Seq(Digit)]
        /\ b.payload = s /\ b.digits = <<>> /\ Len(<<>>) = 0
    OBVIOUS
  <2>3. Worth(256, s) = Worth(256, s) * Pow(58, 0) + Worth(58, <<>>)
    <3>1. Worth(256, s) \in Nat /\ Pow(58, 0) = 1 /\ Worth(58, <<>>) = 0
      BY Numerals, Powers, WorthSteps
    <3>2. QED
      BY <3>1
  <2> HIDE DEF b
  <2>4. b \in LoopOf(s)
    BY <2>2, <2>3 DEF LoopOf
  <2>5. QED
    BY <2>1, <2>4
<1>1. \A i \in 1 .. n : \A x \in LoopOf(s) :
          g[<<i, x>>] = Round(x) /\ Round(x) \in LoopOf(s)
  BY <1>0, RoundKeeps
<1> HIDE DEF n, b
<1>2. PICK f : Iterates(f, n, b, g) /\ \A i \in 0 .. n : f[i] \in LoopOf(s)
  <2> HIDE DEF g
  <2>1. \A i \in 1 .. n : \A x \in LoopOf(s) : g[<<i, x>>] \in LoopOf(s)
    BY <1>1
  <2>2. QED
    BY <1>0, <2>1, IterationTyped
<1> HIDE DEF g
<1>3. Is(f)
  <2>1. ASSUME NEW i \in 0 .. n
        PROVE  f[i] = IF i = 0 THEN b ELSE Round(f[i - 1])
    <3>1. CASE i = 0
      BY <1>2, <3>1 DEF Iterates
    <3>2. CASE i # 0
      <4>1. i \in 1 .. n /\ i - 1 \in 0 .. n
        BY <1>0, <3>2
      <4>2. f[i] = g[<<i, f[i - 1]>>] /\ f[i - 1] \in LoopOf(s)
        BY <1>2, <4>1 DEF Iterates
      <4>3. QED
        BY <1>1, <3>2, <4>1, <4>2
    <3>3. QED
      BY <3>1, <3>2
  <2>2. f = [i \in 0 .. n |-> f[i]]
    BY <1>2 DEF Iterates
  <2>3. QED
    BY <2>1, <2>2, Zenon
<1>4. Is(v)
  BY <1>3, Zenon
<1>5. Digits(s) = v[n].digits
  BY Zenon DEF Digits, n, b
<1> HIDE DEF v
<1>6. v[0] = b /\ \A i \in 1 .. n : v[i] = Round(v[i - 1])
  <2>1. \A i \in 0 .. n : v[i] = IF i = 0 THEN b ELSE Round(v[i - 1])
    BY <1>4, Zenon
  <2>2. 0 \in 0 .. n /\ \A i \in 1 .. n : i \in 0 .. n /\ i # 0
    BY <1>0
  <2>3. QED
    BY <2>1, <2>2, Zenon
<1>7. \A i \in 0 .. n : v[i] \in LoopOf(s)
  <2>1. \A i \in 1 .. n : v[i - 1] \in LoopOf(s) => v[i] \in LoopOf(s)
    BY <1>6, RoundKeeps
  <2>2. v[0] \in LoopOf(s)
    BY <1>0, <1>6
  <2> HIDE DEF Is
  <2>3. QED
    BY <1>0, <2>1, <2>2, IterationKeeps
<1>8. QED
  BY <1>5, <1>6, <1>7 DEF n, b

\* The digits of bytes: the same number, and no zero at the start that is not
\* the only digit.
LEMMA DigitsIs ==
    ASSUME NEW s \in Seq(Octet), s # <<>>
    PROVE  /\ Digits(s) \in Seq(Digit) /\ Digits(s) # <<>>
           /\ Worth(58, Digits(s)) = Worth(256, s)
           /\ Digits(s)[1] # 0 \/ Digits(s) = <<0>>
<1> DEFINE n == 2 * Len(s)
           W(a) == Worth(256, a.payload)
           N == Worth(256, s)
<1>1. PICK v : /\ v[0] = [payload |-> s, digits |-> <<>>]
               /\ \A i \in 1 .. n : v[i] = Round(v[i - 1])
               /\ Digits(s) = v[n].digits
               /\ \A i \in 0 .. n : v[i] \in LoopOf(s)
  BY RoundsTaken
<1>2. Len(s) \in Nat /\ n \in Nat /\ n # 0 /\ N \in Nat
  <2>1. Len(s) \in Nat /\ Len(s) # 0
    BY LenProperties, EmptySeq
  <2>2. QED
    BY <2>1, Numerals
<1>3. \A i \in 0 .. n : W(v[i]) \in Nat
  BY <1>1, Numerals DEF LoopOf
<1> DEFINE Good(i) == /\ W(v[i]) * Pow(16, i) <= N
                      /\ v[i].payload # <<>> \/ v[i].digits # <<>>
                      /\ i # 0 => v[i].digits # <<>>
           S == {i \in Nat : i <= n => Good(i)}
<1>4. 0 \in S
  <2>1. W(v[0]) = N /\ v[0].payload # <<>>
    BY <1>1
  <2>2. N * Pow(16, 0) = N
    BY <1>2, Powers
  <2>3. N <= N
    BY <1>2
  <2>4. W(v[0]) * Pow(16, 0) <= N
    BY <2>1, <2>2, <2>3, Zenon
  <2>5. QED
    BY <2>1, <2>4
<1>5. ASSUME NEW i \in Nat, i \in S PROVE i + 1 \in S
  <2> SUFFICES ASSUME i + 1 <= n PROVE Good(i + 1)
    <3> HIDE DEF Good
    <3> QED
      OBVIOUS
  <2>1. Good(i)
    <3> HIDE DEF Good
    <3> QED
      BY <1>2, <1>5
  <2>2. i + 1 \in 1 .. n /\ (i + 1) - 1 = i /\ i \in 0 .. n /\ i + 1 \in 0 .. n
    BY <1>2
  <2>3. v[i + 1] = Round(v[i]) /\ v[i] \in LoopOf(s)
    BY <1>1, <2>2
  <2>4. 58 * W(v[i + 1]) <= W(v[i]) /\ v[i + 1].digits # <<>>
    BY <2>1, <2>3, RoundKeeps
  <2> DEFINE x == W(v[i + 1])
             y == W(v[i])
             p == Pow(16, i)
  <2>5. x \in Nat /\ y \in Nat /\ p \in Nat /\ Pow(16, i + 1) = 16 * p /\ y * p <= N
    <3>1. Pow(16, i) \in Nat /\ Pow(16, i + 1) = 16 * Pow(16, i)
      BY Powers, ZenonT(60)
    <3>2. QED
      BY <1>3, <2>1, <2>2, <3>1
  <2>6. x * Pow(16, i + 1) <= N
    <3> HIDE DEF x, y, p, N
    <3>1. 16 * x \in Nat /\ 16 * x <= y
      BY <2>4, <2>5 DEF x, y
    <3>2. (16 * x) * p <= y * p
      BY <2>5, <3>1, TimesMonotone
    <3>3. (16 * x) * p = x * (16 * p) /\ x * (16 * p) \in Nat /\ y * p \in Nat
      BY <2>5
    <3>4. QED
      BY <1>2, <2>5, <3>2, <3>3
  <2>7. QED
    BY <2>4, <2>6
<1>6. Good(n)
  <2> HIDE DEF Good
  <2>1. Nat \subseteq S
    <3> HIDE DEF S
    <3> QED
      BY <1>4, <1>5, Induction
  <2>2. QED
    BY <1>2, <2>1
<1> DEFINE a == v[n]
           q == a.payload
           t == a.digits
<1>7. /\ q \in Seq(Octet) /\ t \in Seq(Digit) /\ t # <<>> /\ Leads(q)
      /\ N = Worth(256, q) * Pow(58, Len(t)) + Worth(58, t)
      /\ q = <<>> => t[1] # 0 \/ t = <<0>>
  <2>1. n \in 0 .. n
    BY <1>2
  <2>2. v[n] \in LoopOf(s) /\ v[n].digits # <<>>
    BY <1>1, <1>2, <1>6, <2>1
  <2>3. QED
    BY <2>2 DEF LoopOf
<1>8. q = <<>>
  <2> DEFINE x == Worth(256, q)
             p == Pow(256, Len(s))
  <2>1. x * Pow(16, n) <= N
    BY <1>6
  <2>2. Pow(16, n) = p /\ p \in Nat
    BY <1>2, PowSquares, Powers
  <2>3. N < p
    <3>1. s \in Seq(0 .. 256 - 1)
      BY DEF Octet
    <3>2. 256 \in Nat \ {0}
      OBVIOUS
    <3>3. QED
      BY <3>1, <3>2, WorthBelow
  <2>4. x \in Nat
    BY <1>7, Numerals, ZenonT(60)
  <2>5. x * p <= N
    BY <2>1, <2>2, Zenon
  <2>6. x = 0
    <3> HIDE DEF x, p, N
    <3>1. x >= 1 => 1 * p <= x * p
      BY <2>2, <2>4, TimesMonotone
    <3>2. QED
      BY <1>2, <2>2, <2>3, <2>4, <2>5, <3>1
  <2>7. q \in Seq(Nat)
    BY <1>7, Numerals
  <2>8. QED
    BY <1>7, <2>4, <2>6, <2>7, LeadsPositive
<1>9. N = Worth(58, t)
  <2>1. Worth(256, q) = 0
    BY <1>8, WorthSteps
  <2>2. Len(t) \in Nat /\ Worth(58, t) \in Nat
    BY <1>7, LenProperties, Numerals
  <2> DEFINE p == Pow(58, Len(t))
  <2>3. p \in Nat
    BY <2>2, Powers
  <2> HIDE DEF p
  <2>4. 0 * p = 0
    BY <2>3
  <2>5. QED
    BY <1>7, <2>1, <2>2, <2>4 DEF p
<1>10. Digits(s) = t
  BY <1>1
<1>11. QED
  BY <1>7, <1>8, <1>9, <1>10

---------------------------------------------------------------------------
\* The multiplication of decode_base58.

\* A sequence from its k-th element is that element and the rest.
LEMMA SuffixGrows ==
    ASSUME NEW S, NEW s \in Seq(S), NEW k \in 1 .. Len(s)
    PROVE  /\ s[k] \in S /\ SubSeq(s, k + 1, Len(s)) \in Seq(S)
           /\ Len(SubSeq(s, k + 1, Len(s))) = Len(s) - k
           /\ SubSeq(s, k, Len(s)) = <<s[k]>> \o SubSeq(s, k + 1, Len(s))
<1> DEFINE n == Len(s)
           t == SubSeq(s, k, n)
           u == SubSeq(s, k + 1, n)
<1>1. n \in Nat /\ k \in Nat /\ k <= n /\ 1 <= k /\ \A i \in 1 .. n : s[i] \in S
  BY LenProperties, ElementOfSeq
<1>2. /\ t \in Seq(S) /\ Len(t) = 1 + (n - k) /\ t[1] = s[k]
      /\ \A i \in 1 .. n - k : t[1 + i] = s[k + i]
  BY <1>1
<1>3. /\ u \in Seq(S) /\ Len(u) = n - k
      /\ \A i \in 1 .. n - k : u[i] = s[k + i]
  BY <1>1
<1>4. s[k] \in S
  BY <1>1
<1> HIDE DEF u, t
<1>5. StartsWith(t, s[k], u)
  BY <1>2, <1>3 DEF StartsWith
<1>6. t \in Seq(S) /\ u \in Seq(S)
  BY <1>2, <1>3
<1>7. t = <<s[k]>> \o u
  BY <1>4, <1>5, <1>6, FirstAndRest
<1>8. QED
  BY <1>3, <1>4, <1>7 DEF t, u

\* A multiplication on its way: the carry and the bytes done, from the last.
Carried == [val : Digit, out : Seq(Octet)]

CarriedWorth(a) == a.val * Pow(256, Len(a.out)) + Worth(256, a.out)

\* A byte more counts 58 times its place.
LEMMA MulStep ==
    ASSUME NEW a \in Carried, NEW byte \in Octet
    PROVE  /\ MulByte(a, byte) \in Carried
           /\ Len(MulByte(a, byte).out) = Len(a.out) + 1
           /\ CarriedWorth(MulByte(a, byte))
                  = 58 * (byte * Pow(256, Len(a.out))) + CarriedWorth(a)
<1> DEFINE o == a.out
           c == a.val
           num == byte * 58 + c
           q == num \div 256
           r == num % 256
           d == MulByte(a, byte)
           n == Len(o)
           p == Pow(256, n)
           w == Worth(256, o)
<1>1. o \in Seq(Octet) /\ c \in 0 .. 57 /\ byte \in 0 .. 255
  BY DEF Carried, Digit, Octet
<1>2. d = [val |-> q, out |-> <<r>> \o o]
  BY Zenon DEF MulByte
<1> HIDE DEF o, c, d
<1>3. q \in Digit /\ r \in Octet /\ 256 * q + r = byte * 58 + c
  <2>1. num \in Nat /\ num < 58 * 256
    BY <1>1
  <2> HIDE DEF num
  <2>2. r \in 0 .. 255 /\ q \in Nat /\ num = 256 * q + r
    BY <2>1, Quotient256
  <2> HIDE DEF q, r
  <2>3. q <= 57
    BY <2>1, <2>2
  <2>4. QED
    BY <2>2, <2>3 DEF num, Digit, Octet
<1> HIDE DEF q, r
<1>4. n \in Nat /\ p \in Nat /\ Pow(256, n + 1) = 256 * p /\ w \in Nat
  <2>1. n \in Nat /\ w \in Nat
    BY <1>1, LenProperties, Numerals
  <2> HIDE DEF n
  <2>2. QED
    BY <2>1, Powers, ZenonT(60)
<1>5. <<r>> \o o \in Seq(Octet) /\ Len(<<r>> \o o) = n + 1
  <2>1. <<r>> \in Seq(Octet) /\ Len(<<r>>) = 1
    BY <1>3
  <2>2. <<r>> \o o \in Seq(Octet) /\ Len(<<r>> \o o) = Len(<<r>>) + Len(o)
    <3> DEFINE e == <<r>>
    <3>1. e \in Seq(Octet)
      BY <2>1
    <3> HIDE DEF e
    <3>2. e \o o \in Seq(Octet) /\ Len(e \o o) = Len(e) + Len(o)
      BY <1>1, <3>1, ConcatParts
    <3>3. QED
      BY <3>2 DEF e
  <2>3. QED
    BY <1>4, <2>1, <2>2
<1>6. Worth(256, <<r>> \o o) = r * p + w
  <2>1. o \in Seq(Nat) /\ r \in Nat
    BY <1>1, <1>3, Numerals DEF Octet
  <2>2. 256 \in Nat \ {0}
    OBVIOUS
  <2>3. QED
    BY <2>1, <2>2, WorthCons
<1>7. d \in Carried /\ d.val = q /\ d.out = <<r>> \o o
  BY <1>2, <1>3, <1>5 DEF Carried
<1>8. CarriedWorth(d) = q * (256 * p) + (r * p + w)
  BY <1>4, <1>5, <1>6, <1>7, SMT DEF CarriedWorth
<1>9. CarriedWorth(a) = c * p + w
  BY Zenon DEF CarriedWorth, c, o
<1>10. q * (256 * p) + (r * p + w) = 58 * (byte * p) + (c * p + w)
  <2>0. q \in Nat /\ r \in Nat /\ byte \in Nat /\ c \in Nat
    BY <1>1, <1>3 DEF Digit, Octet
  <2> HIDE DEF p, w
  <2>1. (256 * q + r) * p = (byte * 58 + c) * p
    BY <1>3
  <2>2. (256 * q + r) * p = q * (256 * p) + r * p
    BY <1>4, <2>0
  <2>3. (byte * 58 + c) * p = 58 * (byte * p) + c * p
    BY <1>4, <2>0
  <2>4. /\ q * (256 * p) \in Nat /\ r * p \in Nat
        /\ 58 * (byte * p) \in Nat /\ c * p \in Nat
    <3>1. 256 * p \in Nat /\ byte * p \in Nat
      BY <1>4, <2>0, ProductType
    <3>2. QED
      BY <1>4, <2>0, <3>1, ProductType
  <2> DEFINE x1 == q * (256 * p)
             x2 == r * p
             x3 == 58 * (byte * p)
             x4 == c * p
  <2>5. x1 + x2 = x3 + x4 /\ x1 \in Nat /\ x2 \in Nat /\ x3 \in Nat /\ x4 \in Nat
    BY <2>1, <2>2, <2>3, <2>4
  <2> HIDE DEF x1, x2, x3, x4
  <2>6. x1 + (x2 + w) = x3 + (x4 + w)
    BY <1>4, <2>5
  <2>7. QED
    BY <2>6 DEF x1, x2, x3, x4
<1>11. QED
  <2>1. Len(d.out) = Len(a.out) + 1
    BY <1>5, <1>7 DEF o
  <2>2. CarriedWorth(d) = 58 * (byte * Pow(256, Len(a.out))) + CarriedWorth(a)
    BY <1>8, <1>9, <1>10, SMT DEF o
  <2>3. QED
    BY <1>7, <2>1, <2>2 DEF d

\* All bytes: 58 times the number and val, less what is carried out.
LEMMA MulAddIs ==
    ASSUME NEW buffer \in Seq(Octet), NEW val \in Digit
    PROVE  /\ MulAdd(buffer, val) \in Seq(Octet)
           /\ Len(MulAdd(buffer, val)) = Len(buffer)
           /\ \E c \in Nat : c * Pow(256, Len(buffer)) + Worth(256, MulAdd(buffer, val))
                                 = 58 * Worth(256, buffer) + val
<1> DEFINE n == Len(buffer)
           byte(i) == buffer[n + 1 - i]
           b == [val |-> val, out |-> <<>>]
           Is(f) == f = [i \in 0 .. n |-> IF i = 0 THEN b
                                          ELSE MulByte(f[i - 1], buffer[Len(buffer) + 1 - i])]
           g == [x \in (1 .. n) \X Carried |-> MulByte(x[2], byte(x[1]))]
           v == CHOOSE f : Is(f)
<1>0. n \in Nat /\ b \in Carried /\ \A i \in 1 .. n : byte(i) \in Octet
  <2>1. n \in Nat /\ \A i \in 1 .. n : buffer[i] \in Octet
    BY LenProperties, ElementOfSeq
  <2>2. \A i \in 1 .. n : n + 1 - i \in 1 .. n
    BY <2>1
  <2>3. b \in Carried
    BY DEF Carried
  <2>4. QED
    BY <2>1, <2>2, <2>3
<1>1. \A i \in 1 .. n : \A x \in Carried :
          g[<<i, x>>] = MulByte(x, byte(i)) /\ MulByte(x, byte(i)) \in Carried
  BY <1>0, MulStep
<1>2. PICK f : Iterates(f, n, b, g) /\ \A i \in 0 .. n : f[i] \in Carried
  <2> HIDE DEF g, n, b, byte
  <2>1. \A i \in 1 .. n : \A x \in Carried : g[<<i, x>>] \in Carried
    BY <1>1
  <2>2. QED
    BY <1>0, <2>1, IterationTyped
<1> HIDE DEF g, b
<1>3. Is(f)
  <2> HIDE DEF byte
  <2>1. ASSUME NEW i \in 0 .. n
        PROVE  f[i] = IF i = 0 THEN b ELSE MulByte(f[i - 1], byte(i))
    <3>1. CASE i = 0
      BY <1>2, <3>1 DEF Iterates
    <3>2. CASE i # 0
      <4>1. i \in 1 .. n /\ i - 1 \in 0 .. n
        BY <1>0, <3>2
      <4>2. f[i] = g[<<i, f[i - 1]>>] /\ f[i - 1] \in Carried
        BY <1>2, <4>1 DEF Iterates
      <4>3. QED
        BY <1>1, <3>2, <4>1, <4>2
    <3>3. QED
      BY <3>1, <3>2
  <2>2. f = [i \in 0 .. n |-> f[i]]
    BY <1>2 DEF Iterates
  <2>3. QED
    BY <2>1, <2>2, Zenon DEF byte
<1>4. Is(v)
  BY <1>3, Zenon
<1>5. MulAdd(buffer, val) = v[n].out
  BY Zenon DEF MulAdd, b
<1> HIDE DEF v
<1>6. v[0] = b /\ \A i \in 1 .. n : v[i] = MulByte(v[i - 1], byte(i))
  <2>1. \A i \in 0 .. n : v[i] = IF i = 0 THEN b ELSE MulByte(v[i - 1], byte(i))
    BY <1>4, Zenon
  <2>2. 0 \in 0 .. n /\ \A i \in 1 .. n : i \in 0 .. n /\ i # 0
    BY <1>0
  <2> HIDE DEF byte
  <2>3. QED
    BY <2>1, <2>2, Zenon
<1> DEFINE rest(i) == SubSeq(buffer, n + 1 - i, n)
           Good(i) == /\ v[i] \in Carried /\ Len(v[i].out) = i
                      /\ CarriedWorth(v[i]) = 58 * Worth(256, rest(i)) + val
           S == {i \in Nat : i <= n => Good(i)}
<1>7. 0 \in S
  <2>1. rest(0) = <<>>
    BY <1>0
  <2>2. v[0].out = <<>> /\ v[0].val = val /\ v[0] \in Carried
    BY <1>0, <1>6 DEF b
  <2>3. CarriedWorth(v[0]) = 58 * Worth(256, rest(0)) + val
    <3>1. Worth(256, <<>>) = 0 /\ Pow(256, 0) = 1 /\ Len(<<>>) = 0
      BY WorthSteps, Powers
    <3>2. val * 1 + 0 = 58 * 0 + val
      BY DEF Digit
    <3>3. CarriedWorth(v[0]) = val * 1 + 0
      BY <2>2, <3>1, Zenon DEF CarriedWorth
    <3>4. QED
      BY <2>1, <3>1, <3>2, <3>3, Zenon
  <2>4. Good(0)
    BY <2>2, <2>3
  <2> HIDE DEF Good
  <2>5. QED
    BY <2>4
<1>8. ASSUME NEW i \in Nat, i \in S PROVE i + 1 \in S
  <2> SUFFICES ASSUME i + 1 <= n PROVE Good(i + 1)
    <3> HIDE DEF Good
    <3> QED
      OBVIOUS
  <2>1. Good(i)
    <3> HIDE DEF Good
    <3> QED
      BY <1>0, <1>8
  <2> DEFINE k == n - i
             c == buffer[k]
             t == SubSeq(buffer, k + 1, n)
             a == v[i]
  <2>2. k \in 1 .. n /\ n + 1 - i = k + 1 /\ n + 1 - (i + 1) = k /\ n - k = i
    BY <1>0
  <2>3. rest(i) = t /\ rest(i + 1) = SubSeq(buffer, k, n) /\ byte(i + 1) = c
    BY <2>2, Zenon
  <2>4. /\ c \in Octet /\ t \in Seq(Octet) /\ Len(t) = i
        /\ SubSeq(buffer, k, n) = <<c>> \o t
    <3> HIDE DEF k
    <3>1. /\ buffer[k] \in Octet /\ SubSeq(buffer, k + 1, Len(buffer)) \in Seq(Octet)
          /\ Len(SubSeq(buffer, k + 1, Len(buffer))) = Len(buffer) - k
          /\ SubSeq(buffer, k, Len(buffer))
                 = <<buffer[k]>> \o SubSeq(buffer, k + 1, Len(buffer))
      BY <2>2, SuffixGrows
    <3>2. QED
      BY <2>2, <3>1, Zenon
  <2>5. i + 1 \in 1 .. n /\ (i + 1) - 1 = i
    BY <1>0
  <2>6. v[i + 1] = MulByte(a, c)
    BY <1>6, <2>3, <2>5
  <2>7. a \in Carried /\ Len(a.out) = i /\ CarriedWorth(a) = 58 * Worth(256, t) + val
    BY <2>1, <2>3, Zenon
  <2> HIDE DEF k, c, t, a, byte, rest
  <2>8. /\ MulByte(a, c) \in Carried /\ Len(MulByte(a, c).out) = i + 1
        /\ CarriedWorth(MulByte(a, c)) = 58 * (c * Pow(256, i)) + CarriedWorth(a)
    <3>1. /\ MulByte(a, c) \in Carried /\ Len(MulByte(a, c).out) = Len(a.out) + 1
          /\ CarriedWorth(MulByte(a, c)) = 58 * (c * Pow(256, Len(a.out))) + CarriedWorth(a)
      <4>1. a \in Carried /\ c \in Octet
        BY <2>4, <2>7
      <4>2. QED
        BY <4>1, MulStep
    <3>2. QED
      BY <2>7, <3>1, Zenon
  <2>9. Worth(256, <<c>> \o t) = c * Pow(256, i) + Worth(256, t)
    <3>1. t \in Seq(Nat) /\ c \in Nat
      BY <2>4, Numerals DEF Octet
    <3>2. 256 \in Nat \ {0}
      OBVIOUS
    <3>3. QED
      BY <2>4, <3>1, <3>2, WorthCons
  <2>10. 58 * (c * Pow(256, i)) + (58 * Worth(256, t) + val)
             = 58 * (c * Pow(256, i) + Worth(256, t)) + val
    <3> DEFINE x == c * Pow(256, i)
               w == Worth(256, t)
    <3>1. x \in Nat
      <4>1. Pow(256, i) \in Nat /\ c \in Nat
        BY <2>4, Powers DEF Octet
      <4>2. QED
        BY <4>1, ProductType
    <3>2. w \in Nat /\ val \in Nat
      BY <2>4, Numerals DEF Digit
    <3> HIDE DEF x, w
    <3>3. 58 * x + (58 * w + val) = 58 * (x + w) + val
      BY <3>1, <3>2
    <3>4. QED
      BY <3>3 DEF x, w
  <2>11. CarriedWorth(v[i + 1]) = 58 * Worth(256, rest(i + 1)) + val
    <3>1. Worth(256, rest(i + 1)) = c * Pow(256, i) + Worth(256, t)
      <4>1. rest(i + 1) = <<c>> \o t
        BY <2>3, <2>4, Zenon
      <4>2. QED
        BY <2>9, <4>1, Zenon
    <3>2. CarriedWorth(v[i + 1]) = 58 * (c * Pow(256, i)) + (58 * Worth(256, t) + val)
      BY <2>6, <2>7, <2>8, Zenon
    <3>3. QED
      BY <2>10, <3>1, <3>2, SMT
  <2>12. QED
    BY <2>6, <2>8, <2>11
<1>9. Good(n)
  <2> HIDE DEF Good
  <2>1. Nat \subseteq S
    <3> HIDE DEF S
    <3> QED
      BY <1>7, <1>8, Induction
  <2>2. QED
    BY <1>0, <2>1
<1>10. rest(n) = buffer
  <2>1. n + 1 - n = 1
    BY <1>0
  <2>2. SubSeq(buffer, 1, n) = buffer
    BY SubSeqFull
  <2>3. QED
    BY <2>1, <2>2, Zenon
<1> HIDE DEF rest
<1>11. v[n].out \in Seq(Octet) /\ v[n].val \in Nat
  <2>1. v[n] \in Carried
    BY <1>9
  <2> HIDE DEF n
  <2>2. v[n].out \in Seq(Octet) /\ v[n].val \in 0 .. 57
    BY <2>1 DEF Carried, Digit
  <2>3. \A x \in 0 .. 57 : x \in Nat
    OBVIOUS
  <2>4. QED
    BY <2>2, <2>3, Zenon
<1>12. v[n].val * Pow(256, n) + Worth(256, v[n].out) = 58 * Worth(256, buffer) + val
  BY <1>9, <1>10, SMT DEF CarriedWorth
<1>13. QED
  BY <1>5, <1>9, <1>11, <1>12

---------------------------------------------------------------------------
\* Powers of sums and products.

\* A power of a sum of exponents.
LEMMA PowSum ==
    ASSUME NEW b \in Nat \ {0}, NEW m \in Nat, NEW n \in Nat
    PROVE  Pow(b, m + n) = Pow(b, m) * Pow(b, n)
<1> DEFINE S == {k \in Nat : Pow(b, m + k) = Pow(b, m) * Pow(b, k)}
<1>0. Pow(b, m) \in Nat
  BY PowSteps
<1>1. 0 \in S
  <2>1. Pow(b, 0) = 1 /\ m + 0 = m
    BY PowSteps
  <2> DEFINE p == Pow(b, m)
  <2>2. p = p * 1
    BY <1>0
  <2>3. QED
    BY <2>1, <2>2
<1>2. ASSUME NEW k \in Nat, k \in S PROVE k + 1 \in S
  <2> DEFINE x == Pow(b, m)
             y == Pow(b, k)
             i == m + k
  <2>1. i \in Nat /\ m + (k + 1) = i + 1
    OBVIOUS
  <2>2. Pow(b, i) = x * y /\ x \in Nat /\ y \in Nat /\ Pow(b, k + 1) = b * y
    BY <1>0, <1>2, PowSteps
  <2> HIDE DEF i
  <2>3. Pow(b, i + 1) = b * Pow(b, i)
    BY <2>1, PowSteps
  <2> HIDE DEF x, y
  <2>4. b * (x * y) = x * (b * y)
    BY <2>2
  <2>5. Pow(b, m + (k + 1)) = x * Pow(b, k + 1)
    BY <2>1, <2>2, <2>3, <2>4, Zenon
  <2>6. QED
    BY <2>5 DEF x
<1>3. Nat \subseteq S
  <2> HIDE DEF S
  <2> QED
    BY <1>1, <1>2, Induction
<1>4. QED
  BY <1>3

\* A power of a power.
LEMMA PowTimes ==
    ASSUME NEW b \in Nat \ {0}, NEW m \in Nat, NEW n \in Nat
    PROVE  Pow(b, m * n) = Pow(Pow(b, m), n)
<1> DEFINE c == Pow(b, m)
           S == {k \in Nat : Pow(b, m * k) = Pow(c, k)}
<1>0. c \in Nat \ {0}
  BY PowSteps
<1>1. 0 \in S
  <2>1. m * 0 = 0
    OBVIOUS
  <2> HIDE DEF c
  <2>2. Pow(b, 0) = 1 /\ Pow(c, 0) = 1
    BY <1>0, PowSteps
  <2>3. QED
    BY <2>1, <2>2
<1>2. ASSUME NEW k \in Nat, k \in S PROVE k + 1 \in S
  <2>1. m * k \in Nat /\ m * (k + 1) = m * k + m
    OBVIOUS
  <2>2. Pow(b, m * k) = Pow(c, k)
    BY <1>2
  <2> DEFINE i == m * k
  <2>3. i \in Nat
    BY <2>1
  <2> HIDE DEF i
  <2>4. Pow(b, i + m) = Pow(b, i) * c
    BY <2>3, PowSum
  <2> HIDE DEF c
  <2>5. Pow(c, k + 1) = c * Pow(c, k) /\ Pow(c, k) \in Nat
    BY <1>0, PowSteps
  <2>6. c * Pow(c, k) = Pow(c, k) * c
    BY <1>0, <2>5
  <2>7. Pow(b, m * (k + 1)) = Pow(c, k + 1)
    BY <2>1, <2>2, <2>4, <2>5, <2>6, Zenon DEF i
  <2>8. QED
    BY <2>7
<1>3. Nat \subseteq S
  <2> HIDE DEF S
  <2> QED
    BY <1>1, <1>2, Induction
<1>4. QED
  BY <1>3

\* A product grows with both factors.
LEMMA TimesBoth == \A x, y, u, w \in Nat : x <= y /\ u <= w => x * u <= y * w
<1> SUFFICES ASSUME NEW x \in Nat, NEW y \in Nat, NEW u \in Nat, NEW w \in Nat, x <= y, u <= w
             PROVE  x * u <= y * w
  OBVIOUS
<1>1. x * u <= y * u
  BY TimesMonotone
<1>2. u * y <= w * y
  BY TimesMonotone
<1>3. u * y = y * u /\ w * y = y * w
  OBVIOUS
<1>4. x * u \in Nat /\ y * u \in Nat /\ y * w \in Nat
  BY ProductType
<1>5. QED
  BY <1>1, <1>2, <1>3, <1>4

\* Greater bases have greater powers, and greater ones than 1 different ones.
LEMMA PowGrows ==
    ASSUME NEW x \in Nat \ {0}, NEW y \in Nat \ {0}, x <= y, NEW n \in Nat
    PROVE  /\ Pow(x, n) <= Pow(y, n)
           /\ x < y /\ n # 0 => Pow(x, n) < Pow(y, n)
<1> DEFINE S == {k \in Nat : /\ Pow(x, k) <= Pow(y, k)
                             /\ x < y /\ k # 0 => Pow(x, k) < Pow(y, k)}
<1>1. 0 \in S
  BY PowSteps
<1>2. ASSUME NEW k \in Nat, k \in S PROVE k + 1 \in S
  <2> DEFINE p == Pow(x, k)
             q == Pow(y, k)
  <2>1. /\ Pow(x, k + 1) = x * p /\ Pow(y, k + 1) = y * q
        /\ p \in Nat \ {0} /\ q \in Nat \ {0}
    BY PowSteps
  <2>2. p <= q
    BY <1>2
  <2> HIDE DEF p, q
  <2>3. x * p <= x * q /\ x * q <= y * q
    BY <2>1, <2>2, TimesBoth
  <2>4. x < y => x * q + q <= y * q
    <3>1. x < y => (x + 1) * q <= y * q
      BY <2>1, TimesMonotone
    <3>2. (x + 1) * q = x * q + q
      BY <2>1
    <3>3. QED
      BY <3>1, <3>2
  <2>5. x * p \in Nat /\ x * q \in Nat /\ y * q \in Nat
    BY <2>1, ProductType
  <2>6. x * p <= y * q /\ (x < y => x * p < y * q)
    <3> DEFINE a == x * p
               c == x * q
               d == y * q
    <3>1. a \in Nat /\ c \in Nat /\ d \in Nat /\ a <= c /\ c <= d /\ (x < y => c + q <= d)
      BY <2>3, <2>4, <2>5
    <3> HIDE DEF a, c, d
    <3>2. a <= d /\ (x < y => a < d)
      BY <2>1, <3>1
    <3>3. QED
      BY <3>2 DEF a, d
  <2>7. QED
    BY <2>1, <2>6
<1>3. Nat \subseteq S
  <2> HIDE DEF S
  <2> QED
    BY <1>1, <1>2, Induction
<1>4. QED
  BY <1>3

\* A greater exponent makes a power no smaller.
LEMMA PowOrder ==
    ASSUME NEW b \in Nat \ {0}, NEW m \in Nat, NEW n \in Nat, m <= n
    PROVE  Pow(b, m) <= Pow(b, n)
<1> DEFINE k == n - m
<1>1. k \in Nat /\ n = m + k
  OBVIOUS
<1> HIDE DEF k
<1>2. Pow(b, n) = Pow(b, m) * Pow(b, k)
  BY <1>1, PowSum
<1>3. Pow(b, m) \in Nat /\ Pow(b, k) \in Nat \ {0}
  BY <1>1, PowSteps
<1>4. \A x \in Nat : \A y \in Nat \ {0} : x <= x * y
  <2> SUFFICES ASSUME NEW x \in Nat, NEW y \in Nat \ {0} PROVE x <= x * y
    OBVIOUS
  <2>1. 1 * x <= y * x
    BY TimesMonotone
  <2>2. 1 * x = x /\ y * x = x * y
    OBVIOUS
  <2>3. QED
    BY <2>1, <2>2
<1>5. QED
  BY <1>2, <1>3, <1>4

---------------------------------------------------------------------------
\* 733/1000 is more than the logarithm of 58 to the base 256.

Squares(b) ==
    /\ Pow(b, 1) = b /\ Pow(b, 2) = b * b
    /\ Pow(b, 4) = Pow(b, 2) * Pow(b, 2) /\ Pow(b, 8) = Pow(b, 4) * Pow(b, 4)
    /\ Pow(b, 16) = Pow(b, 8) * Pow(b, 8) /\ Pow(b, 32) = Pow(b, 16) * Pow(b, 16)
    /\ Pow(b, 64) = Pow(b, 32) * Pow(b, 32)

\* The squares, by squaring.
LEMMA PowSquaresUp == \A b \in Nat \ {0} : Squares(b)
<1> SUFFICES ASSUME NEW b \in Nat \ {0} PROVE Squares(b)
  OBVIOUS
<1>1. Pow(b, 1) = b
  <2>1. 0 + 1 = 1 /\ 0 \in Nat
    OBVIOUS
  <2>2. Pow(b, 0) = 1 /\ Pow(b, 0 + 1) = b * Pow(b, 0)
    BY <2>1, PowSteps
  <2>3. b * 1 = b
    OBVIOUS
  <2>4. QED
    BY <2>1, <2>2, <2>3
<1>2. \A n \in Nat : Pow(b, n + n) = Pow(b, n) * Pow(b, n)
  BY PowSum
<1>3. /\ 1 + 1 = 2 /\ 2 + 2 = 4 /\ 4 + 4 = 8 /\ 8 + 8 = 16 /\ 16 + 16 = 32 /\ 32 + 32 = 64
      /\ 1 \in Nat /\ 2 \in Nat /\ 4 \in Nat /\ 8 \in Nat /\ 16 \in Nat /\ 32 \in Nat
  OBVIOUS
<1>4. QED
  BY <1>1, <1>2, <1>3, Zenon DEF Squares

\* 71 digits of Base58 fit in 52 bytes: 58^71 <= 256^52.
LEMMA FiftyEight == Pow(58, 71) <= Pow(256, 52)
<1> DEFINE a == 58 * 58
           b == a * a
           c == b * b
           d == c * c
           e == d * d
           f == e * e
           q == 256 * 256
           r == q * q
           s == r * r
           t == s * s
           u == t * t
<1>0. /\ a = 58 * 58 /\ b = a * a /\ c = b * b /\ d = c * c /\ e = d * d /\ f = e * e
      /\ q = 256 * 256 /\ r = q * q /\ s = r * r /\ t = s * s /\ u = t * t
  OBVIOUS
<1>3. f * (b * (a * 58)) <= u * (t * r)
  OBVIOUS
<1> HIDE DEF a, b, c, d, e, f, q, r, s, t, u
<1>1. Pow(58, 71) = f * (b * (a * 58))
  <2>1. /\ Pow(58, 64 + 7) = Pow(58, 64) * Pow(58, 7)
        /\ Pow(58, 4 + 3) = Pow(58, 4) * Pow(58, 3)
        /\ Pow(58, 2 + 1) = Pow(58, 2) * Pow(58, 1)
    <3> DEFINE z == 58
    <3>1. z \in Nat \ {0}
      OBVIOUS
    <3> HIDE DEF z
    <3>2. \A m, n \in Nat : Pow(z, m + n) = Pow(z, m) * Pow(z, n)
      BY <3>1, PowSum
    <3>3. /\ Pow(z, 64 + 7) = Pow(z, 64) * Pow(z, 7)
          /\ Pow(z, 4 + 3) = Pow(z, 4) * Pow(z, 3)
          /\ Pow(z, 2 + 1) = Pow(z, 2) * Pow(z, 1)
      <4>1. 64 \in Nat /\ 7 \in Nat /\ 4 \in Nat /\ 3 \in Nat /\ 2 \in Nat /\ 1 \in Nat
        OBVIOUS
      <4>2. QED
        BY <3>2, <4>1, Zenon
    <3>4. QED
      BY <3>3, Zenon DEF z
  <2>2. 64 + 7 = 71 /\ 4 + 3 = 7 /\ 2 + 1 = 3
    OBVIOUS
  <2>3. /\ Pow(58, 1) = 58 /\ Pow(58, 2) = a /\ Pow(58, 4) = b /\ Pow(58, 64) = f
    <3>1. Squares(58)
      <4>1. 58 \in Nat \ {0}
        OBVIOUS
      <4>2. QED
        BY <4>1, PowSquaresUp
    <3>2. Pow(58, 1) = 58 /\ Pow(58, 2) = 58 * 58
      BY <3>1, Zenon DEF Squares
    <3>3. Pow(58, 4) = Pow(58, 2) * Pow(58, 2) /\ Pow(58, 8) = Pow(58, 4) * Pow(58, 4)
      BY <3>1, Zenon DEF Squares
    <3>4. Pow(58, 16) = Pow(58, 8) * Pow(58, 8) /\ Pow(58, 32) = Pow(58, 16) * Pow(58, 16)
      BY <3>1, Zenon DEF Squares
    <3>5. Pow(58, 64) = Pow(58, 32) * Pow(58, 32)
      BY <3>1, Zenon DEF Squares
    <3>6. Pow(58, 2) = a
      BY <3>2 DEF a
    <3>7. Pow(58, 4) = b
      BY <3>3, <3>6 DEF b
    <3>8. Pow(58, 8) = c
      BY <3>3, <3>7 DEF c
    <3>9. Pow(58, 16) = d
      BY <3>4, <3>8 DEF d
    <3>10. Pow(58, 32) = e
      BY <3>4, <3>9 DEF e
    <3>11. Pow(58, 64) = f
      BY <3>5, <3>10 DEF f
    <3>12. QED
      BY <3>2, <3>6, <3>7, <3>11
  <2>4. Pow(58, 3) = a * 58
    BY <2>1, <2>2, <2>3
  <2>5. Pow(58, 7) = b * (a * 58)
    BY <2>1, <2>2, <2>3, <2>4
  <2>6. QED
    BY <2>1, <2>2, <2>3, <2>5
<1>2. Pow(256, 52) = u * (t * r)
  <2>1. /\ Pow(256, 32 + 20) = Pow(256, 32) * Pow(256, 20)
        /\ Pow(256, 16 + 4) = Pow(256, 16) * Pow(256, 4)
    <3> DEFINE z == 256
    <3>1. z \in Nat \ {0}
      OBVIOUS
    <3> HIDE DEF z
    <3>2. \A m, n \in Nat : Pow(z, m + n) = Pow(z, m) * Pow(z, n)
      BY <3>1, PowSum
    <3>3. /\ Pow(z, 32 + 20) = Pow(z, 32) * Pow(z, 20)
          /\ Pow(z, 16 + 4) = Pow(z, 16) * Pow(z, 4)
      <4>1. 32 \in Nat /\ 20 \in Nat /\ 4 \in Nat /\ 16 \in Nat
        OBVIOUS
      <4>2. QED
        BY <3>2, <4>1, Zenon
    <3>4. QED
      BY <3>3, Zenon DEF z
  <2>2. 32 + 20 = 52 /\ 16 + 4 = 20
    OBVIOUS
  <2>3. /\ Pow(256, 4) = r /\ Pow(256, 16) = t /\ Pow(256, 32) = u
    <3>1. Squares(256)
      <4>1. 256 \in Nat \ {0}
        OBVIOUS
      <4>2. QED
        BY <4>1, PowSquaresUp
    <3>2. Pow(256, 2) = 256 * 256 /\ Pow(256, 4) = Pow(256, 2) * Pow(256, 2)
      BY <3>1, Zenon DEF Squares
    <3>3. Pow(256, 8) = Pow(256, 4) * Pow(256, 4) /\ Pow(256, 16) = Pow(256, 8) * Pow(256, 8)
      BY <3>1, Zenon DEF Squares
    <3>4. Pow(256, 32) = Pow(256, 16) * Pow(256, 16)
      BY <3>1, Zenon DEF Squares
    <3>5. Pow(256, 2) = q
      BY <3>2 DEF q
    <3>6. Pow(256, 4) = r
      BY <3>2, <3>5 DEF r
    <3>7. Pow(256, 8) = s
      BY <3>3, <3>6 DEF s
    <3>8. Pow(256, 16) = t
      BY <3>3, <3>7 DEF t
    <3>9. Pow(256, 32) = u
      BY <3>4, <3>8 DEF u
    <3>10. QED
      BY <3>6, <3>8, <3>9
  <2>4. Pow(256, 20) = t * r
    BY <2>1, <2>2, <2>3
  <2>5. QED
    BY <2>1, <2>2, <2>3, <2>4
<1>4. QED
  BY <1>1, <1>2, <1>3, Zenon

\* n digits in base 58 have room for k bytes and what is less than one more
\* only if k is at most 0.733 n.
LEMMA Estimate ==
    ASSUME NEW k \in Nat, NEW n \in Nat, Pow(256, k) < Pow(58, n)
    PROVE  k <= (n * 733) \div 1000
<1>1. 71 * k < 52 * n
  <2> SUFFICES ASSUME ~(71 * k < 52 * n) PROVE FALSE
    OBVIOUS
  <2>1. 52 * n <= k * 71 /\ 52 * n \in Nat /\ k * 71 \in Nat
    OBVIOUS
  <2>2. Pow(256, 52 * n) <= Pow(256, k * 71)
    <3> DEFINE x == 52 * n
               y == k * 71
    <3>1. x \in Nat /\ y \in Nat /\ x <= y /\ 256 \in Nat \ {0}
      BY <2>1
    <3> HIDE DEF x, y
    <3>2. Pow(256, x) <= Pow(256, y)
      BY <3>1, PowOrder
    <3>3. QED
      BY <3>2 DEF x, y
  <2>3. /\ Pow(256, k * 71) = Pow(Pow(256, k), 71)
        /\ Pow(256, 52 * n) = Pow(Pow(256, 52), n)
    <3>1. 256 \in Nat \ {0} /\ 71 \in Nat /\ 52 \in Nat
      OBVIOUS
    <3>2. \A m, i \in Nat : Pow(256, m * i) = Pow(Pow(256, m), i)
      BY <3>1, PowTimes
    <3>3. Pow(256, k * 71) = Pow(Pow(256, k), 71)
      BY <3>1, <3>2, SMT
    <3>4. Pow(256, 52 * n) = Pow(Pow(256, 52), n)
      BY <3>1, <3>2, SMT
    <3>5. QED
      BY <3>3, <3>4
  <2>4. Pow(58, n * 71) = Pow(Pow(58, n), 71) /\ Pow(58, 71 * n) = Pow(Pow(58, 71), n)
    <3>1. 58 \in Nat \ {0} /\ 71 \in Nat
      OBVIOUS
    <3>2. QED
      BY <3>1, PowTimes, ZenonT(60)
  <2>5. n * 71 = 71 * n
    OBVIOUS
  <2> DEFINE p == Pow(256, k)
             q == Pow(58, n)
             x == Pow(58, 71)
             y == Pow(256, 52)
  <2>6. /\ p \in Nat \ {0} /\ q \in Nat \ {0} /\ p < q
        /\ x \in Nat \ {0} /\ y \in Nat \ {0} /\ x <= y
    <3>1. 71 \in Nat /\ 52 \in Nat
      OBVIOUS
    <3>2. /\ \A i \in Nat : Pow(58, i) \in Nat \ {0}
          /\ \A i \in Nat : Pow(256, i) \in Nat \ {0}
      BY Powers, ZenonT(60)
    <3>4. p \in Nat \ {0} /\ q \in Nat \ {0} /\ x \in Nat \ {0} /\ y \in Nat \ {0}
      BY <3>1, <3>2, SMT
    <3>5. QED
      BY <3>4, FiftyEight, Zenon
  <2> HIDE DEF p, q, x, y
  <2>7. Pow(p, 71) < Pow(q, 71)
    <3>1. p <= q /\ 71 \in Nat /\ 71 # 0
      BY <2>6
    <3>2. QED
      BY <2>6, <3>1, PowGrows
  <2>8. Pow(x, n) <= Pow(y, n)
    BY <2>6, PowGrows
  <2>9. Pow(p, 71) \in Nat /\ Pow(q, 71) \in Nat /\ Pow(x, n) \in Nat /\ Pow(y, n) \in Nat
    <3>1. 71 \in Nat
      OBVIOUS
    <3>2. QED
      BY <2>6, <3>1, PowSteps
  <2>10. Pow(q, 71) = Pow(x, n) /\ Pow(y, n) <= Pow(p, 71)
    BY <2>2, <2>3, <2>4, <2>5, SMT DEF p, q, x, y
  <2>11. QED
    BY <2>7, <2>8, <2>9, <2>10
<1>2. 1000 * k <= 733 * n
  BY <1>1
<1>3. k <= (733 * n) \div 1000
  <2> DEFINE m == 733 * n
  <2>1. m \in Nat /\ 1000 * k <= m
    BY <1>2
  <2> HIDE DEF m
  <2>2. k <= m \div 1000
    BY <2>1
  <2>3. QED
    BY <2>2 DEF m
<1>4. 733 * n = n * 733
  OBVIOUS
<1>5. QED
  BY <1>3, <1>4

---------------------------------------------------------------------------
\* The buffer of decode_base58.

\* The digits of a text, in a buffer that has room for their number.
LEMMA DecodedIs ==
    ASSUME NEW digits \in Seq(Digit), NEW size \in Nat,
           Worth(58, digits) < Pow(256, size)
    PROVE  /\ Decoded(digits, size) \in Seq(Octet)
           /\ Len(Decoded(digits, size)) = size
           /\ Worth(256, Decoded(digits, size)) = Worth(58, digits)
<1> DEFINE n == Len(digits)
           b == Repeat(0, size)
           T == {x \in Seq(Octet) : Len(x) = size}
           Is(f) == f = [i \in 0 .. n |-> IF i = 0 THEN b ELSE MulAdd(f[i - 1], digits[i])]
           g == [x \in (1 .. n) \X T |-> MulAdd(x[2], digits[x[1]])]
           v == CHOOSE f : Is(f)
           P == Pow(256, size)
<1>0. n \in Nat /\ b \in T /\ \A i \in 1 .. n : digits[i] \in Digit
  <2>1. n \in Nat /\ \A i \in 1 .. n : digits[i] \in Digit
    BY LenProperties, ElementOfSeq
  <2>2. 0 \in Octet
    BY DEF Octet
  <2>3. b \in Seq(Octet) /\ Len(b) = size
    BY <2>2, RepeatType
  <2>4. QED
    BY <2>1, <2>3
<1>1. \A i \in 1 .. n : \A x \in T :
          g[<<i, x>>] = MulAdd(x, digits[i]) /\ MulAdd(x, digits[i]) \in T
  <2>1. \A i \in 1 .. n : \A x \in T : MulAdd(x, digits[i]) \in T
    <3> SUFFICES ASSUME NEW i \in 1 .. n, NEW x \in T PROVE MulAdd(x, digits[i]) \in T
      OBVIOUS
    <3>1. MulAdd(x, digits[i]) \in Seq(Octet) /\ Len(MulAdd(x, digits[i])) = Len(x)
      BY <1>0, MulAddIs
    <3>2. QED
      BY <3>1
  <2> HIDE DEF T
  <2>2. QED
    BY <2>1
<1> HIDE DEF n, b
<1>2. PICK f : Iterates(f, n, b, g) /\ \A i \in 0 .. n : f[i] \in T
  <2> HIDE DEF g, T
  <2>1. \A i \in 1 .. n : \A x \in T : g[<<i, x>>] \in T
    BY <1>1
  <2>2. QED
    BY <1>0, <2>1, IterationTyped
<1> HIDE DEF g
<1>3. Is(f)
  <2> HIDE DEF T
  <2>1. ASSUME NEW i \in 0 .. n
        PROVE  f[i] = IF i = 0 THEN b ELSE MulAdd(f[i - 1], digits[i])
    <3>1. CASE i = 0
      BY <1>2, <3>1 DEF Iterates
    <3>2. CASE i # 0
      <4>1. i \in 1 .. n /\ i - 1 \in 0 .. n
        BY <1>0, <3>2
      <4>2. f[i] = g[<<i, f[i - 1]>>] /\ f[i - 1] \in T
        BY <1>2, <4>1 DEF Iterates
      <4>3. QED
        BY <1>1, <3>2, <4>1, <4>2
    <3>3. QED
      BY <3>1, <3>2
  <2>2. f = [i \in 0 .. n |-> f[i]]
    BY <1>2 DEF Iterates
  <2>3. QED
    BY <2>1, <2>2, Zenon
<1>4. Is(v)
  BY <1>3, Zenon
<1>5. Decoded(digits, size) = v[n]
  BY Zenon DEF Decoded, n, b
<1> HIDE DEF v
<1>6. v[0] = b /\ \A i \in 1 .. n : v[i] = MulAdd(v[i - 1], digits[i])
  <2>1. \A i \in 0 .. n : v[i] = IF i = 0 THEN b ELSE MulAdd(v[i - 1], digits[i])
    BY <1>4, Zenon
  <2>2. 0 \in 0 .. n /\ \A i \in 1 .. n : i \in 0 .. n /\ i # 0
    BY <1>0
  <2>3. QED
    BY <2>1, <2>2, Zenon
<1> DEFINE w(i) == Worth(58, SubSeq(digits, 1, i))
           Good(i) == v[i] \in T /\ (w(i) < P => Worth(256, v[i]) = w(i))
           S == {i \in Nat : i <= n => Good(i)}
<1>7. 0 \in S
  <2>1. w(0) = 0
    <3>1. SubSeq(digits, 1, 0) = <<>>
      BY <1>0
    <3>2. Worth(58, <<>>) = 0
      BY WorthSteps
    <3>3. QED
      BY <3>1, <3>2
  <2>2. Worth(256, b) = 0
    <3>1. Repeat(0, size) \o <<>> = Repeat(0, size)
      <4>1. Repeat(0, size) \in Seq(Nat)
        BY RepeatType
      <4>2. QED
        BY <4>1
    <3>2. Worth(256, Repeat(0, size) \o <<>>) = Worth(256, <<>>)
      <4>1. 256 \in Nat \ {0} /\ <<>> \in Seq(Nat)
        OBVIOUS
      <4>2. QED
        BY <4>1, WorthZeros, ZenonT(60)
    <3>3. Worth(256, <<>>) = 0
      BY WorthSteps
    <3>4. QED
      BY <3>1, <3>2, <3>3, Zenon DEF b
  <2>3. Good(0)
    <3> HIDE DEF T, w
    <3> QED
      BY <1>0, <1>6, <2>1, <2>2, Zenon
  <2> HIDE DEF Good
  <2>4. QED
    BY <2>3
<1>8. ASSUME NEW i \in Nat, i \in S PROVE i + 1 \in S
  <2> SUFFICES ASSUME i + 1 <= n PROVE Good(i + 1)
    <3> HIDE DEF Good
    <3> QED
      OBVIOUS
  <2>1. Good(i)
    <3> HIDE DEF Good
    <3> QED
      BY <1>0, <1>8
  <2> DEFINE p == SubSeq(digits, 1, i)
             c == digits[i + 1]
             a == v[i]
  <2>2. p \in Seq(Digit) /\ c \in Digit /\ SubSeq(digits, 1, i + 1) = Append(p, c)
    BY PrefixGrows DEF n
  <2>3. i + 1 \in 1 .. n /\ (i + 1) - 1 = i
    BY <1>0
  <2>4. v[i + 1] = MulAdd(a, c)
    BY <1>6, <2>3
  <2>5. a \in Seq(Octet) /\ Len(a) = size /\ (w(i) < P => Worth(256, a) = w(i))
    BY <2>1
  <2>6. w(i + 1) = 58 * w(i) + c /\ w(i) \in Nat /\ c \in Nat
    <3> HIDE DEF p, c
    <3>1. p \in Seq(Nat) /\ c \in Nat
      BY <2>2, Numerals DEF Digit
    <3>2. Worth(58, Append(p, c)) = 58 * Worth(58, p) + c /\ Worth(58, p) \in Nat
      BY <3>1, WorthAppend
    <3>3. w(i) = Worth(58, p)
      BY DEF p
    <3>4. w(i + 1) = Worth(58, Append(p, c))
      BY <2>2
    <3>5. QED
      BY <3>1, <3>2, <3>3, <3>4
  <2> HIDE DEF p, c, a, w
  <2>7. MulAdd(a, c) \in Seq(Octet) /\ Len(MulAdd(a, c)) = size
    BY <2>2, <2>5, MulAddIs
  <2>8. ASSUME w(i + 1) < P PROVE Worth(256, MulAdd(a, c)) = w(i + 1)
    <3>1. P \in Nat
      BY Powers
    <3> HIDE DEF P
    <3>2. w(i) < P
      BY <2>6, <2>8, <3>1
    <3>3. PICK k \in Nat : k * Pow(256, Len(a)) + Worth(256, MulAdd(a, c)) = 58 * Worth(256, a) + c
      BY <2>2, <2>5, MulAddIs
    <3>4. k * P + Worth(256, MulAdd(a, c)) = w(i + 1)
      BY <2>5, <2>6, <3>2, <3>3, Zenon DEF P
    <3>5. Worth(256, MulAdd(a, c)) \in Nat
      BY <2>7, Numerals
    <3> DEFINE y == Worth(256, MulAdd(a, c))
               z == k * P
    <3>6. z \in Nat /\ (k # 0 => P <= z) /\ (k = 0 => z = 0)
      <4>1. k >= 1 => 1 * P <= k * P
        BY <3>1, TimesMonotone
      <4>2. QED
        BY <3>1, <4>1
    <3>7. z + y = w(i + 1) /\ y \in Nat
      BY <3>4, <3>5
    <3> HIDE DEF y, z
    <3>8. w(i + 1) \in Nat
      BY <2>6
    <3>9. k = 0
      BY <2>8, <3>1, <3>6, <3>7, <3>8
    <3>10. y = w(i + 1)
      BY <3>6, <3>7, <3>8, <3>9
    <3>11. QED
      BY <3>10 DEF y
  <2>9. QED
    BY <2>4, <2>7, <2>8
<1>9. Good(n)
  <2> HIDE DEF Good
  <2>1. Nat \subseteq S
    <3> HIDE DEF S
    <3> QED
      BY <1>7, <1>8, Induction
  <2>2. QED
    BY <1>0, <2>1
<1>10. w(n) = Worth(58, digits)
  <2>1. SubSeq(digits, 1, n) = digits
    BY SubSeqFull DEF n
  <2>2. QED
    BY <2>1
<1>11. QED
  <2>1. v[n] \in Seq(Octet) /\ Len(v[n]) = size
    BY <1>9
  <2> HIDE DEF w, T
  <2>2. Worth(256, v[n]) = Worth(58, digits)
    BY <1>9, <1>10
  <2>3. QED
    BY <1>5, <2>1, <2>2

---------------------------------------------------------------------------
\* There and back.

\* A buffer for a text is never shorter than for a part of it.
LEMMA BufferGrows ==
    ASSUME NEW k \in Nat, NEW n \in Nat, NEW z \in Nat, k <= (n * 733) \div 1000
    PROVE  k <= ((z + n) * 733) \div 1000 /\ ((z + n) * 733) \div 1000 \in Nat
<1> DEFINE x == n * 733
           y == (z + n) * 733
<1>1. x \in Nat /\ y \in Nat /\ x <= y
  OBVIOUS
<1> HIDE DEF x, y
<1>2. x \div 1000 <= y \div 1000 /\ y \div 1000 \in Nat /\ x \div 1000 \in Nat
  BY <1>1
<1>3. k <= x \div 1000
  BY DEF x
<1>4. k <= y \div 1000
  BY <1>2, <1>3
<1>5. QED
  BY <1>2, <1>4 DEF y

\* Base58 there and back: what encode_base58 makes of bytes, however many, that
\* are not all zero, decode_base58 reads back, its buffer being long enough.
THEOREM RoundTrip ==
    ASSUME NEW data \in Seq(Octet), Strip(data) # <<>>
    PROVE  /\ encode_base58(data) \in Seq(Digit)
           /\ decode_base58(encode_base58(data)) = data
<1> DEFINE z == Zeros(data)
           sig == Strip(data)
           t == Digits(data)
           text == Repeat(0, z) \o t
           m == Len(sig)
           n == Len(t)
           l == BufferLen(text)
           V == Worth(256, data)
<1>0. Octet \subseteq Nat /\ 0 \in Octet /\ Digit \subseteq Nat /\ 0 \in Digit
  BY DEF Octet, Digit
<1>1. /\ z \in Nat /\ sig \in Seq(Octet) /\ Leads(sig) /\ m = Len(data) - z
      /\ data = Repeat(0, z) \o sig
  BY <1>0, StripParts
<1> HIDE DEF z, sig
<1>2. data # <<>>
  <2>1. m \in Nat /\ m # 0
    <3>1. sig # <<>>
      BY DEF sig
    <3>2. QED
      BY <1>1, <3>1, LenProperties, EmptySeq
  <2> HIDE DEF m
  <2>2. Len(data) # 0
    BY <1>1, <2>1
  <2>3. QED
    BY <2>2
<1>3. V = Worth(256, sig) /\ V > 0 /\ V \in Nat /\ m - 1 \in Nat /\ Pow(256, m - 1) <= V
  <2>1. sig \in Seq(Nat) /\ sig # <<>>
    BY <1>1, Numerals DEF sig
  <2>2. sig[1] # 0
    BY <1>1, <2>1 DEF Leads
  <2>3. 256 \in Nat \ {0}
    OBVIOUS
  <2>4. Worth(256, Repeat(0, z) \o sig) = Worth(256, sig)
    BY <1>1, <2>1, <2>3, WorthZeros
  <2>5. V = Worth(256, sig)
    BY <1>1, <2>4, Zenon
  <2>6. m - 1 \in Nat /\ Pow(256, m - 1) <= Worth(256, sig)
    BY <2>1, <2>2, <2>3, WorthLead
  <2>7. Worth(256, sig) > 0
    BY <1>1, <2>1, LeadsPositive
  <2>8. V \in Nat
    BY Numerals
  <2> HIDE DEF V, m
  <2>9. QED
    BY <2>5, <2>6, <2>7, <2>8
<1>4. t \in Seq(Digit) /\ t # <<>> /\ Worth(58, t) = V /\ Leads(t)
  <2>1. /\ t \in Seq(Digit) /\ t # <<>> /\ Worth(58, t) = V
        /\ t[1] # 0 \/ t = <<0>>
    BY <1>2, DigitsIs
  <2>2. t # <<0>>
    <3>1. Worth(58, <<0>>) = 0
      <4>1. 58 \in Nat /\ <<>> \in Seq(Nat) /\ 0 \in Nat /\ <<0>> = Append(<<>>, 0)
        OBVIOUS
      <4>2. Worth(58, Append(<<>>, 0)) = 58 * Worth(58, <<>>) + 0
        BY <4>1, WorthAppend
      <4>3. Worth(58, <<>>) = 0
        BY WorthSteps
      <4>4. QED
        BY <4>1, <4>2, <4>3
    <3>2. QED
      BY <1>3, <2>1, <3>1
  <2>3. QED
    BY <2>1, <2>2 DEF Leads
<1> HIDE DEF t
<1>5. encode_base58(data) = text
  BY DEF encode_base58, z, t
<1>6. /\ text \in Seq(Digit) /\ Len(text) = z + n
      /\ Zeros(text) = z /\ Strip(text) = t
  BY <1>0, <1>1, <1>4, StripOf
<1> HIDE DEF text
<1>7. l \in Nat /\ m <= l /\ m \in Nat /\ n \in Nat
  <2>1. n \in Nat /\ m \in Nat
    BY <1>1, <1>4, LenProperties
  <2>2. V < Pow(58, n)
    <3>1. t \in Seq(0 .. 58 - 1) /\ 58 \in Nat \ {0}
      BY <1>4 DEF Digit
    <3>2. Worth(58, t) < Pow(58, n)
      BY <3>1, WorthBelow
    <3>3. QED
      BY <1>4, <3>2
  <2> DEFINE k == m - 1
  <2>3. k \in Nat /\ Pow(256, k) < Pow(58, n)
    <3>1. Pow(256, k) \in Nat /\ Pow(58, n) \in Nat
      BY <1>3, <2>1, Powers
    <3> HIDE DEF V
    <3>2. QED
      BY <1>3, <2>2, <3>1
  <2>4. m = k + 1
    BY <2>1
  <2> HIDE DEF k, m, n
  <2>5. k <= (n * 733) \div 1000
    BY <2>1, <2>3, Estimate
  <2>6. k <= ((z + n) * 733) \div 1000 /\ ((z + n) * 733) \div 1000 \in Nat
    BY <1>1, <2>1, <2>3, <2>5, BufferGrows
  <2>7. l = ((z + n) * 733) \div 1000 + 1
    <3>1. Len(text) = z + n
      BY <1>6
    <3>2. l = (Len(text) * 733) \div 1000 + 1
      BY DEF BufferLen, l
    <3>3. QED
      BY <3>1, <3>2
  <2> DEFINE e == ((z + n) * 733) \div 1000
  <2> HIDE DEF e
  <2>8. k <= e /\ e \in Nat /\ l = e + 1
    BY <2>6, <2>7 DEF e
  <2> HIDE DEF l
  <2>9. QED
    BY <2>1, <2>3, <2>4, <2>8
<1> HIDE DEF l
<1> DEFINE buf == Decoded(t, l)
           full == Repeat(0, l - m) \o sig
<1>8. Worth(58, t) < Pow(256, l)
  <2>1. Worth(256, sig) < Pow(256, m)
    <3>1. sig \in Seq(0 .. 256 - 1) /\ 256 \in Nat \ {0}
      BY <1>1 DEF Octet
    <3>2. QED
      BY <3>1, WorthBelow
  <2> HIDE DEF m, V
  <2>2. Pow(256, m) <= Pow(256, l)
    <3>1. 256 \in Nat \ {0}
      OBVIOUS
    <3>2. QED
      BY <1>7, <3>1, PowOrder
  <2>3. Pow(256, m) \in Nat /\ Pow(256, l) \in Nat
    <3>1. \A i \in Nat : Pow(256, i) \in Nat \ {0}
      BY Powers, ZenonT(60)
    <3>2. \A i \in Nat : Pow(256, i) \in Nat
      BY <3>1
    <3>3. QED
      BY <1>7, <3>2, Zenon
  <2>4. QED
    BY <1>3, <1>4, <2>1, <2>2, <2>3
<1>9. buf \in Seq(Octet) /\ Len(buf) = l /\ Worth(256, buf) = V
  <2> HIDE DEF V
  <2>1. Decoded(t, l) \in Seq(Octet) /\ Len(Decoded(t, l)) = l /\ Worth(256, Decoded(t, l)) = Worth(58, t)
    BY <1>4, <1>7, <1>8, DecodedIs
  <2>2. QED
    BY <1>4, <2>1
<1> DEFINE j == l - m
<1>10. j \in Nat /\ j + m = l
  <2> HIDE DEF m
  <2> QED
    BY <1>7
<1> HIDE DEF j
<1>11. /\ Repeat(0, j) \o sig \in Seq(Octet) /\ Len(Repeat(0, j) \o sig) = l
       /\ Strip(Repeat(0, j) \o sig) = sig
  <2>1. /\ Repeat(0, j) \o sig \in Seq(Octet) /\ Len(Repeat(0, j) \o sig) = j + m
        /\ Strip(Repeat(0, j) \o sig) = sig
    BY <1>0, <1>1, <1>10, StripOf
  <2>2. QED
    BY <1>10, <2>1
<1>12. Worth(256, Repeat(0, j) \o sig) = V
  <2>1. sig \in Seq(Nat) /\ 256 \in Nat \ {0}
    BY <1>1, Numerals
  <2>2. Worth(256, Repeat(0, j) \o sig) = Worth(256, sig)
    BY <1>10, <2>1, WorthZeros
  <2>3. QED
    BY <1>3, <2>2
<1>13. buf = Repeat(0, j) \o sig
  <2> DEFINE q == Repeat(0, j) \o sig
  <2>1. q \in Seq(0 .. 256 - 1) /\ buf \in Seq(0 .. 256 - 1) /\ 256 \in Nat \ {0}
    BY <1>9, <1>11 DEF Octet
  <2>2. Len(q) = Len(buf) /\ Worth(256, q) = Worth(256, buf)
    BY <1>9, <1>11, <1>12
  <2> HIDE DEF q, buf
  <2>3. q = buf
    BY <2>1, <2>2, WorthUnique
  <2>4. QED
    BY <2>3 DEF q
<1>14. decode_base58(text) = Repeat(0, z) \o sig
  <2>1. decode_base58(text) = Repeat(0, z) \o Strip(buf)
    BY <1>6, Zenon DEF decode_base58, l
  <2>2. Strip(buf) = sig
    BY <1>11, <1>13, Zenon
  <2>3. QED
    BY <2>1, <2>2, Zenon
<1>15. QED
  BY <1>1, <1>5, <1>6, <1>14, Zenon

\* Bytes that are all zero come back as one zero more.
LEMMA ZerosTrip ==
    ASSUME NEW data \in Seq(Octet), data # <<>>, Strip(data) = <<>>
    PROVE  /\ encode_base58(data) \in Seq(Digit)
           /\ data = Repeat(0, Len(data))
           /\ decode_base58(encode_base58(data)) = Repeat(0, Len(data) + 1)
<1> DEFINE z == Zeros(data)
           t == Digits(data)
           text == Repeat(0, z + 1) \o <<>>
           l == BufferLen(text)
<1>0. Octet \subseteq Nat /\ 0 \in Octet /\ Digit \subseteq Nat /\ 0 \in Digit
  BY DEF Octet, Digit
<1>1. z \in Nat /\ Len(data) = z /\ data = Repeat(0, z) /\ Worth(256, data) = 0
  <2>1. /\ z \in Nat /\ Len(Strip(data)) = Len(data) - z
        /\ data = Repeat(0, z) \o Strip(data)
    BY <1>0, StripParts
  <2> HIDE DEF z
  <2>2. Repeat(0, z) \in Seq(Nat)
    BY <2>1, RepeatType
  <2>3. Repeat(0, z) \o <<>> = Repeat(0, z)
    <3> DEFINE r == Repeat(0, z)
    <3>1. r \in Seq(Nat)
      BY <2>2
    <3> HIDE DEF r
    <3>2. r \o <<>> = r
      BY <3>1
    <3>3. QED
      BY <3>2 DEF r
  <2>4. data = Repeat(0, z)
    BY <2>1, <2>3, Zenon
  <2>5. Len(data) = z
    BY <2>1, <2>2, <2>4, RepeatType
  <2>6. Worth(256, Repeat(0, z) \o <<>>) = Worth(256, <<>>)
    <3>1. 256 \in Nat \ {0} /\ <<>> \in Seq(Nat)
      OBVIOUS
    <3>2. QED
      BY <2>1, <3>1, WorthZeros, ZenonT(60)
  <2>7. Worth(256, <<>>) = 0
    BY WorthSteps
  <2>8. QED
    BY <2>1, <2>3, <2>4, <2>5, <2>6, <2>7, Zenon
<1>2. t = <<0>>
  <2>1. /\ t \in Seq(Digit) /\ t # <<>> /\ Worth(58, t) = 0
        /\ t[1] # 0 \/ t = <<0>>
    BY <1>1, DigitsIs
  <2> HIDE DEF t
  <2>2. t \in Seq(Nat)
    BY <2>1, Numerals
  <2>3. t[1] # 0 => Worth(58, t) > 0
    BY <2>1, <2>2, LeadsPositive DEF Leads
  <2>4. QED
    BY <2>1, <2>3
<1> HIDE DEF t, z
<1>3. /\ Repeat(0, z + 1) \o <<>> = Repeat(0, z + 1)
      /\ Repeat(0, z + 1) \in Seq(Digit)
  <2>1. z + 1 \in Nat
    BY <1>1
  <2> DEFINE r == Repeat(0, z + 1)
  <2>2. r \in Seq(Digit)
    BY <1>0, <2>1, RepeatType
  <2> HIDE DEF r
  <2>3. r \o <<>> = r
    BY <2>2
  <2>4. QED
    BY <2>2, <2>3 DEF r
<1>4. encode_base58(data) = text
  <2>1. encode_base58(data) = Repeat(0, z) \o <<0>>
    BY <1>2, Zenon DEF encode_base58, z, t
  <2>2. Repeat(0, z) \o <<0>> = Repeat(0, z + 1)
    <3> DEFINE r == Repeat(0, z)
               q == Repeat(0, z + 1)
               e == <<0>>
    <3>1. r \in Seq(Nat) /\ Len(r) = z /\ \A i \in 1 .. z : r[i] = 0
      BY <1>1, RepeatType, ZenonT(60)
    <3>2. q \in Seq(Nat) /\ Len(q) = z + 1 /\ \A i \in 1 .. z + 1 : q[i] = 0
      <4>1. z + 1 \in Nat /\ 0 \in Nat
        BY <1>1
      <4>2. QED
        BY <4>1, RepeatType
    <3>3. e \in Seq(Nat) /\ Len(e) = 1 /\ e[1] = 0
      OBVIOUS
    <3> HIDE DEF r, q, e
    <3>4. /\ r \o e \in Seq(Nat) /\ Len(r \o e) = z + 1
          /\ \A i \in 1 .. z : (r \o e)[i] = r[i]
          /\ \A i \in 1 .. 1 : (r \o e)[z + i] = e[i]
      <4>1. /\ r \o e \in Seq(Nat) /\ Len(r \o e) = Len(r) + Len(e)
            /\ \A i \in 1 .. Len(r) : (r \o e)[i] = r[i]
            /\ \A i \in 1 .. Len(e) : (r \o e)[Len(r) + i] = e[i]
        <5>1. r \in Seq(Nat) /\ e \in Seq(Nat)
          BY <3>1, <3>3
        <5>2. QED
          BY <5>1, ConcatParts
      <4>2. QED
        BY <3>1, <3>3, <4>1
    <3> DEFINE c == r \o e
    <3>5. /\ c \in Seq(Nat) /\ Len(c) = z + 1
          /\ \A i \in 1 .. z : c[i] = 0
          /\ c[z + 1] = 0
      BY <3>1, <3>3, <3>4
    <3> HIDE DEF c
    <3>6. \A i \in 1 .. z + 1 : c[i] = q[i]
      BY <1>1, <3>2, <3>5
    <3>7. c = q
      BY <3>2, <3>5, <3>6, SeqEqual
    <3>8. QED
      BY <3>7 DEF c, r, q, e
  <2>3. QED
    BY <1>3, <2>1, <2>2, Zenon
<1>5. Zeros(text) = z + 1 /\ Strip(text) = <<>> /\ text \in Seq(Digit)
  <2>1. z + 1 \in Nat /\ <<>> \in Seq(Digit) /\ Leads(<<>>)
    BY <1>1 DEF Leads
  <2>2. QED
    BY <1>0, <2>1, StripOf
<1>6. l \in Nat
  <2>1. Len(text) \in Nat
    BY <1>5, LenProperties
  <2> DEFINE n == Len(text)
  <2> HIDE DEF n
  <2>2. n \in Nat
    BY <2>1 DEF n
  <2>3. (n * 733) \div 1000 + 1 \in Nat
    <3> DEFINE y == n * 733
    <3>1. y \in Nat
      BY <2>2
    <3> HIDE DEF y
    <3>2. y \div 1000 + 1 \in Nat
      BY <3>1
    <3>3. QED
      BY <3>2 DEF y
  <2>4. QED
    BY <2>3 DEF BufferLen, n
<1> HIDE DEF text, l
<1>7. Strip(Decoded(<<>>, l)) = <<>>
  <2> DEFINE d == Decoded(<<>>, l)
  <2>1. Worth(58, <<>>) < Pow(256, l)
    <3>1. Worth(58, <<>>) = 0
      BY WorthSteps
    <3>2. Pow(256, l) \in Nat \ {0}
      BY <1>6, Powers, ZenonT(60)
    <3>3. QED
      BY <3>1, <3>2
  <2>2. d \in Seq(Octet) /\ Worth(256, d) = 0
    <3>1. <<>> \in Seq(Digit) /\ Worth(58, <<>>) = 0
      BY WorthSteps
    <3>2. QED
      BY <1>6, <2>1, <3>1, DecodedIs
  <2> HIDE DEF d
  <2>3. /\ Zeros(d) \in Nat /\ Strip(d) \in Seq(Octet) /\ Leads(Strip(d))
        /\ d = Repeat(0, Zeros(d)) \o Strip(d)
    BY <1>0, <2>2, StripParts
  <2> DEFINE q == Strip(d)
             k == Zeros(d)
  <2> HIDE DEF q, k
  <2>4. k \in Nat /\ q \in Seq(Nat) /\ Leads(q) /\ d = Repeat(0, k) \o q
    BY <2>3, Numerals DEF q, k
  <2>5. Worth(256, Repeat(0, k) \o q) = Worth(256, q)
    <3>1. 256 \in Nat \ {0}
      OBVIOUS
    <3>2. QED
      BY <2>4, <3>1, WorthZeros
  <2>6. Worth(256, q) = 0
    BY <2>2, <2>4, <2>5, Zenon
  <2>7. q # <<>> => Worth(256, q) > 0
    BY <2>4, LeadsPositive
  <2>8. q = <<>>
    BY <2>6, <2>7
  <2>9. QED
    BY <2>8, Zenon DEF q, d
<1>8. decode_base58(text) = Repeat(0, z + 1)
  <2>1. decode_base58(text) = Repeat(0, z + 1) \o <<>>
    BY <1>5, <1>7, Zenon DEF decode_base58, l
  <2>2. QED
    BY <1>3, <2>1, Zenon
<1>9. QED
  BY <1>1, <1>4, <1>5, <1>8

---------------------------------------------------------------------------
\* Scripts and addresses.

\* The part between two others.
LEMMA MiddlePart ==
    ASSUME NEW S, NEW c \in Seq(S), NEW d \in Seq(S), NEW e \in Seq(S)
    PROVE  /\ c \o d \o e \in Seq(S) /\ Len(c \o d \o e) = Len(c) + Len(d) + Len(e)
           /\ SubSeq(c \o d \o e, Len(c) + 1, Len(c) + Len(d)) = d
           /\ \A i \in 1 .. Len(c) : (c \o d \o e)[i] = c[i]
           /\ \A i \in 1 .. Len(d) : (c \o d \o e)[Len(c) + i] = d[i]
           /\ \A i \in 1 .. Len(e) : (c \o d \o e)[Len(c) + Len(d) + i] = e[i]
<1> DEFINE f == c \o d
           g == f \o e
           n == Len(c)
           m == Len(d)
           k == Len(e)
<1>1. n \in Nat /\ m \in Nat /\ k \in Nat
  BY LenProperties
<1>2. /\ f \in Seq(S) /\ Len(f) = n + m
      /\ \A i \in 1 .. n : f[i] = c[i]
      /\ \A i \in 1 .. m : f[n + i] = d[i]
  BY ConcatParts
<1> HIDE DEF f
<1>3. /\ g \in Seq(S) /\ Len(g) = Len(f) + k
      /\ \A i \in 1 .. Len(f) : g[i] = f[i]
      /\ \A i \in 1 .. k : g[Len(f) + i] = e[i]
  <2>1. f \in Seq(S)
    BY <1>2
  <2>2. QED
    BY <2>1, ConcatParts
<1> HIDE DEF g, n, m, k
<1>4. /\ g \in Seq(S) /\ Len(g) = n + m + k
      /\ \A i \in 1 .. n : g[i] = c[i]
      /\ \A i \in 1 .. m : g[n + i] = d[i]
      /\ \A i \in 1 .. k : g[n + m + i] = e[i]
  BY <1>1, <1>2, <1>3
<1> DEFINE p == SubSeq(g, n + 1, n + m)
<1>5. p \in Seq(S) /\ Len(p) = m /\ \A i \in 1 .. m : p[i] = d[i]
  BY <1>1, <1>4
<1> HIDE DEF p
<1>6. p = d
  BY <1>5, SeqEqual DEF m
<1>7. QED
  BY <1>4, <1>6 DEF p, f, g, n, m, k

\* A part of n elements from the a-th.
LEMMA InnerPart ==
    ASSUME NEW S, NEW s \in Seq(S), NEW a \in Nat \ {0}, NEW n \in Nat, a + n - 1 <= Len(s)
    PROVE  /\ SubSeq(s, a, a + n - 1) \in Seq(S) /\ Len(SubSeq(s, a, a + n - 1)) = n
           /\ \A i \in 1 .. n : SubSeq(s, a, a + n - 1)[i] = s[a + i - 1]
<1>1. Len(s) \in Nat
  BY LenProperties
<1>2. QED
  BY <1>1

\* A function on the first n numbers is a sequence.
LEMMA RowIsSeq ==
    ASSUME NEW S, NEW n \in Nat, NEW h \in [1 .. n -> S]
    PROVE  h \in Seq(S) /\ Len(h) = n
<1>1. h \in Seq(S)
  BY SeqDef
<1>2. DOMAIN h = 1 .. n /\ DOMAIN h = 1 .. Len(h) /\ Len(h) \in Nat
  BY <1>1, LenProperties
<1>3. QED
  BY <1>2

\* The three constants are bytes.
LEMMA AddressTypes ==
    /\ \A h \in KeyHashes : h \in Seq(Octet) /\ Len(h) = 20
    /\ \A c \in Sums : c \in Seq(Octet) /\ Len(c) = 4
    /\ \A m \in Mistakes : ~UsableText(m)
<1>1. \A h \in [1 .. 20 -> Octet] : h \in Seq(Octet) /\ Len(h) = 20
  <2>1. 20 \in Nat
    OBVIOUS
  <2>2. QED
    BY <2>1, RowIsSeq
<1>2. \A c \in [1 .. 4 -> Octet] : c \in Seq(Octet) /\ Len(c) = 4
  <2>1. 4 \in Nat
    OBVIOUS
  <2>2. QED
    BY <2>1, RowIsSeq
<1>3. QED
  BY <1>1, <1>2, AddressAssumption, Zenon DEF AddressAssumption

\* A Base58 address is used, and the hash in it is found.
LEMMA AddressIsUsable ==
    ASSUME NEW version \in Octet, NEW h \in Seq(Octet), NEW sum \in Seq(Octet)
    PROVE  Len(h) = 20 /\ Len(sum) = 4 =>
               /\ UsableText(encode_base58check(version, h, sum))
               /\ SubSeq(decode_base58(encode_base58check(version, h, sum)), 2, 21) = h
<1> DEFINE data == <<version>> \o h \o sum
           text == encode_base58(data)
           c == <<version>>
<1>1. encode_base58check(version, h, sum) = text
  BY DEF encode_base58check
<1>0. c \in Seq(Octet) /\ Len(c) = 1
  OBVIOUS
<1> HIDE DEF c
<1>2. /\ c \o h \o sum \in Seq(Octet) /\ Len(c \o h \o sum) = Len(c) + Len(h) + Len(sum)
      /\ SubSeq(c \o h \o sum, Len(c) + 1, Len(c) + Len(h)) = h
      /\ \A i \in 1 .. Len(h) : (c \o h \o sum)[Len(c) + i] = h[i]
  <2>1. c \in Seq(Octet)
    BY <1>0
  <2>2. QED
    BY <2>1, MiddlePart
<1> SUFFICES ASSUME Len(h) = 20, Len(sum) = 4
             PROVE  /\ UsableText(text) /\ SubSeq(decode_base58(text), 2, 21) = h
  BY <1>1
<1>7. /\ data \in Seq(Octet) /\ Len(data) = 25 /\ SubSeq(data, 2, 21) = h
      /\ \A i \in 1 .. 20 : data[1 + i] = h[i]
  <2>3. 1 + 20 + 4 = 25 /\ 1 + 1 = 2 /\ 1 + 20 = 21
    OBVIOUS
  <2>4. QED
    BY <1>0, <1>2, <2>3, Zenon DEF c
<1> HIDE DEF data
<1>3. data \in Seq(Octet) /\ data # <<>>
  <2>1. data \in Seq(Octet) /\ Len(data) # 0
    BY <1>7
  <2>2. QED
    BY <2>1
<1>4. /\ text \in Seq(Digit)
      /\ decode_base58(text) \in Seq(Octet) /\ Len(decode_base58(text)) >= 25
      /\ SubSeq(decode_base58(text), 2, 21) = h
  <2>1. CASE Strip(data) # <<>>
    <3>1. text \in Seq(Digit) /\ decode_base58(text) = data
      BY <1>3, <2>1, RoundTrip
    <3> HIDE DEF text
    <3>2. 25 >= 25
      OBVIOUS
    <3>3. QED
      BY <1>7, <3>1, <3>2, Zenon
  <2>2. CASE Strip(data) = <<>>
    <3>1. /\ text \in Seq(Digit) /\ data = Repeat(0, 25)
          /\ decode_base58(text) = Repeat(0, 26)
      <4>1. /\ text \in Seq(Digit) /\ data = Repeat(0, Len(data))
            /\ decode_base58(text) = Repeat(0, Len(data) + 1)
        BY <1>3, <2>2, ZerosTrip
      <4>2. 25 + 1 = 26
        OBVIOUS
      <4>3. QED
        BY <1>7, <4>1, <4>2, Zenon
    <3> DEFINE r == Repeat(0, 26)
               q == Repeat(0, 25)
    <3>2. r \in Seq(Octet) /\ Len(r) = 26 /\ \A i \in 1 .. 26 : r[i] = 0
      <4>1. 0 \in Octet /\ 26 \in Nat
        BY DEF Octet
      <4>2. QED
        BY <4>1, RepeatType
    <3>3. q \in Seq(Octet) /\ Len(q) = 25 /\ \A i \in 1 .. 25 : q[i] = 0
      <4>1. 0 \in Octet /\ 25 \in Nat
        BY DEF Octet
      <4>2. QED
        BY <4>1, RepeatType
    <3> HIDE DEF r, q
    <3>4. \A i \in 1 .. 20 : h[i] = 0
      <4> SUFFICES ASSUME NEW i \in 1 .. 20 PROVE h[i] = 0
        OBVIOUS
      <4>1. h[i] = q[1 + i]
        BY <1>7, <3>1 DEF q
      <4>2. 1 + i \in 1 .. 25
        OBVIOUS
      <4>3. QED
        BY <3>3, <4>1, <4>2
    <3> DEFINE p == SubSeq(r, 2, 21)
    <3>5. p \in Seq(Octet) /\ Len(p) = 20 /\ \A i \in 1 .. 20 : p[i] = 0
      <4>1. r \in Seq(Octet) /\ 2 \in Nat \ {0} /\ 20 \in Nat /\ 2 + 20 - 1 <= Len(r)
        BY <3>2
      <4>2. /\ SubSeq(r, 2, 2 + 20 - 1) \in Seq(Octet) /\ Len(SubSeq(r, 2, 2 + 20 - 1)) = 20
            /\ \A i \in 1 .. 20 : SubSeq(r, 2, 2 + 20 - 1)[i] = r[2 + i - 1]
        BY <4>1, InnerPart, SMTT(60)
      <4>3. 2 + 20 - 1 = 21 /\ \A i \in 1 .. 20 : 2 + i - 1 \in 1 .. 26
        OBVIOUS
      <4>4. QED
        BY <3>2, <4>2, <4>3, Zenon
    <3> HIDE DEF p
    <3>6. p = h
      <4>1. Len(p) = Len(h) /\ \A i \in 1 .. Len(p) : p[i] = h[i]
        BY <3>4, <3>5
      <4>2. QED
        BY <3>5, <4>1, SeqEqual
    <3>7. QED
      <4>1. decode_base58(text) = r
        BY <3>1 DEF r
      <4>2. SubSeq(r, 2, 21) = h
        BY <3>6 DEF p
      <4>3. 26 >= 25
        OBVIOUS
      <4>4. QED
        BY <3>1, <3>2, <4>1, <4>2, <4>3, Zenon
  <2>3. QED
    BY <2>1, <2>2
<1> HIDE DEF text
<1>5. Decodable(text)
  <2>1. Range(text) \subseteq Digit
    <3>1. \A i \in DOMAIN text : text[i] \in Digit
      BY <1>4, ElementOfSeq, LenProperties
    <3>2. QED
      BY <3>1 DEF Range
  <2>2. Foreign \notin Digit
    BY DEF Foreign, Digit
  <2>3. QED
    BY <2>1, <2>2 DEF Decodable
<1>6. QED
  BY <1>4, <1>5, Zenon DEF UsableText

\* What a script that frames a hash begins with, holds and ends with.
LEMMA FrameParts ==
    ASSUME NEW S, NEW c \in Seq(S), NEW h \in Seq(S), NEW e \in Seq(S)
    PROVE  /\ c \o h \o e \in Seq(S) /\ Len(c \o h \o e) = Len(c) + Len(h) + Len(e)
           /\ Begins(c \o h \o e, c)
           /\ SubSeq(c \o h \o e, Len(c) + 1, Len(c) + Len(h)) = h
           /\ SubSeq(c \o h \o e, Len(c) + Len(h) + 1, Len(c) + Len(h) + Len(e)) = e
           /\ Contains20(c \o h \o e, h)
<1> DEFINE s == c \o h \o e
           f == c \o h
           g == h \o e
           n == Len(c)
           m == Len(h)
           k == Len(e)
<1>1. /\ s \in Seq(S) /\ Len(s) = n + m + k
      /\ SubSeq(s, n + 1, n + m) = h
  BY MiddlePart
<1>2. f \in Seq(S) /\ Len(f) = n + m /\ g \in Seq(S) /\ s = c \o g
  BY ConcatParts, ConcatThree
<1>3. SubSeq(s, 1, n) = c
  <2> HIDE DEF g
  <2>1. SubSeq(c \o g, 1, n) = c
    BY <1>2, ConcatDrop
  <2>2. QED
    BY <1>2, <2>1, Zenon
<1>4. SubSeq(s, n + m + 1, n + m + k) = e
  <2> HIDE DEF f
  <2>1. SubSeq(f \o e, Len(f) + 1, Len(f) + k) = e
    BY <1>2, ConcatDrop
  <2>2. s = f \o e
    BY DEF f
  <2>3. QED
    BY <1>2, <2>1, <2>2, Zenon
<1>5. n \in Nat /\ m \in Nat /\ k \in Nat
  BY LenProperties
<1> HIDE DEF s, n, m, k
<1>6. Begins(s, c)
  <2>1. n <= Len(s)
    BY <1>1, <1>5
  <2>2. SubSeq(c, 1, n) = c
    BY SubSeqFull DEF n
  <2>3. QED
    BY <1>3, <2>1, <2>2, Zenon DEF Begins, IsPrefix, n
<1>7. Contains20(s, h)
  <2>1. n \in 0 .. Len(s) - m
    BY <1>1, <1>5
  <2>2. QED
    BY <1>1, <2>1, Zenon DEF Contains20, m
<1>8. QED
  BY <1>1, <1>4, <1>6, <1>7 DEF s, n, m, k

\* The three scripts, framing their hash.
LEMMA ScriptFrames ==
    ASSUME NEW out \in Outputs
    PROVE  /\ out.form = "p2pkh" => Script(out) = <<118, 169, 20>> \o out.hash \o <<136, 172>>
           /\ out.form = "p2sh" => Script(out) = <<169, 20>> \o out.hash \o <<135>>
           /\ out.form = "p2wpkh" => Script(out) = <<0, 20>> \o out.hash \o <<>>
           /\ out.form \in Forms /\ out.hash \in KeyHashes
<1>1. out.form \in Forms /\ out.hash \in KeyHashes
  BY DEF Outputs
<1>2. out.form = "p2pkh" => Script(out) = <<118, 169, 20>> \o out.hash \o <<136, 172>>
  BY DEF Script
<1>3. out.form = "p2sh" => Script(out) = <<169, 20>> \o out.hash \o <<135>>
  BY DEF Script
<1>4. out.form = "p2wpkh" => Script(out) = <<0, 20>> \o out.hash
  BY DEF Script
<1>5. <<0, 20>> \o out.hash = <<0, 20>> \o out.hash \o <<>>
  <2> DEFINE h == out.hash
  <2>1. h \in Seq(Octet)
    BY <1>1, AddressTypes
  <2> HIDE DEF h
  <2>2. <<0, 20>> \in Seq(Octet)
    BY DEF Octet
  <2> DEFINE c == <<0, 20>>
  <2>3. c \in Seq(Octet)
    BY <2>2
  <2> HIDE DEF c
  <2>4. c \o h \in Seq(Octet)
    BY <2>1, <2>3, ConcatParts
  <2>5. c \o h \o <<>> = c \o h
    BY <2>4, ConcatEmptySeq
  <2>6. QED
    BY <2>5 DEF c, h
<1>6. QED
  BY <1>1, <1>2, <1>3, <1>4, <1>5, Zenon

\* A script holds its hash.
LEMMA ScriptHolds == \A out \in Outputs : Contains20(Script(out), out.hash)
<1> SUFFICES ASSUME NEW out \in Outputs PROVE Contains20(Script(out), out.hash)
  OBVIOUS
<1> DEFINE h == out.hash
<1>1. h \in Seq(Octet) /\ out.form \in Forms
  BY ScriptFrames, AddressTypes
<1>2. /\ <<118, 169, 20>> \in Seq(Octet) /\ <<136, 172>> \in Seq(Octet)
      /\ <<169, 20>> \in Seq(Octet) /\ <<135>> \in Seq(Octet)
      /\ <<0, 20>> \in Seq(Octet) /\ <<>> \in Seq(Octet)
  BY DEF Octet
<1> HIDE DEF h
<1>3. \A c, e \in Seq(Octet) : Contains20(c \o h \o e, h)
  BY <1>1, FrameParts
<1>4. /\ Contains20(<<118, 169, 20>> \o h \o <<136, 172>>, h)
      /\ Contains20(<<169, 20>> \o h \o <<135>>, h)
      /\ Contains20(<<0, 20>> \o h \o <<>>, h)
  BY <1>2, <1>3, Zenon
<1>5. QED
  BY <1>1, <1>4, ScriptFrames, ZenonT(60) DEF Forms, h

\* The text shown for each kind of script.
LEMMA TextShown ==
    ASSUME NEW out \in Outputs, NEW sum
    PROVE  /\ out.form = "p2pkh" =>
                  pk_script_to_address(Script(out), sum) = encode_base58check(0, out.hash, sum)
           /\ out.form = "p2sh" =>
                  pk_script_to_address(Script(out), sum) = encode_base58check(5, out.hash, sum)
           /\ out.form = "p2wpkh" =>
                  pk_script_to_address(Script(out), sum) = <<34, 35, 0, Foreign>>
<1> DEFINE h == out.hash
<1>0. h \in Seq(Octet) /\ Len(h) = 20
  BY ScriptFrames, AddressTypes
<1>1. ASSUME out.form = "p2pkh"
      PROVE  pk_script_to_address(Script(out), sum) = encode_base58check(0, out.hash, sum)
  <2> DEFINE c == <<118, 169, 20>>
             e == <<136, 172>>
  <2>1. c \in Seq(Octet) /\ Len(c) = 3 /\ e \in Seq(Octet) /\ Len(e) = 2
    BY DEF Octet
  <2> HIDE DEF c, e, h
  <2>2. /\ Len(c \o h \o e) = Len(c) + Len(h) + Len(e)
        /\ Begins(c \o h \o e, c)
        /\ SubSeq(c \o h \o e, Len(c) + 1, Len(c) + Len(h)) = h
        /\ SubSeq(c \o h \o e, Len(c) + Len(h) + 1, Len(c) + Len(h) + Len(e)) = e
    <3>1. c \in Seq(Octet) /\ e \in Seq(Octet) /\ h \in Seq(Octet)
      BY <1>0, <2>1
    <3>2. QED
      BY <3>1, FrameParts
  <2> DEFINE s == c \o h \o e
  <2>3. /\ Len(s) = 25 /\ Begins(s, c) /\ SubSeq(s, 4, 23) = h /\ SubSeq(s, 24, 25) = e
    <3>1. 3 + 20 + 2 = 25 /\ 3 + 1 = 4 /\ 3 + 20 = 23 /\ 23 + 1 = 24 /\ 23 + 2 = 25
      OBVIOUS
    <3>2. QED
      BY <1>0, <2>1, <2>2, <3>1, Zenon
  <2>4. Script(out) = s
    BY <1>1, ScriptFrames DEF c, e, h
  <2> HIDE DEF s
  <2>5. /\ Len(s) = 25 /\ Begins(s, <<118, 169, 20>>) /\ SubSeq(s, 24, 25) = <<136, 172>>
        /\ ~(Len(s) = 23) /\ ~(Len(s) = 22)
    BY <2>3 DEF c, e
  <2>6. pk_script_to_address(s, sum) = encode_base58check(0, SubSeq(s, 4, 23), sum)
    BY <2>5 DEF pk_script_to_address
  <2>7. QED
    BY <2>3, <2>4, <2>6 DEF h
<1>2. ASSUME out.form = "p2sh"
      PROVE  pk_script_to_address(Script(out), sum) = encode_base58check(5, out.hash, sum)
  <2> DEFINE c == <<169, 20>>
             e == <<135>>
  <2>1. c \in Seq(Octet) /\ Len(c) = 2 /\ e \in Seq(Octet) /\ Len(e) = 1 /\ e[1] = 135
    BY DEF Octet
  <2> HIDE DEF c, e, h
  <2>2. /\ c \o h \o e \in Seq(Octet)
        /\ Len(c \o h \o e) = Len(c) + Len(h) + Len(e)
        /\ Begins(c \o h \o e, c)
        /\ SubSeq(c \o h \o e, Len(c) + 1, Len(c) + Len(h)) = h
        /\ \A i \in 1 .. Len(e) : (c \o h \o e)[Len(c) + Len(h) + i] = e[i]
    <3>1. c \in Seq(Octet) /\ e \in Seq(Octet) /\ h \in Seq(Octet)
      BY <1>0, <2>1
    <3>2. QED
      BY <3>1, FrameParts, MiddlePart
  <2> DEFINE s == c \o h \o e
  <2>3. /\ Len(s) = 23 /\ Begins(s, c) /\ SubSeq(s, 3, 22) = h /\ s[23] = 135
    <3>1. 2 + 20 + 1 = 23 /\ 2 + 1 = 3 /\ 2 + 20 = 22 /\ 22 + 1 = 23 /\ 1 \in 1 .. 1
      OBVIOUS
    <3>2. Len(s) = 2 + 20 + 1 /\ SubSeq(s, 2 + 1, 2 + 20) = h
      BY <1>0, <2>1, <2>2, Zenon
    <3>3. s[2 + 20 + 1] = 135
      <4>1. s[Len(c) + Len(h) + 1] = e[1]
        BY <2>1, <2>2
      <4>2. QED
        BY <1>0, <2>1, <4>1, Zenon
    <3>4. Len(s) = 23 /\ SubSeq(s, 3, 22) = h /\ s[23] = 135
      BY <3>1, <3>2, <3>3, Zenon
    <3>5. QED
      BY <2>2, <3>4, Zenon
  <2>4. Script(out) = s
    BY <1>2, ScriptFrames DEF c, e, h
  <2> HIDE DEF s
  <2>5. /\ Len(s) = 23 /\ Begins(s, <<169, 20>>) /\ s[23] = 135
        /\ ~(Len(s) = 25) /\ ~(Len(s) = 22)
    BY <2>3 DEF c
  <2>6. pk_script_to_address(s, sum) = encode_base58check(5, SubSeq(s, 3, 22), sum)
    BY <2>5 DEF pk_script_to_address
  <2>7. QED
    BY <2>3, <2>4, <2>6 DEF h
<1>3. ASSUME out.form = "p2wpkh"
      PROVE  pk_script_to_address(Script(out), sum) = <<34, 35, 0, Foreign>>
  <2> DEFINE c == <<0, 20>>
             e == <<>>
  <2>1. c \in Seq(Octet) /\ Len(c) = 2 /\ e \in Seq(Octet) /\ Len(e) = 0
    BY DEF Octet
  <2> HIDE DEF c, e, h
  <2>2. /\ Len(c \o h \o e) = Len(c) + Len(h) + Len(e)
        /\ Begins(c \o h \o e, c)
    <3>1. c \in Seq(Octet) /\ e \in Seq(Octet) /\ h \in Seq(Octet)
      BY <1>0, <2>1
    <3>2. QED
      BY <3>1, FrameParts
  <2> DEFINE s == c \o h \o e
  <2>3. /\ Len(s) = 22 /\ Begins(s, c)
    <3>1. Len(c \o h \o e) = 22
      BY <1>0, <2>1, <2>2
    <3>2. QED
      BY <2>2, <3>1
  <2>4. Script(out) = s
    BY <1>3, ScriptFrames DEF c, e, h
  <2> HIDE DEF s
  <2>5. Len(s) = 22 /\ Begins(s, <<0, 20>>) /\ ~(Len(s) = 25) /\ ~(Len(s) = 23)
    BY <2>3 DEF c
  <2>6. pk_script_to_address(s, sum) = <<34, 35, 0, Foreign>>
    BY <2>5 DEF pk_script_to_address
  <2>7. QED
    BY <2>4, <2>6
<1>4. QED
  BY <1>1, <1>2, <1>3

---------------------------------------------------------------------------
\* The filter.

\* What the text shown for an output adds to the hashes: for P2WPKH nothing,
\* for any other output its hash.
LEMMA TextTracked ==
    ASSUME NEW out \in Outputs, NEW sum \in Sums, NEW hashes
    PROVE  Tracked(hashes, pk_script_to_address(Script(out), sum)) =
               IF out.form = "p2wpkh" THEN hashes ELSE Append(hashes, out.hash)
<1> DEFINE text == pk_script_to_address(Script(out), sum)
           h == out.hash
<1>1. out.form \in Forms /\ h \in Seq(Octet) /\ Len(h) = 20 /\ sum \in Seq(Octet) /\ Len(sum) = 4
  BY ScriptFrames, AddressTypes
<1>2. CASE out.form = "p2wpkh"
  <2>1. text = <<34, 35, 0, Foreign>>
    BY <1>2, TextShown
  <2>2. Foreign \in Range(<<34, 35, 0, Foreign>>)
    <3> DEFINE s == <<34, 35, 0, Foreign>>
    <3>1. 4 \in DOMAIN s /\ s[4] = Foreign
      OBVIOUS
    <3> HIDE DEF s
    <3>2. Foreign \in Range(s)
      BY <3>1, Zenon DEF Range
    <3>3. QED
      BY <3>2 DEF s
  <2>3. ~UsableText(text)
    BY <2>1, <2>2, Zenon DEF UsableText, Decodable
  <2>4. QED
    BY <1>2, <2>3, Zenon DEF Tracked
<1>3. CASE out.form # "p2wpkh"
  <2>1. PICK version \in Octet : text = encode_base58check(version, h, sum)
    <3>1. 0 \in Octet /\ 5 \in Octet
      BY DEF Octet
    <3>2. out.form = "p2pkh" \/ out.form = "p2sh"
      BY <1>1, <1>3 DEF Forms
    <3>3. QED
      BY <3>1, <3>2, TextShown
  <2> HIDE DEF text, h
  <2>2. UsableText(text) /\ SubSeq(decode_base58(text), 2, 21) = h
    BY <1>1, <2>1, AddressIsUsable
  <2>3. Tracked(hashes, text) = Append(hashes, h)
    BY <2>2, Zenon DEF Tracked
  <2>4. QED
    BY <1>3, <2>3, Zenon DEF text, h
<1>4. QED
  BY <1>2, <1>3

\* The texts a user gives.
Texts == Mistakes \cup {pk_script_to_address(Script(out), sum) : out \in Outputs, sum \in Sums}

\* A mistake adds nothing, and no text anything but key hashes.
LEMMA TextsTracked ==
    /\ \A m \in Mistakes : \A hashes : Tracked(hashes, m) = hashes
    /\ \A x \in Texts : \A hashes \in Seq(KeyHashes) : Tracked(hashes, x) \in Seq(KeyHashes)
<1>1. \A m \in Mistakes : \A hashes : Tracked(hashes, m) = hashes
  <2>1. \A m \in Mistakes : ~UsableText(m)
    BY AddressTypes
  <2>2. QED
    BY <2>1, Zenon DEF Tracked
<1>2. ASSUME NEW out \in Outputs, NEW sum \in Sums, NEW hashes \in Seq(KeyHashes)
      PROVE  Tracked(hashes, pk_script_to_address(Script(out), sum)) \in Seq(KeyHashes)
  <2> DEFINE h == out.hash
  <2>1. h \in KeyHashes
    BY ScriptFrames
  <2>2. Tracked(hashes, pk_script_to_address(Script(out), sum)) =
            IF out.form = "p2wpkh" THEN hashes ELSE Append(hashes, h)
    BY TextTracked
  <2> HIDE DEF h
  <2>3. Append(hashes, h) \in Seq(KeyHashes)
    BY <2>1, AppendProperties
  <2>4. QED
    BY <2>2, <2>3, Zenon
<1>3. ASSUME NEW x \in Texts, NEW hashes \in Seq(KeyHashes)
      PROVE  Tracked(hashes, x) \in Seq(KeyHashes)
  <2>1. CASE x \in Mistakes
    BY <1>1, <2>1, Zenon
  <2>2. CASE x \notin Mistakes
    <3>1. PICK out \in Outputs, sum \in Sums : x = pk_script_to_address(Script(out), sum)
      BY <2>2 DEF Texts
    <3>2. QED
      BY <1>2, <3>1, Zenon
  <2>3. QED
    BY <2>1, <2>2
<1>4. QED
  BY <1>1, <1>3, Zenon

\* The hashes of the first n arguments, one argument more at a time.
PartialFilters(v, a, n) ==
    /\ v[0] = <<>>
    /\ \A i \in 1 .. n : v[i] = Tracked(v[i - 1], a[i])
    /\ \A i \in 0 .. n : v[i] \in Seq(KeyHashes)

\* The filter is the last of the partial filters.
LEMMA FilterRow ==
    ASSUME NEW a \in Seq(Texts)
    PROVE  \E v : PartialFilters(v, a, Len(a)) /\ filter_hashes(a) = v[Len(a)]
<1> DEFINE n == Len(a)
           T == Seq(KeyHashes)
           Is(v) == v = [i \in 0 .. n |-> IF i = 0 THEN <<>> ELSE Tracked(v[i - 1], a[i])]
           g == [x \in (1 .. n) \X T |-> Tracked(x[2], a[x[1]])]
           v == CHOOSE v : Is(v)
<1>0. n \in Nat /\ (\A i \in 1 .. n : a[i] \in Texts) /\ <<>> \in T
  BY LenProperties, ElementOfSeq
<1> HIDE DEF n, T
<1>1. \A i \in 1 .. n : \A x \in T :
          g[<<i, x>>] = Tracked(x, a[i]) /\ Tracked(x, a[i]) \in T
  <2>1. \A i \in 1 .. n : \A x \in T : Tracked(x, a[i]) \in T
    BY <1>0, TextsTracked, Zenon DEF T
  <2>2. QED
    BY <2>1
<1>2. PICK f : Iterates(f, n, <<>>, g) /\ \A i \in 0 .. n : f[i] \in T
  <2> HIDE DEF g
  <2>1. \A i \in 1 .. n : \A x \in T : g[<<i, x>>] \in T
    BY <1>1
  <2>2. QED
    BY <1>0, <2>1, IterationTyped
<1> HIDE DEF g
<1>3. Is(f)
  <2>1. ASSUME NEW i \in 0 .. n
        PROVE  f[i] = IF i = 0 THEN <<>> ELSE Tracked(f[i - 1], a[i])
    <3>1. CASE i = 0
      BY <1>2, <3>1, Zenon DEF Iterates
    <3>2. CASE i # 0
      <4>1. i \in 1 .. n /\ i - 1 \in 0 .. n
        BY <1>0, <3>2
      <4>2. f[i] = g[<<i, f[i - 1]>>] /\ f[i - 1] \in T
        BY <1>2, <4>1, Zenon DEF Iterates
      <4>3. QED
        BY <1>1, <3>2, <4>1, <4>2, Zenon
    <3>3. QED
      BY <3>1, <3>2, Zenon
  <2>2. f = [i \in 0 .. n |-> f[i]]
    BY <1>2 DEF Iterates
  <2>3. QED
    BY <2>1, <2>2, Zenon
<1>4. Is(v)
  BY <1>3, Zenon
<1>5. filter_hashes(a) = v[n]
  BY Zenon DEF filter_hashes, n
<1> HIDE DEF v
<1>6. v[0] = <<>> /\ \A i \in 1 .. n : v[i] = Tracked(v[i - 1], a[i])
  <2>1. \A i \in 0 .. n : v[i] = IF i = 0 THEN <<>> ELSE Tracked(v[i - 1], a[i])
    BY <1>4, Zenon
  <2>2. 0 \in 0 .. n /\ \A i \in 1 .. n : i \in 0 .. n /\ i # 0
    BY <1>0
  <2>3. QED
    BY <2>1, <2>2, Zenon
<1>7. \A i \in 0 .. n : v[i] \in T
  <2>1. \A i \in 1 .. n : v[i - 1] \in T => v[i] \in T
    BY <1>1, <1>6, Zenon
  <2>2. v[0] \in T
    BY <1>0, <1>6, Zenon
  <2>3. QED
    BY <1>0, <2>1, <2>2, IterationKeeps
<1>8. PartialFilters(v, a, n)
  BY <1>6, <1>7, Zenon DEF PartialFilters, T
<1>9. QED
  BY <1>5, <1>8, Zenon DEF n

\* Filters of the same arguments are the same.
LEMMA FiltersAgree ==
    ASSUME NEW n \in Nat, NEW a, NEW b, NEW v, NEW w,
           PartialFilters(v, a, n), PartialFilters(w, b, n + 1), \A i \in 1 .. n : a[i] = b[i]
    PROVE  v[n] = w[n]
<1>1. v[0] = w[0]
  BY Zenon DEF PartialFilters
<1>2. \A i \in 1 .. n : i \in 1 .. n + 1
  OBVIOUS
<1>3. ASSUME NEW i \in 1 .. n, v[i - 1] = w[i - 1] PROVE v[i] = w[i]
  BY <1>2, <1>3, Zenon DEF PartialFilters
<1>4. \A i \in 0 .. n : v[i] = w[i]
  BY <1>1, <1>3, IterationsAgree
<1>5. QED
  BY <1>4

\* Without arguments the filter is empty, and one more argument adds what it
\* adds by itself.
LEMMA FilterSteps ==
    /\ filter_hashes(<<>>) = <<>>
    /\ \A a \in Seq(Texts) : filter_hashes(a) \in Seq(KeyHashes)
    /\ \A a \in Seq(Texts) : \A x \in Texts :
           filter_hashes(Append(a, x)) = Tracked(filter_hashes(a), x)
<1>1. filter_hashes(<<>>) = <<>>
  <2>1. <<>> \in Seq(Texts) /\ Len(<<>>) = 0
    OBVIOUS
  <2>2. QED
    BY <2>1, FilterRow DEF PartialFilters
<1>2. ASSUME NEW a \in Seq(Texts) PROVE filter_hashes(a) \in Seq(KeyHashes)
  <2>1. Len(a) \in 0 .. Len(a)
    BY LenProperties
  <2>2. QED
    BY <2>1, FilterRow, Zenon DEF PartialFilters
<1>3. ASSUME NEW a \in Seq(Texts), NEW x \in Texts
      PROVE  filter_hashes(Append(a, x)) = Tracked(filter_hashes(a), x)
  <2> DEFINE t == Append(a, x)
             n == Len(a)
  <2>1. /\ t \in Seq(Texts) /\ n \in Nat /\ Len(t) = n + 1
        /\ t[n + 1] = x /\ \A i \in 1 .. n : t[i] = a[i]
    BY LenProperties, AppendProperties
  <2> HIDE DEF t, n
  <2>2. PICK v : PartialFilters(v, a, n) /\ filter_hashes(a) = v[n]
    BY FilterRow DEF n
  <2>3. PICK w : PartialFilters(w, t, n + 1) /\ filter_hashes(t) = w[n + 1]
    BY <2>1, FilterRow
  <2>4. \A i \in 1 .. n : a[i] = t[i]
    BY <2>1
  <2>5. v[n] = w[n]
    <3>1. n \in Nat
      BY <2>1
    <3>2. QED
      BY <2>2, <2>3, <2>4, <3>1, FiltersAgree
  <2>6. n + 1 \in 1 .. n + 1 /\ (n + 1) - 1 = n
    BY <2>1
  <2>7. w[n + 1] = Tracked(w[n], t[n + 1])
    BY <2>3, <2>6, Zenon DEF PartialFilters
  <2>8. QED
    BY <2>1, <2>2, <2>3, <2>5, <2>7, Zenon DEF t
<1>4. QED
  BY <1>1, <1>2, <1>3

\* What appending adds to the elements of a sequence.
LEMMA RangeAppend ==
    ASSUME NEW S, NEW s \in Seq(S), NEW x \in S
    PROVE  Range(Append(s, x)) = Range(s) \cup {x}
<1> DEFINE t == Append(s, x)
           n == Len(s)
<1>1. /\ n \in Nat /\ DOMAIN s = 1 .. n /\ DOMAIN t = 1 .. n + 1
      /\ t[n + 1] = x /\ \A i \in 1 .. n : t[i] = s[i]
  BY AppendProperties, LenProperties
<1> HIDE DEF t, n
<1>2. 1 .. n + 1 = (1 .. n) \cup {n + 1}
  BY <1>1
<1>3. \A y : (\E i \in DOMAIN t : t[i] = y) <=> (\E i \in DOMAIN s : s[i] = y) \/ y = x
  BY <1>1, <1>2, Zenon
<1>4. \A y : y \in Range(t) <=> y \in Range(s) \/ y = x
  BY <1>3, Zenon DEF Range
<1>5. QED
  BY <1>4 DEF t

---------------------------------------------------------------------------
\* The specification.

\* The hashes asked for are those of the arguments so far, and then of the filter.
TrackingInv ==
    /\ phase \in {"idle", "tracking", "received"}
    /\ payees \subseteq Outputs
    /\ phase = "idle" => addresses \in Seq(Texts) /\ Range(filter_hashes(addresses)) = Wanted
    /\ phase # "idle" => filter \in Seq(KeyHashes) /\ Range(filter) = Wanted
    /\ phase = "received" =>
           /\ \A i \in DOMAIN outputs : outputs[i] \in Outputs
           /\ logged = matches_filter([i \in DOMAIN outputs |-> Script(outputs[i])], filter)

\* The tracking invariant holds at the start.
LEMMA TrackingStarts == Untracked => TrackingInv
<1> SUFFICES ASSUME Untracked PROVE TrackingInv
  OBVIOUS
<1>1. addresses = <<>> /\ payees = {} /\ phase = "idle"
  BY DEF Untracked
<1>2. Wanted = {}
  BY <1>1 DEF Wanted
<1>3. <<>> \in Seq(Texts) /\ Range(<<>>) = {}
  BY DEF Range
<1>4. filter_hashes(addresses) = <<>>
  BY <1>1, FilterSteps, Zenon
<1>5. addresses \in Seq(Texts) /\ Range(filter_hashes(addresses)) = Wanted
  BY <1>1, <1>2, <1>3, <1>4, Zenon
<1>6. QED
  BY <1>1, <1>5 DEF TrackingInv

\* And every step keeps it.
LEMMA TrackingKept == TrackingInv /\ [TrackingNext]_tracking => TrackingInv'
<1> SUFFICES ASSUME TrackingInv, [TrackingNext]_tracking PROVE TrackingInv'
  OBVIOUS
<1>0. payees \subseteq Outputs
  BY DEF TrackingInv
<1>1. CASE GiveShown
  <2>1. /\ phase = "idle" /\ phase' = "idle"
        /\ addresses \in Seq(Texts) /\ Range(filter_hashes(addresses)) = Wanted
    BY <1>1 DEF GiveShown, TrackingInv
  <2>2. PICK out \in Outputs, sum \in Sums :
            /\ addresses' = Append(addresses, pk_script_to_address(Script(out), sum))
            /\ payees' = payees \cup {out}
    BY <1>1 DEF GiveShown
  <2> DEFINE text == pk_script_to_address(Script(out), sum)
             had == filter_hashes(addresses)
             h == out.hash
  <2>3. text \in Texts
    BY DEF Texts
  <2>4. h \in KeyHashes
    BY ScriptFrames
  <2>5. Tracked(had, text) = IF out.form = "p2wpkh" THEN had ELSE Append(had, h)
    BY TextTracked
  <2>6. Wanted' = IF out.form = "p2wpkh" THEN Wanted ELSE Wanted \cup {h}
    <3>1. \A y : y \in Wanted' <=> \E p \in payees \cup {out} : p.form # "p2wpkh" /\ y = p.hash
      <4>1. \A y : y \in Wanted' <=> \E p \in payees' : p.form # "p2wpkh" /\ y = p.hash
        BY DEF Wanted
      <4>2. payees' = payees \cup {out}
        BY <2>2
      <4>3. QED
        BY <4>1, <4>2, Zenon
    <3>2. \A y : y \in Wanted <=> \E p \in payees : p.form # "p2wpkh" /\ y = p.hash
      BY DEF Wanted
    <3>3. \A y : y \in Wanted' <=> y \in Wanted \/ (out.form # "p2wpkh" /\ y = h)
      <4>1. \A p : p \in payees \cup {out} <=> p \in payees \/ p = out
        OBVIOUS
      <4>2. QED
        BY <3>1, <3>2, <4>1, Zenon
    <3> HIDE DEF h
    <3>4. QED
      BY <3>3
  <2> HIDE DEF text, had, h
  <2>7. /\ addresses' \in Seq(Texts) /\ filter_hashes(addresses') = Tracked(had, text)
        /\ had \in Seq(KeyHashes)
    <3>1. addresses' = Append(addresses, text)
      BY <2>2 DEF text
    <3>2. Append(addresses, text) \in Seq(Texts)
      BY <2>1, <2>3, AppendProperties
    <3>3. QED
      BY <2>1, <2>3, <3>1, <3>2, FilterSteps, Zenon DEF had
  <2>8. Range(Append(had, h)) = Range(had) \cup {h}
    BY <2>4, <2>7, RangeAppend
  <2>9. Range(had) = Wanted
    BY <2>1 DEF had
  <2>10. Range(filter_hashes(addresses')) = Wanted'
    BY <2>5, <2>6, <2>7, <2>8, <2>9, Zenon
  <2>11. payees' \subseteq Outputs
    BY <1>0, <2>2
  <2>12. QED
    BY <2>1, <2>7, <2>10, <2>11 DEF TrackingInv
<1>2. CASE GiveMistake
  <2>1. /\ phase = "idle" /\ phase' = "idle" /\ payees' = payees
        /\ addresses \in Seq(Texts) /\ Range(filter_hashes(addresses)) = Wanted
    BY <1>2 DEF GiveMistake, TrackingInv
  <2>2. PICK m \in Mistakes : addresses' = Append(addresses, m)
    BY <1>2 DEF GiveMistake
  <2>3. m \in Texts
    BY DEF Texts
  <2>4. addresses' \in Seq(Texts)
    BY <2>1, <2>2, <2>3, AppendProperties
  <2>5. filter_hashes(addresses') = filter_hashes(addresses)
    <3>1. filter_hashes(Append(addresses, m)) = Tracked(filter_hashes(addresses), m)
      BY <2>1, <2>3, FilterSteps, Zenon
    <3>2. QED
      BY <2>2, <3>1, TextsTracked, Zenon
  <2>6. Wanted' = Wanted
    BY <2>1 DEF Wanted
  <2>7. Range(filter_hashes(addresses')) = Wanted'
    BY <2>1, <2>5, <2>6, Zenon
  <2>8. QED
    BY <1>0, <2>1, <2>4, <2>7 DEF TrackingInv
<1>3. CASE Start
  <2>1. /\ phase = "idle" /\ phase' = "tracking" /\ payees' = payees
        /\ filter' = filter_hashes(addresses)
        /\ addresses \in Seq(Texts) /\ Range(filter_hashes(addresses)) = Wanted
    BY <1>3 DEF Start, TrackingInv
  <2>2. Wanted' = Wanted
    BY <2>1 DEF Wanted
  <2>3. filter' \in Seq(KeyHashes) /\ Range(filter') = Wanted'
    BY <2>1, <2>2, FilterSteps, Zenon
  <2>4. QED
    BY <1>0, <2>1, <2>3 DEF TrackingInv
<1>4. CASE Receive
  <2>1. /\ phase = "tracking" /\ phase' = "received" /\ payees' = payees
        /\ filter' = filter
        /\ outputs' \in {<<a>> : a \in Outputs} \cup {<<a, b>> : a, b \in Outputs}
        /\ logged' = matches_filter([i \in DOMAIN outputs' |-> Script(outputs'[i])], filter)
    BY <1>4 DEF Receive
  <2>2. filter \in Seq(KeyHashes) /\ Range(filter) = Wanted
    BY <2>1 DEF TrackingInv
  <2>3. \A i \in DOMAIN outputs' : outputs'[i] \in Outputs
    BY <2>1
  <2>4. Wanted' = Wanted
    BY <2>1 DEF Wanted
  <2>5. filter' \in Seq(KeyHashes) /\ Range(filter') = Wanted'
    BY <2>1, <2>2, <2>4, Zenon
  <2>6. QED
    BY <1>0, <2>1, <2>3, <2>5 DEF TrackingInv
<1>5. CASE UNCHANGED tracking
  <2>1. /\ addresses' = addresses /\ payees' = payees /\ filter' = filter
        /\ outputs' = outputs /\ logged' = logged /\ phase' = phase
    BY <1>5 DEF tracking
  <2>2. Wanted' = Wanted
    BY <2>1 DEF Wanted
  <2>3. QED
    BY <2>1, <2>2, Zenon DEF TrackingInv
<1>6. QED
  BY <1>1, <1>2, <1>3, <1>4, <1>5 DEF TrackingNext

\* matches_filter looks for every hash in every script, and takes everything
\* when there is none.
LEMMA MatchesWanted ==
    ASSUME NEW scripts, NEW S, NEW hashes \in Seq(S)
    PROVE  /\ Range(hashes) = {} => hashes = <<>> /\ matches_filter(scripts, hashes)
           /\ Range(hashes) # {} =>
                  (matches_filter(scripts, hashes) <=>
                       \E i \in DOMAIN scripts, h \in Range(hashes) : Contains20(scripts[i], h))
<1>1. hashes = <<>> <=> Range(hashes) = {}
  <2>1. hashes = <<>> <=> DOMAIN hashes = {}
    OBVIOUS
  <2>2. Range(hashes) = {} <=> DOMAIN hashes = {}
    BY DEF Range
  <2>3. QED
    BY <2>1, <2>2
<1>2. Range(hashes) = {} => matches_filter(scripts, hashes)
  BY <1>1, Zenon DEF matches_filter
<1>3. ASSUME Range(hashes) # {}
      PROVE  matches_filter(scripts, hashes) <=>
                 \E i \in DOMAIN scripts, h \in Range(hashes) : Contains20(scripts[i], h)
  <2>1. matches_filter(scripts, hashes) <=>
            \E i \in DOMAIN scripts, j \in DOMAIN hashes : Contains20(scripts[i], hashes[j])
    BY <1>1, <1>3, Zenon DEF matches_filter
  <2>2. /\ \A j \in DOMAIN hashes : hashes[j] \in Range(hashes)
        /\ \A h \in Range(hashes) : \E j \in DOMAIN hashes : h = hashes[j]
    BY Zenon DEF Range
  <2>3. QED
    BY <2>1, <2>2, Zenon
<1>4. QED
  BY <1>1, <1>2, <1>3, Zenon

\* Addresses, tracked (pk_script_to_address, decode_base58, filter_hashes,
\* matches_filter): for all hashes and checksums, any number of addresses and
\* any texts that are none between them, every transaction that pays to one of
\* the hashes is logged, and none whose scripts hold none of them.
THEOREM ShownIsTracked == TrackingSpec => []ShownAddressIsTracked
<1>1. TrackingInv => ShownAddressIsTracked
  <2> SUFFICES ASSUME TrackingInv, phase = "received"
               PROVE  IF Wanted = {} THEN filter = <<>> /\ logged
                      ELSE /\ (\E i \in DOMAIN outputs : outputs[i].hash \in Wanted) => logged
                           /\ logged => \E i \in DOMAIN outputs, h \in Wanted :
                                            Contains20(Script(outputs[i]), h)
    BY DEF ShownAddressIsTracked
  <2> DEFINE scripts == [i \in DOMAIN outputs |-> Script(outputs[i])]
  <2>1. /\ filter \in Seq(KeyHashes) /\ Range(filter) = Wanted
        /\ logged = matches_filter(scripts, filter)
        /\ \A i \in DOMAIN outputs : outputs[i] \in Outputs
    BY DEF TrackingInv
  <2>2. DOMAIN scripts = DOMAIN outputs /\ \A i \in DOMAIN outputs : scripts[i] = Script(outputs[i])
    OBVIOUS
  <2> HIDE DEF scripts
  <2>3. /\ Wanted = {} => filter = <<>> /\ logged
        /\ Wanted # {} =>
               (logged <=> \E i \in DOMAIN scripts, h \in Wanted : Contains20(scripts[i], h))
    BY <2>1, MatchesWanted, Zenon
  <2>4. (\E i \in DOMAIN scripts, h \in Wanted : Contains20(scripts[i], h))
            <=> \E i \in DOMAIN outputs, h \in Wanted : Contains20(Script(outputs[i]), h)
    BY <2>2, Zenon
  <2>5. (\E i \in DOMAIN outputs : outputs[i].hash \in Wanted)
            => \E i \in DOMAIN outputs, h \in Wanted : Contains20(Script(outputs[i]), h)
    BY <2>1, ScriptHolds, Zenon
  <2>6. QED
    BY <2>3, <2>4, <2>5, Zenon
<1>2. QED
  BY <1>1, TrackingStarts, TrackingKept, PTL DEF TrackingSpec
====
