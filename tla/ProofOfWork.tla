---- MODULE ProofOfWork ----
(***************************************************************************)
(* get_target_bytes and check_proof_of_work of primitives/src/messages.rs:   *)
(* the compact target of a header, and the comparison of its hash with it,   *)
(* byte by byte.  HeaderStore takes the outcome as a parameter.              *)
(***************************************************************************)
EXTENDS Integers, SequencesExt

CONSTANTS
    Base,   \* values of a byte: 256
    Width   \* bytes of a hash: 32

ASSUME WorkAssumption == Base \in Nat \ {0, 1} /\ Width \in Nat /\ Width > 3

Byte == 0 .. Base - 1

\* Hashes and targets, the least significant byte first.
Hashes == [1 .. Width -> Byte]

\* The field bits: an exponent, and a mantissa of three bytes.
Bits == [exponent : 0 .. Width + 1, mantissa : [1 .. 3 -> Byte]]

\* Mutant: the mantissa ends one byte too high.
TargetShifted(bits) ==
    [i \in 1 .. Width |->
        IF bits.exponent \in 3 .. Width /\ i \in bits.exponent - 1 .. bits.exponent
        THEN bits.mantissa[i - bits.exponent + 2] ELSE 0]

\* The mantissa stands in the bytes exponent - 3 to exponent - 1, counted from
\* 0, and is dropped if one of them is outside.
get_target_bytes(bits) ==
    [i \in 1 .. Width |->
        IF bits.exponent \in 3 .. Width /\ i \in bits.exponent - 2 .. bits.exponent
        THEN bits.mantissa[i - bits.exponent + 3] ELSE 0]

\* The order of iterators, from the most significant byte down.
AtMost(a, b) ==
    \/ a = b
    \/ \E i \in 1 .. Width : a[i] < b[i] /\ \A j \in i + 1 .. Width : a[j] = b[j]

check_proof_of_work(hash, bits) == AtMost(hash, get_target_bytes(bits))

---------------------------------------------------------------------------
VARIABLES hash, bits, judged, passed

work == <<hash, bits, judged, passed>>

Unjudged ==
    /\ hash = [i \in 1 .. Width |-> 0]
    /\ bits = [exponent |-> 0, mantissa |-> [i \in 1 .. 3 |-> 0]]
    /\ judged = FALSE /\ passed = FALSE

\* A header whose hash and target are anything.
Judge ==
    /\ ~judged
    /\ hash' \in Hashes /\ bits' \in Bits
    /\ passed' = check_proof_of_work(hash', bits')
    /\ judged' = TRUE

WorkSpec == Unjudged /\ [][Judge]_work

---------------------------------------------------------------------------
\* The number that n digits stand for, the last of them first.
NumberOf(digits, n) ==
    LET value[i \in 0 .. n] ==
            IF i = 0 THEN 0 ELSE Base * value[i - 1] + digits[n + 1 - i]
    IN  value[n]

Power(n) == LET power[i \in 0 .. n] == IF i = 0 THEN 1 ELSE Base * power[i - 1]
            IN  power[n]

\* A header passes only if its hash, as a number, is at most the mantissa
\* times Base^(exponent - 3), for every exponent; and it always passes then if
\* that target has its place in a hash.  A target that has none, at either
\* end, asks for the hash 0: too much work, never too little.
WorkIsNumeric ==
    judged =>
        LET h == NumberOf(hash, Width)
            m == NumberOf(bits.mantissa, 3)
            small == IF bits.exponent < 3
                     THEN h * Power(3 - bits.exponent) <= m
                     ELSE h <= m * Power(bits.exponent - 3)
        IN  /\ passed => small
            /\ bits.exponent \in 3 .. Width => (passed <=> small)
            /\ bits.exponent \notin 3 .. Width => (passed <=> h = 0)
====
