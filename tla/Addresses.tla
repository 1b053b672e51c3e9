---- MODULE Addresses ----
(***************************************************************************)
(* Addresses and the client-side filter: the Base58 codec and                *)
(* pk_script_to_address of primitives/src/codec.rs, the --address arguments  *)
(* of node/src/main.rs and matches_filter of node/src/protocol.rs.           *)
(*                                                                          *)
(* A user reads addresses of outputs on the dashboard, starts the node again *)
(* with as many of them as they like, and watches which transactions are     *)
(* logged.                                                                   *)
(*                                                                          *)
(* Bytes are numbers; the characters of a text are their places in the       *)
(* Base58 alphabet, and Foreign is any character that has none.              *)
(***************************************************************************)
EXTENDS Integers, SequencesExt

CONSTANTS
    KeyHashes,  \* the 20-byte hashes in scripts
    Sums,       \* values of the four bytes that end an address
    Mistakes,   \* texts that are no Base58 address but are given as one
    MaxArguments \* bound: so many --address arguments

Octet == 0 .. 255
Foreign == 58

---------------------------------------------------------------------------
\* Base58.

\* How many elements at the start are 0: zero bytes, or the character 1.
Zeros(s) == CHOOSE n \in 0 .. Len(s) : /\ \A i \in 1 .. n : s[i] = 0
                                       /\ n < Len(s) => s[n + 1] # 0

Strip(s) == SubSeq(s, Zeros(s) + 1, Len(s))

Repeat(x, n) == [i \in 1 .. n |-> x]

\* One round of the long division by 58, byte by byte.
DivideByte(a, byte) ==
    LET acc == 256 * a.rem + byte
        quo == acc \div 58
    IN  [rem |-> acc % 58,
         quo |-> IF a.quo = <<>> /\ quo = 0 THEN <<>> ELSE Append(a.quo, quo)]

Divide(bytes) ==
    LET after[i \in 0 .. Len(bytes)] ==
            IF i = 0 THEN [rem |-> 0, quo |-> <<>>] ELSE DivideByte(after[i - 1], bytes[i])
    IN  after[Len(bytes)]

\* The rounds, until the payload is empty.  Bound: two rounds take away a byte.
Round(a) ==
    IF a.payload = <<>> THEN a
    ELSE LET d == Divide(a.payload)
         IN  [payload |-> d.quo, digits |-> <<d.rem>> \o a.digits]

Digits(bytes) ==
    LET after[i \in 0 .. 2 * Len(bytes)] ==
            IF i = 0 THEN [payload |-> bytes, digits |-> <<>>] ELSE Round(after[i - 1])
    IN  after[2 * Len(bytes)].digits

\* A payload of zeros alone is divided once too: it gets one digit more.
encode_base58(data) == Repeat(0, Zeros(data)) \o Digits(data)

\* times 58 plus val, from the last byte of the buffer to the first; a carry
\* out of it is lost.
MulByte(a, byte) ==
    LET num == byte * 58 + a.val
    IN  [val |-> num \div 256, out |-> <<num % 256>> \o a.out]

MulAdd(buffer, val) ==
    LET after[i \in 0 .. Len(buffer)] ==
            IF i = 0 THEN [val |-> val, out |-> <<>>]
            ELSE MulByte(after[i - 1], buffer[Len(buffer) + 1 - i])
    IN  after[Len(buffer)].out

\* Mutant: no byte for the part that the division rounds off.
BufferLenFloor(text) == (Len(text) * 733) \div 1000

BufferLen(text) == (Len(text) * 733) \div 1000 + 1

Decodable(text) == Foreign \notin Range(text)

Decoded(digits, size) ==
    LET after[i \in 0 .. Len(digits)] ==
            IF i = 0 THEN Repeat(0, size) ELSE MulAdd(after[i - 1], digits[i])
    IN  after[Len(digits)]

decode_base58(text) ==
    Repeat(0, Zeros(text)) \o Strip(Decoded(Strip(text), BufferLen(text)))

---------------------------------------------------------------------------
\* Locking scripts and their addresses.

Forms == {"p2pkh", "p2sh", "p2wpkh"}

\* An output as its payer (external) means it, and its script.
Script(out) ==
    CASE out.form = "p2pkh"  -> <<118, 169, 20>> \o out.hash \o <<136, 172>>
      [] out.form = "p2sh"   -> <<169, 20>> \o out.hash \o <<135>>
      [] out.form = "p2wpkh" -> <<0, 20>> \o out.hash

Begins(s, prefix) == IsPrefix(prefix, s)

encode_base58check(version, payload, sum) == encode_base58(<<version>> \o payload \o sum)

\* The text shown for a script, sum being the checksum of what is encoded.
\* A P2WPKH script has no Base58 address: it is shown as bc1_p2wpkh_ and hex
\* digits, of which the first characters stand here for all.
pk_script_to_address(s, sum) ==
    CASE Len(s) = 25 /\ Begins(s, <<118, 169, 20>>) /\ SubSeq(s, 24, 25) = <<136, 172>> ->
             encode_base58check(0, SubSeq(s, 4, 23), sum)
      [] Len(s) = 23 /\ Begins(s, <<169, 20>>) /\ s[23] = 135 ->
             encode_base58check(5, SubSeq(s, 3, 22), sum)
      [] Len(s) = 22 /\ Begins(s, <<0, 20>>) -> <<34, 35, 0, Foreign>>

---------------------------------------------------------------------------
\* The filter.

\* The arguments that are used: those that decode to 25 bytes or more.
UsableText(text) == Decodable(text) /\ Len(decode_base58(text)) >= 25

\* The checksum is not verified; the hash is what follows the version byte.
Tracked(hashes, text) ==
    IF UsableText(text) THEN Append(hashes, SubSeq(decode_base58(text), 2, 21)) ELSE hashes

filter_hashes(addresses) ==
    LET after[i \in 0 .. Len(addresses)] ==
            IF i = 0 THEN <<>> ELSE Tracked(after[i - 1], addresses[i])
    IN  after[Len(addresses)]

Contains20(s, h) == \E i \in 0 .. Len(s) - Len(h) : SubSeq(s, i + 1, i + Len(h)) = h

\* For a transaction, given by the scripts of its outputs.
matches_filter(scripts, hashes) ==
    hashes = <<>> \/ \E i \in DOMAIN scripts, j \in DOMAIN hashes : Contains20(scripts[i], hashes[j])

ASSUME AddressAssumption ==
    /\ KeyHashes \subseteq [1 .. 20 -> Octet]
    /\ Sums \subseteq [1 .. 4 -> Octet]
    /\ \A m \in Mistakes : ~UsableText(m)
    /\ MaxArguments \in Nat

---------------------------------------------------------------------------
VARIABLES
    addresses, \* the --address arguments, as far as they are typed
    payees,    \* the outputs whose addresses are among them
    filter,    \* the filter hashes of this start
    outputs,   \* of the transaction received
    logged,    \* was it logged?
    phase      \* "idle", "tracking" or "received"

tracking == <<addresses, payees, filter, outputs, logged, phase>>

Outputs == [form : Forms, hash : KeyHashes]

Untracked ==
    /\ addresses = <<>> /\ payees = {} /\ filter = <<>> /\ outputs = <<>>
    /\ logged = FALSE /\ phase = "idle"

\* One more argument: an address the node has displayed.  Its checksum may be
\* any of Sums, whatever the rest is: the right one, or one mistyped.
GiveShown ==
    /\ phase = "idle" /\ Len(addresses) < MaxArguments
    /\ \E out \in Outputs, sum \in Sums :
           /\ addresses' = Append(addresses, pk_script_to_address(Script(out), sum))
           /\ payees' = payees \cup {out}
    /\ UNCHANGED <<filter, outputs, logged, phase>>

\* Or a text that is none.
GiveMistake ==
    /\ phase = "idle" /\ Len(addresses) < MaxArguments
    /\ \E m \in Mistakes : addresses' = Append(addresses, m)
    /\ UNCHANGED <<payees, filter, outputs, logged, phase>>

\* The arguments themselves are not used again.
Start ==
    /\ phase = "idle"
    /\ filter' = filter_hashes(addresses)
    /\ addresses' = <<>>
    /\ phase' = "tracking"
    /\ UNCHANGED <<payees, outputs, logged>>

\* Each transaction is judged by itself, so one is enough.
Receive ==
    /\ phase = "tracking"
    /\ outputs' \in {<<a>> : a \in Outputs} \cup {<<a, b>> : a, b \in Outputs}
    /\ logged' = matches_filter([i \in DOMAIN outputs' |-> Script(outputs'[i])], filter)
    /\ phase' = "received"
    /\ UNCHANGED <<addresses, payees, filter>>

TrackingNext == GiveShown \/ GiveMistake \/ Start \/ Receive

TrackingSpec == Untracked /\ [][TrackingNext]_tracking

\* The hashes the user has asked for.  A P2WPKH output has no Base58 address:
\* the text displayed for it asks for nothing.
Wanted == {out.hash : out \in {p \in payees : p.form # "p2wpkh"}}

\* The addresses the node has displayed can be tracked, any number of them, in
\* any order, with any checksum, and between texts that are no addresses:
\* every transaction with an output to one of their hashes is logged, and none
\* whose scripts hold none of them.  When no argument is usable the filter is
\* off and everything is logged: so for the text displayed for a P2WPKH output
\* alone.  (The node also takes texts of more than 25 bytes, and other version
\* bytes than the two it displays: these are not given here.)
ShownAddressIsTracked ==
    phase = "received" =>
        IF Wanted = {} THEN filter = <<>> /\ logged
        ELSE /\ (\E i \in DOMAIN outputs : outputs[i].hash \in Wanted) => logged
             /\ logged => \E i \in DOMAIN outputs, h \in Wanted :
                              Contains20(Script(outputs[i]), h)
====
