---- MODULE ScriptEngine ----
(***************************************************************************)
(* The script engine (script-engine/src/lib.rs): parse_script, and the       *)
(* stack machine of ExecutionContext::execute and OpCode::execute.  As in    *)
(* vm_tests, a caller executes an unlocking script and then a locking script *)
(* in one context, each after it has parsed it.                              *)
(*                                                                          *)
(* Bytes are numbers.  An instruction is [op |-> b] or [push |-> bytes]: the *)
(* enum has one variant per byte b that is not a push, so a variant is       *)
(* named by its byte.  Scripts are written by the environment as sequences   *)
(* of chunks, and may have lost their last bytes.                           *)
(***************************************************************************)
EXTENDS Integers, Sequences, SequencesExt

CONSTANTS
    Unlocks,          \* the unlocking scripts, as sequences of chunks
    Locks,            \* the locking scripts
    MaxCut,           \* bound: bytes missing at the end of a script
    Hash160(_),       \* RIPEMD-160 of SHA-256
    Verifies(_, _, _) \* does this key verify this signature, with this hash
                      \* type, over the context's transaction and script code?

Invalid == 255        \* OpInvalidOpcode, 0xff
True == <<1>>
False == <<>>
Byte == 0 .. 255

IsPush(b) == b \in 1 .. 78

---------------------------------------------------------------------------
\* What the environment writes (external).  A chunk is [op |-> b] for a byte
\* that is not a push, or [form |-> f, push |-> data], where the length is in
\* the opcode (form 1) or in the 1, 2 or 4 bytes after it (2, 3 and 5).

Chunk == [op : {b \in Byte : ~IsPush(b)}] \cup [form : {1, 2, 3, 5}, push : Seq(Byte)]

\* What the length field of each form can say; form 5 has room for more.
MaxData == 256 * 256 - 1   \* bound: bytes of one push

LenFits(c) ==
    "form" \in DOMAIN c =>
        Len(c.push) \in IF c.form = 1 THEN 1 .. 75
                        ELSE IF c.form = 2 THEN 0 .. 255 ELSE 0 .. MaxData

ASSUME ScriptAssumption ==
    /\ MaxCut \in Nat
    /\ Unlocks \cup Locks \subseteq Seq(Chunk)
    /\ \A cs \in Unlocks \cup Locks : \A j \in DOMAIN cs : LenFits(cs[j])

Bytes(c) ==
    IF "op" \in DOMAIN c THEN <<c.op>>
    ELSE LET len == Len(c.push)
             low == len % 256
             high == len \div 256
         IN  CASE c.form = 1 -> <<len>> \o c.push
               [] c.form = 2 -> <<76, len>> \o c.push
               [] c.form = 3 -> <<77, low, high>> \o c.push
               [] c.form = 5 -> <<78, low, high, 0, 0>> \o c.push

Written(cs) == FlattenSeq([k \in DOMAIN cs |-> Bytes(cs[k])])

\* The bytes of cs without the last n, which are part of its last chunk.
Truncated(cs, n) == LET b == Written(cs) IN SubSeq(b, 1, Len(b) - n)

Cuts(cs) == IF cs = <<>> THEN {0}
            ELSE {n \in 0 .. MaxCut : n < Len(Bytes(cs[Len(cs)]))}

VARIABLES
    chunks,        \* the two scripts as written
    cut,           \* how many bytes each has lost
    pc,            \* "parse", "execute", "ok" or "err"
    script,        \* the bytes parse_script is given
    i,             \* its position, here from 1
    instructions,  \* what it has pushed so far, then what execute is given
    k,             \* the instruction to execute next
    stack,         \* the main stack, its top last
    turn,          \* 1 while the unlocking script is at work, then 2
    unlocked       \* history: the stack the unlocking script left

input == <<chunks, cut>>
vars  == <<input, pc, script, i, instructions, k, stack, turn, unlocked>>

Init ==
    /\ chunks \in Unlocks \X Locks
    /\ cut \in Cuts(chunks[1]) \X Cuts(chunks[2])
    /\ pc = "parse" /\ turn = 1
    /\ script = Truncated(chunks[1], cut[1])
    /\ i = 1 /\ instructions = <<>> /\ k = 1
    /\ stack = <<>> /\ unlocked = <<>>

---------------------------------------------------------------------------
\* parse_script, one turn of its loop per step.

\* The bytes before the data: the opcode and its length field.
HeadLen(b) == CASE b = 76 -> 2 [] b = 77 -> 3 [] b = 78 -> 5 [] OTHER -> 1

\* Mutant: the two bytes are added up as if the first were the high one.
BigEndianLen(s, p) ==
    CASE s[p] = 76 -> s[p + 1]
      [] s[p] = 77 -> s[p + 2] + 256 * s[p + 1]
      [] s[p] = 78 -> s[p + 1] + 256 * s[p + 2]
      [] OTHER     -> s[p]

\* The length of the data, little-endian.
DataLen(s, p) ==
    CASE s[p] = 76 -> s[p + 1]
      [] s[p] = 77 -> s[p + 1] + 256 * s[p + 2]
      [] s[p] = 78 -> s[p + 1] + 256 * (s[p + 2] + 256 * (s[p + 3] + 256 * s[p + 4]))
      [] OTHER     -> s[p]

\* The length field is there, and so is all of the data.
PushFits(s, p) ==
    /\ p + HeadLen(s[p]) - 1 <= Len(s)
    /\ p + HeadLen(s[p]) + DataLen(s, p) - 1 <= Len(s)

Parsing == pc = "parse" /\ i <= Len(script)

ParseOp ==
    /\ Parsing /\ ~IsPush(script[i])
    /\ instructions' = Append(instructions, [op |-> script[i]])
    /\ i' = i + 1
    /\ UNCHANGED <<input, pc, script, k, stack, turn, unlocked>>

\* Mutant: the position moves past one byte too many.
ParsePushSkips ==
    /\ Parsing /\ IsPush(script[i]) /\ PushFits(script, i)
    /\ LET first == i + HeadLen(script[i])
           next  == first + DataLen(script, i)
       IN  /\ instructions' = Append(instructions, [push |-> SubSeq(script, first, next - 1)])
           /\ i' = next + 1
    /\ UNCHANGED <<input, pc, script, k, stack, turn, unlocked>>

ParsePush ==
    /\ Parsing /\ IsPush(script[i]) /\ PushFits(script, i)
    /\ LET first == i + HeadLen(script[i])
           next  == first + DataLen(script, i)
       IN  /\ instructions' = Append(instructions, [push |-> SubSeq(script, first, next - 1)])
           /\ i' = next
    /\ UNCHANGED <<input, pc, script, k, stack, turn, unlocked>>

\* Mutant: a push that does not fit ends the script silently.
ParseTruncatedSilent ==
    /\ Parsing /\ IsPush(script[i]) /\ ~PushFits(script, i)
    /\ pc' = "execute" /\ k' = 1
    /\ UNCHANGED <<input, script, i, instructions, stack, turn, unlocked>>

\* A push that does not fit is an invalid opcode, and the last instruction.
ParseTruncated ==
    /\ Parsing /\ IsPush(script[i]) /\ ~PushFits(script, i)
    /\ instructions' = Append(instructions, [op |-> Invalid])
    /\ pc' = "execute" /\ k' = 1
    /\ UNCHANGED <<input, script, i, stack, turn, unlocked>>

ParseEnds ==
    /\ pc = "parse" /\ i > Len(script)
    /\ pc' = "execute" /\ k' = 1
    /\ UNCHANGED <<input, script, i, instructions, stack, turn, unlocked>>

---------------------------------------------------------------------------
\* execute, one instruction per step.

Top(n)  == stack[Len(stack) + 1 - n]             \* Top(1) is the top
Below(n) == SubSeq(stack, 1, Len(stack) - n)     \* the stack without n items

Executing == pc = "execute" /\ k <= Len(instructions)

Runs(b) == Executing /\ instructions[k] = [op |-> b]

Then(s) ==
    /\ stack' = s
    /\ k' = k + 1
    /\ UNCHANGED <<input, pc, script, i, instructions, turn, unlocked>>

PushData ==
    /\ Executing /\ "push" \in DOMAIN instructions[k]
    /\ Then(Append(stack, instructions[k].push))

\* Op0, Op1Negate and OpPushNum.
Constant(b) == CASE b = 0 -> <<>> [] b = 79 -> <<129>> [] b \in 81 .. 96 -> <<b - 80>>

ConstantOps == {0, 79} \cup 81 .. 96

OpConstant ==
    \E b \in ConstantOps : Runs(b) /\ Then(Append(stack, Constant(b)))

OpDup == Runs(118) /\ Len(stack) >= 1 /\ Then(Append(stack, Top(1)))

OpHash160 == Runs(169) /\ Len(stack) >= 1 /\ Then(Append(Below(1), Hash160(Top(1))))

OpEqual ==
    /\ Runs(135) /\ Len(stack) >= 2
    /\ Then(Append(Below(2), IF Top(1) = Top(2) THEN True ELSE False))

\* Mutant: the items are dropped and not compared.
OpEqualVerifyDrops == Runs(136) /\ Len(stack) >= 2 /\ Then(Below(2))

OpEqualVerify == Runs(136) /\ Len(stack) >= 2 /\ Top(1) = Top(2) /\ Then(Below(2))

\* The key is on top, the signature below it; the signature's last byte is
\* the hash type.  A signature that is empty, malformed or wrong is False.
SignatureIsGood(pubkey, sig) ==
    sig # <<>> /\ Verifies(pubkey, Front(sig), Last(sig))

OpCheckSig ==
    /\ Runs(172) /\ Len(stack) >= 2
    /\ Then(Append(Below(2), IF SignatureIsGood(Top(1), Top(2)) THEN True ELSE False))

\* The opcodes that OpCode::execute knows, with the items each needs.
Needs == [b \in ConstantOps \cup {118, 169, 135, 136, 172} |->
             CASE b \in ConstantOps -> 0 [] b \in {118, 169} -> 1 [] OTHER -> 2]

\* An opcode that is not implemented, an item that is not there, or a failed
\* verify ends the evaluation.  OP_EQUALVERIFY has popped its items by then.
Fails ==
    /\ Executing /\ "op" \in DOMAIN instructions[k]
    /\ LET b == instructions[k].op IN
           \/ b \notin DOMAIN Needs /\ stack' = stack
           \/ b \in DOMAIN Needs /\ Len(stack) < Needs[b] /\ stack' = stack
           \/ b = 136 /\ Len(stack) >= 2 /\ Top(1) # Top(2) /\ stack' = Below(2)
    /\ pc' = "err"
    /\ UNCHANGED <<input, script, i, instructions, k, turn, unlocked>>

\* execute returns Ok, and the caller turns to the locking script.
UnlockEnds ==
    /\ pc = "execute" /\ turn = 1 /\ k > Len(instructions)
    /\ unlocked' = stack
    /\ turn' = 2
    /\ script' = Truncated(chunks[2], cut[2])
    /\ pc' = "parse" /\ i' = 1 /\ instructions' = <<>> /\ k' = 1
    /\ UNCHANGED <<input, stack>>

LockEnds ==
    /\ pc = "execute" /\ turn = 2 /\ k > Len(instructions)
    /\ pc' = "ok"
    /\ UNCHANGED <<input, script, i, instructions, k, stack, turn, unlocked>>

Parse == ParseOp \/ ParsePush \/ ParseTruncated \/ ParseEnds

Execute ==
    PushData \/ OpConstant \/ OpDup \/ OpHash160 \/ OpEqual \/ OpEqualVerify
    \/ OpCheckSig \/ Fails \/ UnlockEnds \/ LockEnds

Next == Parse \/ Execute

Spec == Init /\ [][Next]_vars

---------------------------------------------------------------------------
TypeOK ==
    /\ script \in Seq(Byte)
    /\ i \in 1 .. Len(script) + 1
    /\ pc \in {"parse", "execute", "ok", "err"}
    /\ k \in 1 .. Len(instructions) + 1
    /\ stack \in Seq(Seq(Byte))
    /\ turn \in {1, 2}

\* The parser reads back what was written, whichever of the four forms each
\* push has: the same instructions, so that no byte of data is ever taken for
\* an opcode; and of a script that has lost bytes, the instructions that are
\* whole and one invalid opcode.
AsInstruction(c) == IF "op" \in DOMAIN c THEN [op |-> c.op] ELSE [push |-> c.push]

ParsedAsWritten ==
    pc # "parse" =>
        LET all == [j \in DOMAIN chunks[turn] |-> AsInstruction(chunks[turn][j])]
        IN  instructions = IF cut[turn] = 0 THEN all
                           ELSE Append(Front(all), [op |-> Invalid])

\* No evaluation in which a script has lost bytes succeeds.
TruncatedNeverSucceeds == pc = "ok" => cut = <<0, 0>>

\* P2PKH with the hash h: OP_DUP OP_HASH160 h OP_EQUALVERIFY OP_CHECKSIG.
IsP2PKH(cs, h) ==
    [j \in DOMAIN cs |-> AsInstruction(cs[j])] =
        <<[op |-> 118], [op |-> 169], [push |-> h], [op |-> 136], [op |-> 172]>>

\* A P2PKH output is unlocked exactly by a key with its hash and a signature
\* of that key: whatever the unlocking script left on the stack, the locking
\* script succeeds exactly when the top item is such a key, takes that item
\* and the one below, and leaves True for them exactly when the lower one is
\* a good signature.
P2PKHOutcome ==
    \A j \in DOMAIN chunks[2] :
        LET h == chunks[2][j].push IN
        ("push" \in DOMAIN chunks[2][j] /\ IsP2PKH(chunks[2], h)
             /\ turn = 2 /\ cut[2] = 0) =>
            LET n == Len(unlocked) IN
            /\ pc = "ok" =>
                   /\ n >= 2 /\ Hash160(unlocked[n]) = h
                   /\ stack = Append(SubSeq(unlocked, 1, n - 2),
                          IF SignatureIsGood(unlocked[n], unlocked[n - 1])
                          THEN True ELSE False)
            /\ pc = "err" => n < 2 \/ Hash160(unlocked[n]) # h

---------------------------------------------------------------------------
\* README: the engine enforces the clean stack rule.  The code leaves the
\* stack to its caller.
CleanStack == pc = "ok" => Len(stack) = 1
====
