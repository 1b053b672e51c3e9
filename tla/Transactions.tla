---- MODULE Transactions ----
(***************************************************************************)
(* Transactions and what a signature commits to                              *)
(* (primitives/src/transaction.rs, and OP_CHECKSIG of the script engine).    *)
(*                                                                          *)
(* A wallet signs one input of a transaction; before the node sees it, the   *)
(* parts the hash type leaves open, or others, are changed; the engine then  *)
(* computes the hash again and compares.  Inputs are numbered from 1.        *)
(***************************************************************************)
EXTENDS Codec

CONSTANTS
    Drafts,      \* the transactions a wallet signs, [tx |-> t, code |-> script code]
    HashTypes,   \* the hash types it signs with
    MaxAmends    \* bound: changes after the signature

TxIn  == [hash : Int, index : Int, script_sig : Cells, sequence : Int]
TxOut == [value : Int, pk_script : Cells]
Tx    == [version : Int, tx_in : Seq(TxIn), tx_out : Seq(TxOut), lock_time : Int]

\* A script code is not empty: it holds the OP_CHECKSIG that asks for the hash.
ScriptCode == Cells \ {<<>>}

ASSUME SpendingAssumption ==
    /\ Drafts \subseteq [tx : Tx, code : ScriptCode]
    /\ HashTypes \subseteq 0 .. 255
    /\ MaxAmends \in Nat

\* SHA-256 twice, without collisions; One is the constant that is returned
\* where there is nothing to sign.
double_sha256(cells) == <<cells>>
One == <<>>

---------------------------------------------------------------------------
\* Reading and writing.

Outpoint == <<"hash", "index">>

ReadTxIn == [q \in Cells |->
                Fields(Counted(Fields(Reader(q), Outpoint), "script_sig"), <<"sequence">>)]

ReadTxOut == [q \in Cells |-> Counted(Fields(Reader(q), <<"value">>), "pk_script")]

ReadItem    == [q \in Cells |-> Counted(Reader(q), "witness_data")]
ReadWitness == [q \in Cells |-> Many(Reader(q), "witness", ReadItem)]

\* TxMessage::read.  A byte 0 where the count of inputs is expected is the
\* marker of a witness; the flag after it must be 1 for one to be read.
ReadTx(r) ==
    LET head    == Fields(r, <<"version">>)
        marked  == head.ok /\ head.rest # <<>> /\ head.rest[1] = 0
        flagged == IF marked THEN Fields(Fields(head, <<"marker">>), <<"flag">>)
                   ELSE Holding(head, With(head.read, "flag", 0))
        ins     == Many(flagged, "tx_in", ReadTxIn)
        outs    == Many(ins, "tx_out", ReadTxOut)
        wits    == IF outs.ok /\ outs.read.flag = 1
                   THEN Records(outs, "tx_witness", Len(outs.read.tx_in), ReadWitness)
                   ELSE Holding(outs, With(outs.read, "tx_witness", <<>>))
    IN  IF ins.ok /\ ins.read.tx_in # <<>> THEN Fields(wits, <<"lock_time">>)
        ELSE Failed(ins)

WriteTxIn(in)   == WriteFields(in, Outpoint) \o WriteCounted(in.script_sig) \o <<in.sequence>>
WriteTxOut(out) == <<out.value>> \o WriteCounted(out.pk_script)

encode_legacy(t) ==
    <<t.version>> \o WriteMany(t.tx_in, WriteTxIn) \o WriteMany(t.tx_out, WriteTxOut)
    \o <<t.lock_time>>

\* The form with witnesses, which only peers write (external).
WriteWitness(w) == WriteMany(w.witness, LAMBDA item : WriteCounted(item.witness_data))

EncodeSegwit(t) ==
    <<t.version, 0, 1>> \o WriteMany(t.tx_in, WriteTxIn) \o WriteMany(t.tx_out, WriteTxOut)
    \o FlattenSeq([i \in DOMAIN t.tx_in |-> WriteWitness(t.tx_witness[i])]) \o <<t.lock_time>>

---------------------------------------------------------------------------
\* signature_hash.

Kind(hash_type)         == hash_type % 32
AnyoneCanPay(hash_type) == (hash_type \div 128) % 2 = 1
NONE   == 2
SINGLE == 3

Blank == [value |-> -1, pk_script |-> <<>>]

\* Mutant: the other inputs' sequences are kept.
SignedInputsAll(t, i, code, hash_type) ==
    [j \in DOMAIN t.tx_in |->
        [t.tx_in[j] EXCEPT !.script_sig = IF j = i THEN code ELSE <<>>]]

\* The inputs as they are signed: no script but the one at i, and a sequence
\* only where it is committed to.
SignedInputs(t, i, code, hash_type) ==
    [j \in DOMAIN t.tx_in |->
        [t.tx_in[j] EXCEPT
            !.script_sig = IF j = i THEN code ELSE <<>>,
            !.sequence = IF j # i /\ Kind(hash_type) \in {NONE, SINGLE} THEN 0 ELSE @]]

SignedOutputs(t, i, hash_type) ==
    CASE Kind(hash_type) = NONE -> <<>>
      [] Kind(hash_type) = SINGLE -> [j \in 1 .. i |-> IF j < i THEN Blank ELSE t.tx_out[i]]
      [] OTHER -> t.tx_out

signature_hash(t, i, code, hash_type) ==
    LET ins == SignedInputs(t, i, code, hash_type)
    IN  IF i > Len(t.tx_in) \/ (Kind(hash_type) = SINGLE /\ i > Len(t.tx_out))
        THEN One
        ELSE double_sha256(
                 encode_legacy([t EXCEPT
                     !.tx_in = IF AnyoneCanPay(hash_type) THEN <<ins[i]>> ELSE ins,
                     !.tx_out = SignedOutputs(t, i, hash_type)])
                 \o <<hash_type>>)

---------------------------------------------------------------------------
VARIABLES
    tx,      \* the transaction as it is now
    at,      \* the input the wallet spends with
    code,    \* the script code it is checked against
    sig,     \* the signature: its hash type and the hash it signs
    signed,  \* history: <<tx, at, code>> at the time of the signature
    amends   \* changes since

spending == <<tx, at, code, sig, signed, amends>>

NoTx  == [version |-> 0, tx_in |-> <<>>, tx_out |-> <<>>, lock_time |-> 0]
NoSig == [hash_type |-> 0, hash |-> One]

Draft ==
    /\ tx = NoTx /\ at = 0 /\ code = <<>> /\ sig = NoSig
    /\ signed = <<NoTx, 0, <<>>>> /\ amends = 0

\* A wallet (external) signs the input at i.
Sign ==
    /\ at = 0
    /\ \E d \in Drafts, h \in HashTypes, i \in 1 .. 3 :
           /\ i \in DOMAIN d.tx.tx_in
           /\ tx' = d.tx /\ at' = i /\ code' = d.code
           /\ sig' = [hash_type |-> h, hash |-> signature_hash(d.tx, i, d.code, h)]
           /\ signed' = <<d.tx, i, d.code>>
    /\ UNCHANGED amends

Another == [hash |-> 77, index |-> 0, script_sig |-> <<>>, sequence |-> 5]

\* The inputs and the outputs with one field of one of them changed, or one
\* more, or one less.
ChangedInputs(ins) ==
    {Append(ins, Another)}
    \cup UNION {{[ins EXCEPT ![j] = [@ EXCEPT !.index = 8]],
                 [ins EXCEPT ![j] = [@ EXCEPT !.sequence = 9]],
                 [ins EXCEPT ![j] = [@ EXCEPT !.script_sig = <<9>>]]} : j \in DOMAIN ins}

ChangedOutputs(outs) ==
    {Append(outs, [value |-> 4, pk_script |-> <<4>>])}
    \cup UNION {{[outs EXCEPT ![j] = [@ EXCEPT !.value = 9]],
                 [outs EXCEPT ![j] = [@ EXCEPT !.pk_script = <<9>>]],
                 RemoveAt(outs, j)} : j \in DOMAIN outs}

\* The transaction with one part changed (external).
Changed(t) ==
    {[t EXCEPT !.version = 2], [t EXCEPT !.lock_time = 9]}
    \cup {[t EXCEPT !.tx_in = ins] : ins \in ChangedInputs(t.tx_in)}
    \cup {[t EXCEPT !.tx_out = outs] : outs \in ChangedOutputs(t.tx_out)}

Amend ==
    /\ at # 0 /\ amends < MaxAmends
    /\ amends' = amends + 1
    /\ \/ tx' \in Changed(tx) /\ UNCHANGED <<at, code>>
       \/ tx' = [tx EXCEPT !.tx_in = <<Another>> \o @] /\ at' = at + 1 /\ UNCHANGED code
       \/ code' = <<9>> /\ UNCHANGED <<tx, at>>
    /\ UNCHANGED <<sig, signed>>

SpendingNext == Sign \/ Amend

SpendingSpec == Draft /\ [][SpendingNext]_spending

\* OP_CHECKSIG: the last byte of the signature is the hash type, and the
\* hash is computed from the transaction as it is now.
Accepted == signature_hash(tx, at, code, sig.hash_type) = sig.hash

---------------------------------------------------------------------------
\* What each hash type is for: the parts of a transaction that a signature of
\* input i binds, each under its place.  A SINGLE signature without an output
\* at its place binds nothing at all.
Bound(t, i, c, hash_type) ==
    LET kind   == Kind(hash_type)
        others == IF AnyoneCanPay(hash_type) THEN {} ELSE DOMAIN t.tx_in \ {i}
        point(j) == WriteFields(t.tx_in[j], Outpoint)
    IN  IF kind = SINGLE /\ i \notin DOMAIN t.tx_out THEN {}
        ELSE {<<"all", <<t.version, t.lock_time, c>>>>,
              <<"mine", <<point(i), t.tx_in[i].sequence>>>>}
             \cup {<<"input", <<j, point(j)>>>> : j \in others}
             \cup (IF kind \in {NONE, SINGLE} THEN {}
                   ELSE {<<"sequence", <<j, t.tx_in[j].sequence>>>> : j \in others}
                        \cup {<<"output", <<j, t.tx_out[j]>>>> : j \in DOMAIN t.tx_out})
             \cup (IF kind = SINGLE THEN {<<"output", <<i, t.tx_out[i]>>>>} ELSE {})
             \cup (IF AnyoneCanPay(hash_type) THEN {} ELSE {<<"place", <<i>>>>})

\* A signature stays good under exactly the changes its hash type allows:
\* whatever is done to the transaction after it was signed, by anyone and in
\* any order, OP_CHECKSIG accepts if and only if every bound part is as it was.
SignatureBindsItsParts ==
    at # 0 =>
        (Accepted <=> Bound(tx, at, code, sig.hash_type)
                      = Bound(signed[1], signed[2], signed[3], sig.hash_type))
====
