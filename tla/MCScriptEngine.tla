---- MODULE MCScriptEngine ----
\* Instances of ScriptEngine for TLC: two keys, a signature of each, and
\* unlocking scripts of up to three chunks.
EXTENDS ScriptEngine

Op(b)      == [op |-> b]
Push(f, d) == [form |-> f, push |-> d]

\* The byte after the length field of every key is an opcode or a push.
Key1 == <<2, 118>>
Key2 == <<3, 172>>
Sig1 == <<48, 1>>
Sig2 == <<49, 1>>

MCHash160(d) == <<200>> \o d
MCVerifies(key, der, hash_type) ==
    hash_type = 1 /\ <<key, der>> \in {<<Key1, <<48>>>>, <<Key2, <<49>>>>}

UnlockChunks ==
    {Push(1, Key1), Push(3, Key2), Push(2, Sig1), Push(1, Sig2),
     Op(0), Op(81), Op(118), Op(97)}

MCUnlocks == UNION {[1 .. n -> UnlockChunks] : n \in 0 .. 3}

P2PKH(f) == <<Op(118), Op(169), Push(f, MCHash160(Key1)), Op(136), Op(172)>>

MCLocks == {P2PKH(1), P2PKH(2), P2PKH(3), P2PKH(5), <<Op(135)>>, <<Op(79), Push(5, Key1)>>}

\* The scripts of vm_tests, and a push the caller did not need.
TestUnlocks == {<<Push(1, Sig1), Push(1, Key1)>>,
                <<Op(81), Push(1, Sig1), Push(1, Key1)>>}
TestLocks   == {P2PKH(1)}
====
