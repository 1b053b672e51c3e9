---- MODULE MCPrimitives ----
\* Instances of Messages (with Transactions), ProofOfWork and Addresses for
\* TLC.  The three share no state: in a behaviour only one of them moves.
EXTENDS Messages, ProofOfWork, Addresses

\* Base58 needs the real 256; the other two work on numbers of their own.

In(n, script, sequence) ==
    [hash |-> n, index |-> 0, script_sig |-> script, sequence |-> sequence]
Out(value, script) == [value |-> value, pk_script |-> script]
TxOf(ins, outs) == [version |-> 1, tx_in |-> ins, tx_out |-> outs, lock_time |-> 0]

OneInOneOut == TxOf(<<In(11, <<>>, 5)>>, <<Out(1, <<1>>)>>)
TwoInTwoOut == TxOf(<<In(11, <<>>, 5), In(12, <<3>>, 6)>>, <<Out(1, <<1>>), Out(2, <<>>)>>)
TwoInOneOut == TxOf(<<In(11, <<>>, 5), In(12, <<3>>, 5)>>, <<Out(1, <<1, 2>>)>>)

SignedDrafts == {[tx |-> t, code |-> <<7>>] : t \in {OneInOneOut, TwoInTwoOut, TwoInOneOut}}

\* ALL, NONE, SINGLE, and a byte that is none of them, each also with
\* ANYONECANPAY.
AllHashTypes == {1, 2, 3, 4, 129, 130, 131}

\* The transactions on the wire: without witnesses, and with one per input.
Legacy(t) == [command |-> "tx", tx_witness |-> <<>>, flag |-> 0] @@ t
Segwit(t, ws) ==
    [command |-> "tx", flag |-> 1,
     tx_witness |-> [i \in DOMAIN ws |->
         [witness |-> [j \in DOMAIN ws[i] |-> [witness_data |-> ws[i][j]]]]]] @@ t

\* Bytes that are no ASCII, each by itself, make a replacement character.
MCFromUtf8Lossy(bytes) == [i \in DOMAIN bytes |-> IF bytes[i] < 128 THEN bytes[i] ELSE 65533]

Ua(n) == [i \in 1 .. n |-> IF i = 2 THEN 200 ELSE 77]
Version(ua, height) ==
    [command |-> "version", version |-> 70015, services |-> 0, timestamp |-> 3, addr_recv |-> 4,
     addr_from |-> 5, nonce |-> 6, user_agent |-> ua, start_height |-> height, relay |-> 0]

\* Counts of transactions at the limits of each varint.
Limits == {U64(0), U64(252), U64(253), U64(65535), <<0, 0, 1, 0, 0, 0, 0, 0>>,
           <<255, 255, 255, 255, 0, 0, 0, 0>>, <<0, 0, 0, 0, 1, 0, 0, 0>>,
           <<255, 255, 255, 255, 255, 255, 255, 255>>}
Header(n, count) ==
    [version |-> 2, prev_block |-> n, merkle_root |-> n + 20, timestamp |-> 8, bits |-> 9,
     nonce |-> n + 40, txn_count |-> count]

Vector(number, h) == [number |-> number, hash |-> h]
Numbers == {0, 1, 2, 3, 4, 5, 999, WitnessBit + 1, WitnessBit + 2, WitnessBit + 3, WitnessBit + 4}
Inv(vectors) == [command |-> "inv", inventory |-> vectors]

AllTraffic ==
    {Version(Ua(n), h) : n \in {0, 2, 252, 255}, h \in {0, 800000}}
    \cup {[command |-> c, nonce |-> 5] : c \in {"ping", "pong"}}
    \cup {[command |-> "verack"]}
    \cup {[command |-> "getheaders", version |-> 70015, hash_count |-> 1,
           block_locator_hashes |-> <<33>>, stop_hash |-> 0]}
    \cup {[command |-> "headers", headers |-> hs] :
             hs \in {<<>>} \cup {<<Header(1, c), Header(2, d)>> : c, d \in Limits}}
    \cup {Inv(vs) : vs \in {<<>>} \cup {<<Vector(a, 51), Vector(b, 52)>> : a, b \in Numbers}}
    \cup {Legacy(t) : t \in {OneInOneOut, TwoInTwoOut, TwoInOneOut,
                             TxOf(<<In(11, Ua(253), 5)>>, <<>>)}}
    \cup {Segwit(OneInOneOut, <<<<>>>>), Segwit(OneInOneOut, <<<< <<1>>, <<>> >>>>),
          Segwit(TwoInTwoOut, <<<< <<1, 2>> >>, <<>>>>)}

SomeSpares == {<<>>, <<0, 0>>}

\* Hashes that begin, end or consist of zero bytes, and the greatest.
Rising == [i \in 1 .. 20 |-> i]
ZeroHash == [i \in 1 .. 20 |-> 0]
FullHash == [i \in 1 .. 20 |-> 255]
LowHash == [i \in 1 .. 20 |-> IF i = 20 THEN 1 ELSE 0]
HighHash == [i \in 1 .. 20 |-> IF i = 1 THEN 200 ELSE 0]
SomeHashes == {Rising, ZeroHash, FullHash, LowHash, HighHash}
SomeSums == {<<0, 0, 0, 0>>, <<255, 255, 255, 255>>, <<0, 7, 0, 9>>}

\* A text with a foreign character, and one that is too short.
SomeMistakes == {<<1, 2, Foreign, 3>>, <<0, 5, 6>>}

MCInit == Silence /\ Draft /\ Unjudged /\ Untracked

MCNext ==
    \/ Draft /\ Unjudged /\ Untracked /\ TrafficNext /\ UNCHANGED <<spending, work, tracking>>
    \/ Silence /\ Unjudged /\ Untracked /\ SpendingNext /\ UNCHANGED <<traffic, work, tracking>>
    \/ Silence /\ Draft /\ Untracked /\ Judge /\ UNCHANGED <<traffic, spending, tracking>>
    \/ Silence /\ Draft /\ Unjudged /\ TrackingNext /\ UNCHANGED <<traffic, spending, work>>

MCSpec == MCInit /\ [][MCNext]_<<traffic, spending, work, tracking>>
====
