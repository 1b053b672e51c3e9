---- MODULE Messages ----
(***************************************************************************)
(* The payloads of messages (primitives/src/messages.rs, and encode_payload, *)
(* decipher and process of node/src/protocol.rs) and their way through the   *)
(* node: a peer's payload is deciphered; an inv is answered with a getdata,  *)
(* headers are written to headers.dat and read again at the next start; the  *)
(* node's own payloads are read by the peer.  Framing is the subject of      *)
(* MessageStream, and what is saved when, of HeaderStore.                    *)
(***************************************************************************)
EXTENDS Transactions

CONSTANTS
    Traffic,  \* the messages that peers and the node write
    Spares,   \* what may follow a message in its payload, as cells
    from_utf8_lossy(_)  \* the text that bytes make, wrong ones replaced

---------------------------------------------------------------------------
\* The payloads.

VersionFields == <<"version", "services", "timestamp", "addr_recv", "addr_from", "nonce">>

\* The length of the user agent is one byte, whatever it is.
WriteVersion(m) ==
    WriteFields(m, VersionFields) \o <<Len(m.user_agent) % 256>> \o m.user_agent
    \o WriteFields(m, <<"start_height", "relay">>)

\* The bytes of the user agent, kept as the text they make.
ReadUserAgent(r, length) ==
    LET b == Exact(r, "user_agent", length)
    IN  IF b.ok
        THEN Holding(b, With(b.read, "user_agent", from_utf8_lossy(b.read.user_agent)))
        ELSE b

\* Mutant: the relay byte may be missing.
ReadVersionLenient(r) ==
    LET a == Fields(r, VersionFields \o <<"user_agent">>)
        b == IF a.ok THEN ReadUserAgent(a, a.read.user_agent) ELSE a
        c == Fields(b, <<"start_height">>)
    IN  IF c.rest = <<>> THEN c ELSE Fields(c, <<"relay">>)

ReadVersion(r) ==
    LET a == Fields(r, VersionFields \o <<"user_agent">>)
        b == IF a.ok THEN ReadUserAgent(a, a.read.user_agent) ELSE a
    IN  Fields(b, <<"start_height", "relay">>)

\* A header on the wire is followed by a count of transactions, which is not
\* kept, and so is not on disk.
HeaderFields == <<"version", "prev_block", "merkle_root", "timestamp", "bits", "nonce">>

ReadHeader ==
    [q \in Cells |->
        LET a == Fields(Reader(q), HeaderFields)
            b == read_varint(a, "txn_count")
        IN  IF b.ok THEN Holding(b, a.read) ELSE b]

ReadHeaders(r) == Many(r, "headers", ReadHeader)

read_from_disk(r) == Fields(r, HeaderFields)

as_bytes(h) == WriteFields(h, HeaderFields)

WriteHeader(h) == as_bytes(h) \o write_varint(h.txn_count)   \* peers (external)

\* Inventory types; peers send them as numbers, and the number of an unknown one is kept.
WitnessBit == 1073741824    \* 0x40000000

TypeNumber ==
    [Error |-> 0, MsgTx |-> 1, MsgBlock |-> 2, MsgFilteredBlock |-> 3, MsgCompactBlock |-> 4,
     MsgWitnessTx |-> WitnessBit + 1, MsgWitnessBlock |-> WitnessBit + 2,
     MsgFilteredWitnessBlock |-> WitnessBit + 3]

from_u32(n) ==
    IF \E name \in DOMAIN TypeNumber : TypeNumber[name] = n
    THEN [type |-> CHOOSE name \in DOMAIN TypeNumber : TypeNumber[name] = n]
    ELSE [type |-> "Unknown", value |-> n]

\* Mutant: an unknown type is written as 0.
ToU32Known(t) == IF t.type = "Unknown" THEN 0 ELSE TypeNumber[t.type]

ToU32(t) == IF t.type = "Unknown" THEN t.value ELSE TypeNumber[t.type]

ReadVector ==
    [q \in Cells |->
        LET x == Fields(Reader(q), <<"inv_type", "hash">>)
        IN  IF x.ok THEN Holding(x, With(x.read, "inv_type", from_u32(x.read.inv_type))) ELSE x]

MaxInventory == 50000

ReadInv(r) ==
    LET count == Length(r, "inventory")
    IN  IF count.ok /\ count.read.inventory > MaxInventory THEN Failed(count)
        ELSE Many(r, "inventory", ReadVector)

WriteGetData(inventory) == WriteMany(inventory, LAMBDA v : <<ToU32(v.inv_type), v.hash>>)

WriteInv(m) == WriteMany(m.inventory, LAMBDA v : <<v.number, v.hash>>)   \* peers (external)

WriteGetHeaders(m) ==
    <<m.version>> \o write_varint(U64(m.hash_count)) \o m.block_locator_hashes
    \o <<m.stop_hash>>

---------------------------------------------------------------------------
\* encode_payload: what the node does not send has no form here.
encode_payload(m) ==
    CASE m.command = "version" -> WriteVersion(m)
      [] m.command \in {"ping", "pong"} -> <<m.nonce>>
      [] m.command = "getheaders" -> WriteGetHeaders(m)
      [] m.command = "getdata" -> WriteGetData(m.inventory)
      [] OTHER -> <<>>

\* What peers write, in the node's own forms where it has them (external).
PeerWrites(m) ==
    CASE m.command = "inv" -> WriteInv(m)
      [] m.command = "headers" -> WriteMany(m.headers, WriteHeader)
      [] m.command = "tx" -> IF m.tx_witness = <<>> THEN encode_legacy(m) ELSE EncodeSegwit(m)
      [] OTHER -> encode_payload(m)

\* The reader of the node.  What it has no reader for is Unknown, whatever
\* its payload: a getheaders or a getdata too.
decipher(command, cells) ==
    LET r == Reader(cells)
    IN  CASE command = "version" -> ReadVersion(r)
          [] command \in {"ping", "pong"} -> Fields(r, <<"nonce">>)
          [] command = "inv" -> ReadInv(r)
          [] command = "headers" -> ReadHeaders(r)
          [] command = "tx" -> ReadTx(r)
          [] OTHER -> r

\* The reader of a peer, for the getheaders that only the node sends (external).
ReadGetHeaders(r) ==
    LET a == Length(Fields(r, <<"version">>), "hash_count")
        b == IF a.ok THEN Exact(a, "block_locator_hashes", a.read.hash_count) ELSE a
    IN  Fields(b, <<"stop_hash">>)

---------------------------------------------------------------------------
\* The messages: every one that can be written in its form.  A user agent's
\* length fits a byte, an inv is of a legal size, a getheaders counts its own
\* hashes, and a transaction has inputs and, if witnesses, one per input.

VersionMessage ==
    {m \in [command : {"version"}, version : Int, services : Int, timestamp : Int,
            addr_recv : Int, addr_from : Int, nonce : Int, user_agent : Cells,
            start_height : Int, relay : Int] : Len(m.user_agent) < 256}

NonceMessage == [command : {"ping", "pong"}, nonce : Int]

GetHeaders ==
    {m \in [command : {"getheaders"}, version : Int, hash_count : Nat,
            block_locator_hashes : Cells, stop_hash : Int] :
        m.hash_count = Len(m.block_locator_hashes)}

Varint == [1 .. 8 -> 0 .. 255]

WireHeader ==
    [version : Int, prev_block : Int, merkle_root : Int, timestamp : Int, bits : Int,
     nonce : Int, txn_count : Varint]

Headers == [command : {"headers"}, headers : Seq(WireHeader)]

Inventory ==
    {m \in [command : {"inv"}, inventory : Seq([number : Int, hash : Int])] :
        Len(m.inventory) <= MaxInventory}

Witness == [witness : Seq([witness_data : Cells])]

LegacyTx ==
    {m \in [command : {"tx"}, flag : {0}, tx_witness : {<<>>}, version : Int,
            tx_in : Seq(TxIn), tx_out : Seq(TxOut), lock_time : Int] : m.tx_in # <<>>}

SegwitTx ==
    {m \in [command : {"tx"}, flag : {1}, tx_witness : Seq(Witness), version : Int,
            tx_in : Seq(TxIn), tx_out : Seq(TxOut), lock_time : Int] :
        m.tx_in # <<>> /\ Len(m.tx_witness) = Len(m.tx_in)}

ASSUME TrafficAssumption ==
    /\ Traffic \subseteq VersionMessage \cup NonceMessage \cup [command : {"verack"}]
                        \cup GetHeaders \cup Headers \cup Inventory \cup LegacyTx \cup SegwitTx
    /\ Spares \subseteq Cells

---------------------------------------------------------------------------
VARIABLES
    sent,     \* history: the message meant by its writer
    payload,  \* its payload; after an inv was read, that of the getdata
    missing,  \* cells its writer has left out at the end
    got,      \* what the reader has made of it
    disk,     \* headers.dat
    loaded,   \* the headers of the next start
    stage     \* how far it has come

traffic == <<sent, payload, missing, got, disk, loaded, stage>>

NoMessage == [command |-> "none"]

Silence ==
    /\ sent = NoMessage /\ payload = <<>> /\ missing = 0 /\ got = Reader(<<>>)
    /\ disk = <<>> /\ loaded = <<>> /\ stage = "idle"

\* A payload is written, whole or short of some cells; a whole one may be
\* followed by others, as fields of a later version of the protocol.
Write ==
    /\ stage = "idle"
    /\ \E m \in Traffic :
           /\ sent' = m
           /\ LET whole == PeerWrites(m)
              IN  \/ missing' = 0 /\ \E s \in Spares : payload' = whole \o s
                  \/ missing' \in 1 .. Len(whole)
                     /\ payload' = SubSeq(whole, 1, Len(whole) - missing')
    /\ stage' = "written"
    /\ UNCHANGED <<got, disk, loaded>>

Decipher ==
    /\ stage = "written"
    /\ got' = IF sent.command = "getheaders" THEN ReadGetHeaders(Reader(payload))
              ELSE decipher(sent.command, payload)
    /\ stage' = "read"
    /\ UNCHANGED <<sent, payload, missing, disk, loaded>>

Usable(command) == stage = "read" /\ sent.command = command /\ got.ok

\* process: the reply to an inv that is not empty.
Answer ==
    /\ Usable("inv") /\ got.read.inventory # <<>>
    /\ payload' = encode_payload([command |-> "getdata", inventory |-> got.read.inventory])
    /\ stage' = "answered"
    /\ UNCHANGED <<sent, missing, got, disk, loaded>>

\* Mutant: headers are kept as they are on the wire.
SaveWire ==
    /\ Usable("headers")
    /\ disk' = FlattenSeq([i \in DOMAIN got.read.headers |-> as_bytes(got.read.headers[i]) \o <<0>>])
    /\ stage' = "saved"
    /\ UNCHANGED <<sent, payload, missing, got, loaded>>

\* write_to_disk for each header.
Save ==
    /\ Usable("headers")
    /\ disk' = FlattenSeq([i \in DOMAIN got.read.headers |-> as_bytes(got.read.headers[i])])
    /\ stage' = "saved"
    /\ UNCHANGED <<sent, payload, missing, got, loaded>>

\* load_headers, up to the end of the file.
LoadHeader ==
    /\ stage = "saved"
    /\ LET r == read_from_disk(Reader(disk))
       IN  IF r.ok THEN loaded' = Append(loaded, r.read) /\ disk' = r.rest /\ stage' = stage
           ELSE stage' = "loaded" /\ UNCHANGED <<disk, loaded>>
    /\ UNCHANGED <<sent, payload, missing, got>>

TrafficNext == Write \/ Decipher \/ Answer \/ Save \/ LoadHeader

TrafficSpec == Silence /\ [][TrafficNext]_traffic

---------------------------------------------------------------------------
\* Properties.

\* The headers of a message as the node keeps them.
Kept(h) == [f \in Range(HeaderFields) |-> h[f]]

\* A whole payload means to its reader what it meant to its writer, in every
\* field that the node keeps: behind the varints of all widths that headers
\* carry and the node throws away, in the scripts and the witnesses of a
\* transaction, and whatever follows the message.  A user agent, which its
\* writer has given the length of one byte that the node gives its own,
\* becomes the text its bytes make.
ReadAsWritten ==
    stage = "read" /\ missing = 0 =>
        /\ got.ok
        /\ CASE sent.command = "headers" ->
                  got.read.headers = [i \in DOMAIN sent.headers |-> Kept(sent.headers[i])]
             [] sent.command = "inv" ->
                  [i \in DOMAIN got.read.inventory |-> got.read.inventory[i].hash]
                  = [i \in DOMAIN sent.inventory |-> sent.inventory[i].hash]
             [] sent.command = "version" ->
                  \A f \in DOMAIN sent \ {"command"} :
                      got.read[f] = IF f = "user_agent" THEN from_utf8_lossy(sent[f]) ELSE sent[f]
             [] OTHER -> \A f \in DOMAIN sent \ {"command"} : got.read[f] = sent[f]

\* A payload that ends early is refused, wherever it ends: it never passes
\* for a shorter message, so no action is taken on half of one.
ShortPayloadIsRefused ==
    stage = "read" /\ missing > 0 => ~got.ok

\* The node asks for exactly what was announced: the getdata that answers an
\* inv holds the same vectors in the same order, those
\* of types the node does not know included.
AsksForTheAnnounced ==
    stage = "answered" => payload = WriteInv(sent)

\* What a restart loads are the headers the peer sent, field by field and so
\* with the same hashes, although a record on disk has another form than a
\* header on the wire.
HeadersSurviveDisk ==
    stage = "loaded" => loaded = [i \in DOMAIN sent.headers |-> Kept(sent.headers[i])]
====
