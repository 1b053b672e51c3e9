---- MODULE Codec ----
(***************************************************************************)
(* Readers and writers of payloads (primitives/src/codec.rs, and the          *)
(* read_exact calls of messages.rs and transaction.rs).                      *)
(*                                                                          *)
(* A payload is a sequence of cells: a byte of a varint, of a script or of a *)
(* text, or one whole field of fixed width (an integer, a hash, an address). *)
(* A reader is what is left of the payload and the record of the fields read *)
(* from it; once a read has failed it stays failed.                          *)
(***************************************************************************)
EXTENDS Integers, SequencesExt

Cells == Seq(Int)

Reader(cells) == [ok |-> TRUE, rest |-> cells, read |-> <<>>]

Failed(r) == [ok |-> FALSE, rest |-> r.rest, read |-> r.read]

\* The reader, with another record of fields.
Holding(r, fields) == [ok |-> r.ok, rest |-> r.rest, read |-> fields]

\* The fields of rec, and v under a name.
With(rec, name, v) == [f \in DOMAIN rec \cup {name} |-> IF f = name THEN v ELSE rec[f]]

\* read_exact of n cells, under a name.
Exact(r, name, n) ==
    IF r.ok /\ n <= Len(r.rest)
    THEN [ok |-> TRUE, rest |-> SubSeq(r.rest, n + 1, Len(r.rest)),
          read |-> With(r.read, name, SubSeq(r.rest, 1, n))]
    ELSE Failed(r)

\* Fields of fixed width, in this order.
Fields(r, names) ==
    IF r.ok /\ Len(names) <= Len(r.rest)
    THEN [ok |-> TRUE, rest |-> SubSeq(r.rest, Len(names) + 1, Len(r.rest)),
          read |-> [f \in DOMAIN r.read \cup Range(names) |->
                       IF f \in Range(names)
                       THEN r.rest[CHOOSE i \in DOMAIN names : names[i] = f]
                       ELSE r.read[f]]]
    ELSE Failed(r)

WriteFields(m, names) == [i \in DOMAIN names |-> m[names[i]]]

---------------------------------------------------------------------------
\* Varints.  A u64 is its eight bytes, the least significant first.

U64(n) == <<n % 256, (n \div 256) % 256, n \div 65536, 0, 0, 0, 0, 0>>

\* A count or a length (those of the instances are below 2^24): the third cell
\* of its U64 stands for all the bytes above the second.
Number(v) == v[1] + 256 * v[2] + 65536 * v[3]

\* v is below 256^n.
Below(v, n) == \A i \in n + 1 .. 8 : v[i] = 0

write_varint(v) ==
    LET small == Below(v, 1) /\ v[1] < 253
    IN  CASE small -> <<v[1]>>
          [] Below(v, 2) /\ ~small -> <<253>> \o SubSeq(v, 1, 2)
          [] Below(v, 4) /\ ~Below(v, 2) -> <<254>> \o SubSeq(v, 1, 4)
          [] ~Below(v, 4) -> <<255>> \o v

\* Mutant: 0xFD is taken for a value of its own.
VarintTailLate(first) == CASE first = 254 -> 4 [] first = 255 -> 8 [] OTHER -> 0

\* How many bytes follow the first one.
VarintTail(first) == CASE first = 253 -> 2 [] first = 254 -> 4 [] first = 255 -> 8
                       [] OTHER -> 0

read_varint(r, name) ==
    LET a == Exact(r, name, 1)
        n == VarintTail(a.read[name][1])
        b == Exact(a, name, n)
        v == IF n = 0 THEN a.read[name] ELSE b.read[name]
    IN  IF ~a.ok THEN a
        ELSE IF ~b.ok THEN b
        ELSE Holding(b, With(a.read, name, [i \in 1 .. 8 |-> IF i <= Len(v) THEN v[i] ELSE 0]))

\* A varint and that many cells, or that many records.
Length(r, name) == LET x == read_varint(r, name)
                   IN  IF x.ok THEN Holding(x, With(x.read, name, Number(x.read[name]))) ELSE x

Counted(r, name) == LET x == Length(r, name)
                    IN  IF x.ok THEN Exact(x, name, x.read[name]) ELSE x

\* n records, added one by one to those of the field name.  item gives the
\* reader of one record for the cells in front of it.
Records(r, name, n, item) ==
    LET Add(a) == LET x == item[a.rest]
                  IN  Holding(x, With(a.read, name, Append(a.read[name], x.read)))
        records[i \in 0 .. n] ==
            IF i = 0 THEN Holding(r, With(r.read, name, <<>>))
            ELSE IF records[i - 1].ok THEN Add(records[i - 1]) ELSE records[i - 1]
    IN  records[n]

Many(r, name, item) ==
    LET x == Length(r, name)
    IN  IF x.ok THEN Records(x, name, x.read[name], item) ELSE x

Count(s) == write_varint(U64(Len(s)))

WriteCounted(cells) == Count(cells) \o cells

WriteMany(s, Item(_)) == Count(s) \o FlattenSeq([i \in DOMAIN s |-> Item(s[i])])
====
