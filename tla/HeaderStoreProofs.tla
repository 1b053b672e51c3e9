---- MODULE HeaderStoreProofs ----
(***************************************************************************)
(* Proofs about HeaderStore, for every set of headers, every buffer size     *)
(* and every list of batches.                                               *)
(***************************************************************************)
EXTENDS HeaderStore, SequenceLemmas

---------------------------------------------------------------------------
\* Facts about the operators the store is built from.

\* A record more adds one header to what is read back and becomes the tip.
LEMMA ReadAppended ==
    ASSUME NEW S, NEW s \in Seq(S), NEW e \in S
    PROVE  /\ Append(s, e) \in Seq(S)
           /\ Len(Append(s, e)) = Len(s) + 1
           /\ Range(Append(s, e)) = Range(s) \cup {e}
           /\ Tip(Append(s, e)) = e
           /\ Injective(s) /\ e \notin Range(s) => Injective(Append(s, e))
<1>1. /\ Append(s, e) \in Seq(S)
      /\ Append(s, e) # <<>>
      /\ Len(Append(s, e)) = Len(s) + 1
      /\ \A i \in 1 .. Len(s) : Append(s, e)[i] = s[i]
      /\ Append(s, e)[Len(s) + 1] = e
  BY AppendProperties
<1>2. Len(s) \in Nat
  BY LenProperties
<1>3. /\ Range(s) = {s[i] : i \in 1 .. Len(s)}
      /\ Range(Append(s, e)) = {Append(s, e)[i] : i \in 1 .. Len(s) + 1}
  BY <1>1, RangeEquality
<1>4. Range(Append(s, e)) = Range(s) \cup {e}
  BY <1>1, <1>2, <1>3
<1>5. Tip(Append(s, e)) = e
  BY <1>1 DEF Tip
<1>6. ASSUME Injective(s), e \notin Range(s)
      PROVE  Injective(Append(s, e))
  BY <1>1, <1>2, <1>3, <1>6 DEF Injective
<1>7. QED
  BY <1>1, <1>4, <1>5, <1>6

\* The first k records of a sequence.
LEMMA PrefixOfSeq ==
    ASSUME NEW S, NEW b \in Seq(S), NEW k \in 0 .. Len(b)
    PROVE  /\ SubSeq(b, 1, k) \in Seq(S)
           /\ Len(SubSeq(b, 1, k)) = k
           /\ \A i \in 1 .. k : SubSeq(b, 1, k)[i] = b[i]
<1>1. /\ Len(b) \in Nat
      /\ \A i \in 1 .. Len(b) : b[i] \in S
  BY LenProperties, ElementOfSeq
<1>2. \A i \in 1 .. k : b[i] \in S
  BY <1>1
<1>3. /\ SubSeq(b, 1, k) \in Seq(S)
      /\ Len(SubSeq(b, 1, k)) = IF 1 <= k THEN k - 1 + 1 ELSE 0
      /\ \A i \in 1 .. k - 1 + 1 : SubSeq(b, 1, k)[i] = b[1 + i - 1]
  BY <1>2, SubSeqProperties
<1>4. QED
  BY <1>3

\* What a flush cut off after k records leaves behind is read back as a part
\* of the whole: no new header, no new repeat.
LEMMA ReadPrefix ==
    ASSUME NEW S, NEW f \in Seq(S), NEW b \in Seq(S), NEW k \in 0 .. Len(b)
    PROVE  /\ f \o SubSeq(b, 1, k) \in Seq(S)
           /\ Len(f \o SubSeq(b, 1, k)) = Len(f) + k
           /\ \A i \in 1 .. Len(f) + k : (f \o SubSeq(b, 1, k))[i] = (f \o b)[i]
           /\ Range(f) \subseteq Range(f \o SubSeq(b, 1, k))
           /\ Range(f \o SubSeq(b, 1, k)) \subseteq Range(f \o b)
           /\ Injective(f \o b) => Injective(f \o SubSeq(b, 1, k))
<1> DEFINE p == SubSeq(b, 1, k)
           w == f \o b
           c == f \o p
<1>1. /\ Len(b) \in Nat /\ Len(f) \in Nat
      /\ \A i \in 1 .. Len(b) : b[i] \in S
  BY LenProperties, ElementOfSeq
<1>2. /\ p \in Seq(S)
      /\ Len(p) = k
      /\ \A i \in 1 .. k : p[i] = b[i]
  BY PrefixOfSeq
<1> HIDE DEF p
<1>3. /\ w \in Seq(S)
      /\ Len(w) = Len(f) + Len(b)
      /\ \A i \in 1 .. Len(f) + Len(b) :
             w[i] = IF i <= Len(f) THEN f[i] ELSE b[i - Len(f)]
  BY ConcatProperties
<1>4. /\ c \in Seq(S)
      /\ Len(c) = Len(f) + Len(p)
      /\ \A i \in 1 .. Len(f) + Len(p) :
             c[i] = IF i <= Len(f) THEN f[i] ELSE p[i - Len(f)]
  BY <1>2, ConcatProperties
<1>5. Range(c) = Range(f) \cup Range(p) /\ Range(w) = Range(f) \cup Range(b)
  BY <1>2, RangeConcatenation
<1> HIDE DEF w, c
<1>6. \A i \in 1 .. Len(f) + k : c[i] = w[i]
  <2> TAKE i \in 1 .. Len(f) + k
  <2>1. i \in 1 .. Len(f) + Len(p) /\ i \in 1 .. Len(f) + Len(b)
    BY <1>1, <1>2
  <2>2. CASE i <= Len(f)
    BY <2>1, <2>2, <1>3, <1>4
  <2>3. CASE ~(i <= Len(f))
    <3>1. i - Len(f) \in 1 .. k
      BY <1>1, <2>3
    <3>2. c[i] = p[i - Len(f)] /\ w[i] = b[i - Len(f)]
      BY <2>1, <2>3, <1>3, <1>4
    <3>3. QED
      BY <3>1, <3>2, <1>2
  <2>4. QED
    BY <2>2, <2>3
<1>7. Range(p) \subseteq Range(b)
  <2>1. /\ Range(p) = {p[i] : i \in 1 .. Len(p)}
        /\ Range(b) = {b[i] : i \in 1 .. Len(b)}
    BY <1>2, RangeEquality
  <2>2. QED
    BY <2>1, <1>1, <1>2
<1>8. Injective(w) => Injective(c)
  BY <1>1, <1>2, <1>3, <1>4, <1>6 DEF Injective
<1>9. QED
  BY <1>2, <1>4, <1>5, <1>6, <1>7, <1>8 DEF p, w, c

---------------------------------------------------------------------------
\* Type correctness, with every fault switch on or off.

\* Two intervals from 1 that are the same set end at the same number.
LEMMA SameInterval ==
    ASSUME NEW m \in Nat, NEW n \in Nat, 1 .. m = 1 .. n
    PROVE  m = n
<1>1. m > n => m \in 1 .. m /\ m \notin 1 .. n
  OBVIOUS
<1>2. n > m => n \in 1 .. n /\ n \notin 1 .. m
  OBVIOUS
<1>3. QED
  BY <1>1, <1>2

\* What reaches the file is records, one for each header written, and while
\* the file ends at a record boundary they are the headers themselves.
LEMMA OnDiskRecords ==
    ASSUME NEW s \in Seq(Headers)
    PROVE  /\ OnDisk(s) \in Seq(Records)
           /\ Len(OnDisk(s)) = Len(s)
           /\ ~torn => OnDisk(s) = s
<1>1. Len(s) \in Nat /\ DOMAIN s = 1 .. Len(s) /\ \A i \in 1 .. Len(s) : s[i] \in Headers
  BY LenProperties, ElementOfSeq
<1>2. CASE torn
  <2>1. OnDisk(s) = [i \in 1 .. Len(s) |-> Misread(s[i])]
    BY <1>1, <1>2 DEF OnDisk
  <2>2. \A i \in 1 .. Len(s) : Misread(s[i]) \in Records
    BY <1>1 DEF Records
  <2>3. OnDisk(s) \in [1 .. Len(s) -> Records]
    BY <2>1, <2>2
  <2>4. OnDisk(s) \in Seq(Records)
    BY <1>1, <2>3, SeqDef
  <2>5. DOMAIN OnDisk(s) = 1 .. Len(OnDisk(s)) /\ Len(OnDisk(s)) \in Nat
    BY <2>4, LenProperties
  <2>6. DOMAIN OnDisk(s) = 1 .. Len(s)
    BY <2>3
  <2>7. Len(OnDisk(s)) = Len(s)
    <3>1. 1 .. Len(OnDisk(s)) = 1 .. Len(s)
      BY <2>5, <2>6
    <3>2. QED
      BY <1>1, <2>5, <3>1, SameInterval
  <2>8. QED
    BY <1>2, <2>4, <2>7
<1>3. CASE ~torn
  BY <1>3, SeqMonotonic DEF OnDisk, Records
<1>4. QED
  BY <1>2, <1>3

\* Any flush, whole or cut off, keeps headers.dat a sequence of records.
LEMMA FlushKeepsRecords ==
    ASSUME file \in Seq(Records), buf \in Seq(Headers), NEW k \in 0 .. Len(buf)
    PROVE  /\ file \o OnDisk(buf) \in Seq(Records)
           /\ file \o OnDisk(SubSeq(buf, 1, k)) \in Seq(Records)
<1>1. SubSeq(buf, 1, k) \in Seq(Headers)
  BY PrefixOfSeq
<1>2. OnDisk(buf) \in Seq(Records) /\ OnDisk(SubSeq(buf, 1, k)) \in Seq(Records)
  BY <1>1, OnDiskRecords
<1>3. QED
  BY <1>2, ConcatProperties

\* What loading a sequence of records puts into memory is of the right type.
LEMMA LoadedType ==
    ASSUME NEW s \in Seq(Records)
    PROVE  /\ Range(s) \subseteq Records
           /\ Tip(s) \in Records \cup {NoHash}
           /\ Len(s) \in Nat
<1>1. Range(s) \subseteq Records
  BY RangeOfSeq
<1>2. Len(s) \in Nat /\ (s # <<>> => Len(s) \in 1 .. Len(s))
  BY EmptySeq, LenProperties
<1>3. s # <<>> => s[Len(s)] \in Records
  BY <1>2, ElementOfSeq
<1>4. QED
  BY <1>1, <1>2, <1>3 DEF Tip

\* What a save leaves behind when it returns has its type.
LEMMA ReturnType ==
    ASSUME Return
    PROVE  /\ saving' = FALSE /\ batch' \in Seq(Headers)
           /\ pos' \in 1 .. Len(batch') + 1
           /\ buf' \in Seq(Headers) /\ Len(buf') <= BufCap
           /\ fresh' \subseteq Headers /\ start' \in Seq(Records)
<1>1. /\ <<>> \in Seq(Headers) /\ <<>> \in Seq(Records)
      /\ Len(<<>>) = 0
  BY EmptySeq
<1>2. QED
  BY <1>1, StoreAssumption DEF Return

\* TypeOK holds when the program starts.
LEMMA TypeInit == Init => TypeOK
<1> SUFFICES ASSUME Init PROVE TypeOK
  OBVIOUS
<1>1. /\ <<>> \in Seq(Headers) /\ <<>> \in Seq(Records)
      /\ Len(<<>>) = 0
  BY EmptySeq
<1>2. /\ {up, saving, torn} \subseteq BOOLEAN
      /\ cache \subseteq Records /\ best \in Records \cup {NoHash} /\ height \in Nat
      /\ fresh \subseteq Headers /\ acked \subseteq Headers /\ credited \subseteq Headers
  BY DEF Init
<1>3. /\ file \in Seq(Records) /\ start \in Seq(Records) /\ batch \in Seq(Headers)
      /\ pos \in 1 .. Len(batch) + 1
      /\ buf \in Seq(Headers) /\ Len(buf) <= BufCap
  BY <1>1, StoreAssumption DEF Init
<1>4. QED
  BY <1>2, <1>3 DEF TypeOK

\* Every step keeps TypeOK.
LEMMA TypeStep == TypeOK /\ [Next]_vars => TypeOK'
<1> SUFFICES ASSUME TypeOK, [Next]_vars PROVE TypeOK'
  OBVIOUS
<1> USE DEF memory, disk, past
<1>0. /\ Len(batch) \in Nat /\ Len(buf) \in Nat
      /\ \A i \in 1 .. Len(batch) : batch[i] \in Headers
  BY LenProperties, ElementOfSeq DEF TypeOK
<1>1. CASE Load
  BY <1>1, LoadedType DEF Load, TypeOK, call
<1>2. CASE LoadFails
  <2>1. PICK k \in 0 .. Len(file) : /\ cache' = Range(SubSeq(file, 1, k))
                                   /\ best' = Tip(SubSeq(file, 1, k))
    BY <1>2 DEF LoadFails
  <2>2. SubSeq(file, 1, k) \in Seq(Records)
    BY PrefixOfSeq DEF TypeOK
  <2>3. cache' \subseteq Records /\ best' \in Records \cup {NoHash}
    BY <2>1, <2>2, LoadedType
  <2>4. QED
    BY <1>2, <2>3 DEF LoadFails, TypeOK, call
<1>3. ASSUME NEW b \in Batches, SaveBegin(b)
      PROVE  TypeOK'
  <2>1. b \in Seq(Headers) /\ <<>> \in Seq(Headers) /\ Len(<<>>) = 0
    BY StoreAssumption, EmptySeq
  <2>2. Len(b) \in Nat
    BY <2>1, LenProperties
  <2>3. QED
    BY <1>3, <2>1, <2>2, StoreAssumption DEF SaveBegin, TypeOK
<1>4. CASE SkipKnown
  BY <1>0, <1>4 DEF SkipKnown, More, TypeOK
<1>5. CASE WriteHeader
  <2>1. batch[pos] \in Headers /\ pos + 1 \in 1 .. Len(batch) + 1
    BY <1>0, <1>5 DEF WriteHeader, More, TypeOK
  <2>2. buf' \in Seq(Headers) /\ Len(buf') <= BufCap /\ file' \in Seq(Records)
    <3>1. CASE SpillDue
      <4>1. buf' = <<batch[pos]>> /\ file' = file \o OnDisk(buf)
        BY <1>5, <3>1 DEF WriteHeader
      <4>2. <<batch[pos]>> \in Seq(Headers) /\ Len(<<batch[pos]>>) = 1
        BY <2>1
      <4>3. file \o OnDisk(buf) \in Seq(Records)
        BY <1>0, OnDiskRecords, ConcatProperties DEF TypeOK
      <4>4. QED
        BY <4>1, <4>2, <4>3, StoreAssumption
    <3>2. CASE ~SpillDue
      <4>1. buf' = Append(buf, batch[pos]) /\ file' = file /\ Len(buf) # BufCap
        BY <1>5, <3>2 DEF WriteHeader, SpillDue
      <4>2. /\ Append(buf, batch[pos]) \in Seq(Headers)
            /\ Len(Append(buf, batch[pos])) = Len(buf) + 1
        BY <2>1, AppendProperties DEF TypeOK
      <4>3. QED
        BY <1>0, <4>1, <4>2, StoreAssumption DEF TypeOK
    <3>3. QED
      BY <3>1, <3>2
  <2>3. cache' \subseteq Records /\ best' \in Records /\ fresh' \subseteq Headers
    BY <1>5, <2>1 DEF WriteHeader, TypeOK, Records
  <2>4. QED
    BY <1>5, <2>1, <2>2, <2>3 DEF WriteHeader, TypeOK
<1>6. CASE RejectHeader
  <2>1. file' \in Seq(Records)
    BY <1>6, OnDiskRecords, ConcatProperties DEF RejectHeader, TypeOK
  <2>2. QED
    BY <1>6, <2>1, ReturnType DEF RejectHeader, TypeOK
<1>7. CASE SaveEnd
  <2>1. file' \in Seq(Records)
    BY <1>7, OnDiskRecords, ConcatProperties DEF SaveEnd, TypeOK
  <2>2. Range(batch) \subseteq Headers
    BY RangeOfSeq DEF TypeOK
  <2>3. QED
    BY <1>7, <2>1, <2>2, ReturnType DEF SaveEnd, TypeOK
<1>8. ASSUME NEW k \in 0 .. Len(buf), PartialFlush(k)
      PROVE  file' \in Seq(Records) /\ torn' \in BOOLEAN
  BY <1>8, FlushKeepsRecords, StoreAssumption DEF PartialFlush, TypeOK
<1>9. CASE WriteFails
  <2>1. file' \in Seq(Records) /\ torn' \in BOOLEAN
    BY <1>8, <1>9 DEF WriteFails
  <2>2. QED
    BY <1>9, <2>1, ReturnType DEF WriteFails, TypeOK
<1>10. CASE Crash
  <2>1. file' \in Seq(Records) /\ torn' \in BOOLEAN
    BY <1>8, <1>10 DEF Crash, TypeOK
  <2>2. QED
    BY <1>10, <2>1, ReturnType DEF Crash, TypeOK
<1>11. CASE UNCHANGED vars
  BY <1>11 DEF TypeOK, vars, call
<1>12. QED
  BY <1>1, <1>2, <1>3, <1>4, <1>5, <1>6, <1>7, <1>9, <1>10, <1>11 DEF Next

\* TypeOK holds of the store in every state, whatever fails.
THEOREM StoreTypeOK == Spec => []TypeOK
<1>1. QED
  BY TypeInit, TypeStep, PTL DEF Spec

---------------------------------------------------------------------------
\* The locator, with every fault switch on or off.

\* The tip of a log is a header of it, and NoHash when there is none.
LEMMA TipIsRead ==
    ASSUME NEW S, NEW s \in Seq(S)
    PROVE  IF Range(s) = {} THEN Tip(s) = NoHash ELSE Tip(s) \in Range(s)
<1>1. Range(s) = {s[i] : i \in 1 .. Len(s)} /\ Len(s) \in Nat
  BY RangeEquality, LenProperties
<1>2. CASE s = <<>>
  <2>1. Len(s) = 0
    BY <1>2, EmptySeq
  <2>2. Range(s) = {}
    BY <1>1, <2>1
  <2>3. QED
    BY <1>2, <2>2 DEF Tip
<1>3. CASE s # <<>>
  <2>1. Len(s) \in 1 .. Len(s)
    BY <1>1, <1>3, EmptySeq
  <2>2. s[Len(s)] \in Range(s)
    BY <1>1, <2>1
  <2>3. QED
    BY <1>3, <2>2 DEF Tip
<1>4. QED
  BY <1>2, <1>3

\* Every step keeps BestIsCached.
LEMMA BestStep == TypeOK /\ BestIsCached /\ [Next]_vars => BestIsCached'
<1> SUFFICES ASSUME TypeOK, BestIsCached, [Next]_vars PROVE BestIsCached'
  OBVIOUS
<1>1. CASE Load
  <2>1. cache' = Range(file) /\ best' = Tip(file) /\ file \in Seq(Records)
    BY <1>1 DEF Load, TypeOK
  <2>2. QED
    BY <2>1, TipIsRead DEF BestIsCached
<1>2. CASE LoadFails
  <2>1. PICK k \in 0 .. Len(file) : /\ cache' = Range(SubSeq(file, 1, k))
                                   /\ best' = Tip(SubSeq(file, 1, k))
    BY <1>2 DEF LoadFails
  <2>2. SubSeq(file, 1, k) \in Seq(Records)
    BY PrefixOfSeq DEF TypeOK
  <2>3. QED
    BY <2>1, <2>2, TipIsRead DEF BestIsCached
<1>3. CASE WriteHeader
  BY <1>3 DEF WriteHeader, BestIsCached
<1>4. CASE Crash
  BY <1>4 DEF Crash, BestIsCached
<1>5. CASE UNCHANGED memory
  BY <1>5 DEF memory, BestIsCached
<1>6. \/ Load \/ LoadFails \/ WriteHeader \/ Crash \/ UNCHANGED memory
  BY DEF Next, SaveBegin, SkipKnown, RejectHeader, SaveEnd, WriteFails, vars
<1>7. QED
  BY <1>1, <1>2, <1>3, <1>4, <1>5, <1>6

\* The locator is always a header the node has, or zero when it has none.
THEOREM StoreBestIsCached == Spec => []BestIsCached
<1>1. Init => BestIsCached
  BY DEF Init, BestIsCached
<1>2. QED
  BY <1>1, TypeInit, TypeStep, BestStep, PTL DEF Spec

---------------------------------------------------------------------------
\* What each operation does to the log, as long as no record is torn.

\* File, buffer and the log they make hold records, and the log holds what the
\* two hold.
LEMMA LogTypes ==
    ASSUME TypeOK
    PROVE  /\ file \in Seq(Records) /\ buf \in Seq(Records) /\ Log \in Seq(Records)
           /\ Range(Log) = Range(file) \cup Range(buf)
<1>1. file \in Seq(Records) /\ buf \in Seq(Records)
  BY SeqMonotonic DEF TypeOK, Records
<1>2. QED
  BY <1>1, ConcatProperties, RangeConcatenation DEF Log

\* A header written is a header appended, through a spill or not.
LEMMA WriteAppends ==
    ASSUME TypeOK, ~torn, WriteHeader
    PROVE  /\ batch[pos] \in Records
           /\ Log' = Append(Log, batch[pos])
           /\ file' \in {file, Log}
<1> DEFINE h == batch[pos]
<1>1. h \in Headers /\ h \in Records
  <2>1. pos \in 1 .. Len(batch)
    BY LenProperties DEF WriteHeader, More, TypeOK
  <2>2. QED
    BY <2>1, ElementOfSeq DEF TypeOK, Records
<1>2. file \in Seq(Records) /\ buf \in Seq(Records) /\ Log \in Seq(Records)
  BY LogTypes
<1>3. OnDisk(buf) = buf
  BY DEF OnDisk
<1> HIDE DEF h
<1>4. CASE SpillDue
  <2>1. file' = Log /\ buf' = <<h>>
    BY <1>3, <1>4 DEF WriteHeader, Log, h
  <2>2. Log' = Log \o <<h>>
    BY <2>1 DEF Log
  <2>3. Append(Log, h) = Log \o <<h>>
    BY <1>1, <1>2, AppendIsConcat
  <2>4. QED
    BY <1>1, <2>1, <2>2, <2>3 DEF h
<1>5. CASE ~SpillDue
  <2>1. file' = file /\ buf' = Append(buf, h)
    BY <1>5 DEF WriteHeader, h
  <2>2. <<h>> \in Seq(Records)
    BY <1>1
  <2>3. Append(buf, h) = buf \o <<h>> /\ Append(Log, h) = Log \o <<h>>
    BY <1>1, <1>2, AppendIsConcat
  <2>4. (file \o buf) \o <<h>> = file \o (buf \o <<h>>)
    BY <1>2, <2>2, ConcatAssociative
  <2>5. Log' = Append(Log, h)
    BY <2>1, <2>3, <2>4 DEF Log
  <2>6. QED
    BY <1>1, <2>1, <2>5 DEF h
<1>6. QED
  BY <1>4, <1>5

\* A save that returns after a whole flush leaves the log on disk.
LEMMA FlushStores ==
    ASSUME TypeOK, ~torn, file' = file \o OnDisk(buf), Return
    PROVE  file' = Log /\ Log' = Log
<1>1. file' = Log
  BY DEF OnDisk, Log
<1>2. Log \o <<>> = Log
  BY LogTypes, ConcatEmptySeq
<1>3. QED
  BY <1>1, <1>2 DEF Return, Log

\* After a flush cut off at a record boundary the log is a part of what it was.
LEMMA PartialFlushKeeps ==
    ASSUME TypeOK, ~torn, ~TornWrites,
           \/ file' = file /\ torn' = torn
           \/ \E k \in 0 .. Len(buf) : PartialFlush(k),
           Return
    PROVE  /\ ~torn'
           /\ Log' = file'
           /\ Range(file) \subseteq Range(file')
           /\ Range(file') \subseteq Range(Log)
           /\ Injective(Log) => Injective(file')
<1>1. Len(buf) \in Nat
  BY LenProperties DEF TypeOK
<1>2. PICK k \in 0 .. Len(buf) : file' = file \o SubSeq(buf, 1, k) /\ ~torn'
  <2>1. CASE file' = file /\ torn' = torn
    <3>1. SubSeq(buf, 1, 0) = <<>>
      BY SubSeqEmpty
    <3>2. file \o <<>> = file
      BY LogTypes, ConcatEmptySeq
    <3>3. 0 \in 0 .. Len(buf)
      BY <1>1
    <3>4. file' = file \o SubSeq(buf, 1, 0)
      BY <2>1, <3>1, <3>2
    <3>5. ~torn'
      BY <2>1
    <3>6. QED
      BY <3>3, <3>4, <3>5
  <2>2. CASE \E k \in 0 .. Len(buf) : PartialFlush(k)
    BY <2>2 DEF PartialFlush, OnDisk
  <2>3. QED
    BY <2>1, <2>2
<1>3. /\ file' \in Seq(Records)
      /\ Range(file) \subseteq Range(file') /\ Range(file') \subseteq Range(Log)
      /\ Injective(Log) => Injective(file')
  BY <1>2, LogTypes, ReadPrefix DEF Log
<1>4. file' \o <<>> = file'
  BY <1>3, ConcatEmptySeq
<1>5. QED
  BY <1>2, <1>3, <1>4 DEF Return, Log

---------------------------------------------------------------------------
\* Failed reads and writes that stop at record boundaries.

\* FaultInv holds when the program starts.
LEMMA FaultInit == Init => FaultInv
<1> SUFFICES ASSUME Init PROVE FaultInv
  OBVIOUS
<1>1. TypeOK /\ Log \in Seq(Records)
  BY TypeInit, LogTypes
<1>2. Range(file) = {} /\ Range(buf) = {}
  <2>1. file = <<>> /\ buf = <<>> /\ DOMAIN <<>> = {}
    BY DEF Init
  <2>2. QED
    BY <2>1 DEF Range
<1>3. QED
  BY <1>1, <1>2 DEF Init, FaultInv, WorkEverywhere, BestIsCached, CreditedIsDurable

\* Every step keeps FaultInv when no write stops inside a record.
LEMMA FaultStep ==
    ASSUME ~TornWrites
    PROVE  FaultInv /\ [Next]_vars => FaultInv'
<1> SUFFICES ASSUME FaultInv, [Next]_vars PROVE FaultInv'
  OBVIOUS
<1>1. TypeOK' /\ BestIsCached'
  BY TypeStep, BestStep DEF FaultInv
<1>2. TypeOK /\ ~torn
  BY DEF FaultInv
<1>3. /\ Range(Log) = Range(file) \cup Range(buf)
      /\ Range(Log)' = Range(file)' \cup Range(buf)'
  <2>1. file' \in Seq(Records) /\ buf' \in Seq(Records)
    BY <1>1, SeqMonotonic DEF TypeOK, Records
  <2>2. QED
    BY <1>2, <2>1, LogTypes, RangeConcatenation DEF Log
<1> DEFINE Rest == /\ ~torn
                   /\ cache \cup Range(Log) \subseteq ValidPoW
                   /\ credited \subseteq Range(file)
                   /\ fresh \subseteq Range(Log)
<1>4. Rest
  BY <1>3 DEF FaultInv, WorkEverywhere, CreditedIsDurable
<1> SUFFICES Rest'
  BY <1>1, <1>3 DEF FaultInv, WorkEverywhere, CreditedIsDurable
<1> USE DEF past, disk
<1>5. CASE Load
  BY <1>3, <1>4, <1>5 DEF Load, Log, call
<1>6. CASE LoadFails
  <2>1. PICK k \in 0 .. Len(file) : cache' = Range(SubSeq(file, 1, k))
    BY <1>6 DEF LoadFails
  <2>2. cache' \subseteq Range(file)
    <3>1. /\ SubSeq(file, 1, k) \in Seq(Records) /\ Len(SubSeq(file, 1, k)) = k
          /\ \A i \in 1 .. k : SubSeq(file, 1, k)[i] = file[i]
      BY <1>2, PrefixOfSeq DEF TypeOK
    <3>2. /\ cache' = {SubSeq(file, 1, k)[i] : i \in 1 .. k}
          /\ Range(file) = {file[i] : i \in 1 .. Len(file)}
          /\ Len(file) \in Nat
      BY <1>2, <2>1, <3>1, RangeEquality, LenProperties DEF TypeOK
    <3>3. QED
      BY <3>1, <3>2
  <2>3. QED
    BY <1>3, <1>4, <1>6, <2>2 DEF LoadFails, Log, call
<1>7. ASSUME NEW b \in Batches, SaveBegin(b)
      PROVE  Rest'
  <2>1. file' = file /\ Range(buf)' = {} /\ fresh' = {}
    <3>1. buf' = <<>> /\ DOMAIN <<>> = {}
      BY <1>7 DEF SaveBegin
    <3>2. QED
      BY <1>7, <3>1 DEF SaveBegin, Range
  <2>2. QED
    BY <1>3, <1>4, <1>7, <2>1 DEF SaveBegin, memory
<1>8. CASE SkipKnown
  BY <1>4, <1>8 DEF SkipKnown, Log, memory
<1>9. CASE WriteHeader
  <2>1. /\ Log' = Append(Log, batch[pos]) /\ batch[pos] \in Records
        /\ file' \in {file, Log}
    BY <1>2, <1>9, WriteAppends
  <2>2. Range(Log)' = Range(Log) \cup {batch[pos]}
    BY <1>2, <2>1, LogTypes, ReadAppended
  <2>3. batch[pos] \in ValidPoW
    BY <1>9 DEF WriteHeader, VerifyHeader
  <2>4. Range(file) \subseteq Range(file')
    BY <1>3, <2>1
  <2>5. QED
    BY <1>4, <1>9, <2>2, <2>3, <2>4 DEF WriteHeader
<1>10. CASE RejectHeader
  <2>1. file' = Log /\ Log' = Log
    BY <1>2, <1>10, FlushStores DEF RejectHeader
  <2>2. QED
    BY <1>3, <1>4, <1>10, <2>1 DEF RejectHeader, Return, memory
<1>11. CASE SaveEnd
  <2>1. file' = Log /\ Log' = Log
    BY <1>2, <1>11, FlushStores DEF SaveEnd
  <2>2. QED
    BY <1>3, <1>4, <1>11, <2>1 DEF SaveEnd, Return, memory
<1>12. CASE WriteFails
  <2>1. /\ ~torn' /\ Log' = file' /\ Range(file) \subseteq Range(file')
        /\ Range(file') \subseteq Range(Log)
    BY <1>2, <1>12, PartialFlushKeeps DEF WriteFails
  <2>2. QED
    BY <1>4, <1>12, <2>1 DEF WriteFails, Return, memory
<1>13. CASE Crash
  <2>1. /\ ~torn' /\ Log' = file' /\ Range(file) \subseteq Range(file')
        /\ Range(file') \subseteq Range(Log)
    BY <1>2, <1>13, PartialFlushKeeps DEF Crash
  <2>2. QED
    BY <1>4, <1>13, <2>1 DEF Crash, Return
<1>14. CASE UNCHANGED vars
  BY <1>4, <1>14 DEF vars, Log, memory, call
<1>15. QED
  BY <1>5, <1>6, <1>7, <1>8, <1>9, <1>10, <1>11, <1>12, <1>13, <1>14 DEF Next

\* Everything in memory and on disk has its proof of work, also after failed
\* reads and writes, as long as no write stops inside a record.
THEOREM StoreWorkEverywhere == ~TornWrites => (Spec => []WorkEverywhere)
<1> SUFFICES ASSUME ~TornWrites PROVE Spec => []WorkEverywhere
  OBVIOUS
<1>1. FaultInv /\ [Next]_vars => FaultInv'
  BY FaultStep
<1>2. FaultInv => WorkEverywhere
  BY DEF FaultInv
<1>3. QED
  BY FaultInit, <1>1, <1>2, PTL DEF Spec

\* So long, too, what a save has counted as added is on disk for good.
THEOREM StoreCreditedIsDurable == ~TornWrites => (Spec => []CreditedIsDurable)
<1> SUFFICES ASSUME ~TornWrites PROVE Spec => []CreditedIsDurable
  OBVIOUS
<1>1. FaultInv /\ [Next]_vars => FaultInv'
  BY FaultStep
<1>2. FaultInv => CreditedIsDurable
  BY DEF FaultInv
<1>3. QED
  BY FaultInit, <1>1, <1>2, PTL DEF Spec

---------------------------------------------------------------------------
\* No read or write fails: memory and headers.dat agree.

\* Outside a save nothing is buffered, and the part of a batch already gone
\* through is known.
CallInv ==
    /\ saving => up
    /\ ~saving => buf = <<>>
    /\ \A i \in 1 .. pos - 1 : batch[i] \in cache

\* With it the properties of the store that does not fail are inductive.
StoreInv ==
    /\ TypeOK
    /\ ~torn
    /\ MemoryMirrorsLog
    /\ NoDuplicateRecords
    /\ SavedIsDurable
    /\ CallInv

\* StoreInv holds when the program starts.
LEMMA StoreInit == Init => StoreInv
<1> SUFFICES ASSUME Init PROVE StoreInv
  OBVIOUS
<1>1. TypeOK
  BY TypeInit
<1>2. file = <<>> /\ buf = <<>> /\ ~up /\ ~saving /\ ~torn /\ pos = 1
  BY DEF Init
<1>3. Log = <<>> /\ Len(Log) = 0
  <2>1. <<>> \o <<>> = <<>>
    BY ConcatEmptySeq, EmptySeq
  <2>2. QED
    BY <1>2, <2>1, EmptySeq DEF Log
<1>4. MemoryMirrorsLog /\ SavedIsDurable
  BY DEF Init, MemoryMirrorsLog, SavedIsDurable
<1>5. NoDuplicateRecords
  BY <1>3 DEF NoDuplicateRecords, Injective
<1>6. CallInv
  BY <1>2 DEF CallInv
<1>7. QED
  BY <1>1, <1>2, <1>4, <1>5, <1>6 DEF StoreInv

\* Every step keeps StoreInv when the disk does not fail.
LEMMA StoreStep ==
    ASSUME NoFaults
    PROVE  StoreInv /\ [Next]_vars => StoreInv'
<1> SUFFICES ASSUME StoreInv, [Next]_vars PROVE StoreInv'
  OBVIOUS
<1>1. TypeOK /\ ~torn /\ ~TornWrites
  BY DEF StoreInv, NoFaults
<1>2. TypeOK'
  BY <1>1, TypeStep
<1>3. /\ MemoryMirrorsLog /\ Injective(Log) /\ acked \subseteq Range(file) /\ CallInv
  BY DEF StoreInv, NoDuplicateRecords, SavedIsDurable
<1>4. /\ file \in Seq(Records) /\ buf \in Seq(Records) /\ Log \in Seq(Records)
      /\ Range(Log) = Range(file) \cup Range(buf)
  BY <1>1, LogTypes
<1>5. file \o <<>> = file
  BY <1>4, ConcatEmptySeq
<1> DEFINE Rest == /\ ~torn
                   /\ MemoryMirrorsLog
                   /\ Injective(Log)
                   /\ acked \subseteq Range(file)
                   /\ CallInv
<1> SUFFICES Rest'
  BY <1>2 DEF StoreInv, NoDuplicateRecords, SavedIsDurable
<1> USE DEF past, disk
<1>6. CASE Load
  <2>1. Log = file
    BY <1>3, <1>5, <1>6 DEF Load, Log, CallInv
  <2>2. Log' = Log /\ torn' = torn /\ acked' = acked /\ file' = file
    BY <1>6 DEF Load, Log, call
  <2>3. MemoryMirrorsLog'
    BY <1>6, <2>1, <2>2 DEF Load, MemoryMirrorsLog
  <2>4. CallInv'
    <3>1. pos' = pos /\ batch' = batch /\ saving' = saving /\ buf' = buf /\ up'
      BY <1>6 DEF Load, call
    <3>2. cache = {} \/ up
      BY <1>3 DEF MemoryMirrorsLog
    <3>3. \A i \in 1 .. pos - 1 : batch[i] \in cache'
      BY <1>3, <1>6, <3>2 DEF Load, CallInv
    <3>4. QED
      BY <1>3, <3>1, <3>3 DEF CallInv
  <2>5. QED
    BY <1>1, <1>3, <2>2, <2>3, <2>4
<1>7. ASSUME NEW b \in Batches, SaveBegin(b)
      PROVE  Rest'
  <2>1. Log' = Log
    BY <1>3, <1>7 DEF SaveBegin, Log, CallInv
  <2>2. CallInv'
    BY <1>7 DEF SaveBegin, CallInv
  <2>3. QED
    BY <1>1, <1>3, <1>7, <2>1, <2>2 DEF SaveBegin, MemoryMirrorsLog, memory
<1>8. CASE SkipKnown
  <2>1. Log' = Log
    BY <1>8 DEF SkipKnown, Log
  <2>2. CallInv'
    <3>1. \A i \in 1 .. (pos + 1) - 1 : batch[i] \in cache
      BY <1>1, <1>3, <1>8 DEF SkipKnown, CallInv, Known, TypeOK
    <3>2. QED
      BY <1>3, <1>8, <3>1 DEF SkipKnown, CallInv, memory
  <2>3. QED
    BY <1>1, <1>3, <1>8, <2>1, <2>2 DEF SkipKnown, MemoryMirrorsLog, memory
<1>9. CASE WriteHeader
  <2>1. /\ Log' = Append(Log, batch[pos]) /\ batch[pos] \in Records
        /\ file' \in {file, Log}
    BY <1>1, <1>9, WriteAppends
  <2>2. up /\ up' = up
    BY <1>3, <1>9 DEF WriteHeader, CallInv
  <2>3. batch[pos] \notin Range(Log)
    BY <1>3, <1>9, <2>2 DEF WriteHeader, Known, MemoryMirrorsLog
  <2>4. /\ Len(Append(Log, batch[pos])) = Len(Log) + 1
        /\ Range(Append(Log, batch[pos])) = Range(Log) \cup {batch[pos]}
        /\ Tip(Append(Log, batch[pos])) = batch[pos]
        /\ Injective(Append(Log, batch[pos]))
    BY <1>3, <1>4, <2>1, <2>3, ReadAppended
  <2>5. MemoryMirrorsLog' /\ Injective(Log')
    BY <1>3, <1>9, <2>1, <2>2, <2>4 DEF WriteHeader, MemoryMirrorsLog
  <2>6. acked' \subseteq Range(file)' /\ ~torn'
    BY <1>1, <1>3, <1>4, <1>9, <2>1 DEF WriteHeader
  <2>7. CallInv'
    <3>1. \A i \in 1 .. (pos + 1) - 1 : batch[i] \in cache'
      BY <1>1, <1>3, <1>9 DEF WriteHeader, CallInv, TypeOK
    <3>2. saving' /\ pos' = pos + 1 /\ batch' = batch
      BY <1>9 DEF WriteHeader
    <3>3. QED
      BY <2>2, <3>1, <3>2 DEF CallInv
  <2>8. QED
    BY <2>5, <2>6, <2>7
<1>10. CASE RejectHeader
  <2>1. file' = Log /\ Log' = Log
    BY <1>1, <1>10, FlushStores DEF RejectHeader
  <2>2. CallInv'
    BY <1>10 DEF RejectHeader, Return, CallInv
  <2>3. QED
    BY <1>1, <1>3, <1>4, <1>10, <2>1, <2>2 DEF RejectHeader, MemoryMirrorsLog, memory
<1>11. CASE SaveEnd
  <2>1. file' = Log /\ Log' = Log
    BY <1>1, <1>11, FlushStores DEF SaveEnd
  <2>2. CallInv'
    BY <1>11 DEF SaveEnd, Return, CallInv
  <2>3. Range(batch) \subseteq cache
    <3>1. Range(batch) = {batch[i] : i \in 1 .. Len(batch)} /\ Len(batch) \in Nat
      BY <1>1, RangeEquality, LenProperties DEF TypeOK
    <3>2. pos - 1 = Len(batch)
      BY <1>1, <1>11, <3>1 DEF SaveEnd, More, TypeOK
    <3>3. QED
      BY <1>3, <3>1, <3>2 DEF CallInv
  <2>4. cache = Range(Log)
    BY <1>3, <1>11 DEF SaveEnd, CallInv, MemoryMirrorsLog
  <2>5. acked' \subseteq Range(file)'
    BY <1>3, <1>4, <1>11, <2>1, <2>3, <2>4 DEF SaveEnd
  <2>6. QED
    BY <1>1, <1>3, <1>11, <2>1, <2>2, <2>5 DEF SaveEnd, MemoryMirrorsLog, memory
<1>12. CASE Crash
  <2>1. /\ ~torn' /\ Log' = file' /\ Range(file) \subseteq Range(file')
        /\ Injective(Log) => Injective(file')
    BY <1>1, <1>12, PartialFlushKeeps DEF Crash
  <2>2. MemoryMirrorsLog' /\ CallInv'
    BY <1>12 DEF Crash, Return, MemoryMirrorsLog, CallInv
  <2>3. QED
    BY <1>3, <1>12, <2>1, <2>2 DEF Crash
<1>13. CASE UNCHANGED vars
  BY <1>1, <1>3, <1>13 DEF vars, Log, memory, call, MemoryMirrorsLog, CallInv
<1>14. ~LoadFails /\ ~WriteFails
  BY DEF LoadFails, WriteFails, NoFaults
<1>15. QED
  BY <1>6, <1>7, <1>8, <1>9, <1>10, <1>11, <1>12, <1>13, <1>14 DEF Next

\* Between any two steps of save_new_headers, load_headers and a kill, memory
\* is what file and buffer hold, and the running batch is partly in them.
THEOREM StoreInvariant == NoFaults => (Spec => []StoreInv)
<1> SUFFICES ASSUME NoFaults PROVE Spec => []StoreInv
  OBVIOUS
<1>1. StoreInv /\ [Next]_vars => StoreInv'
  BY StoreStep
<1>2. QED
  BY StoreInit, <1>1, PTL DEF Spec

\* While no read or write fails, headers.dat never holds a header twice.
THEOREM StoreNoDuplicates == NoFaults => (Spec => []NoDuplicateRecords)
<1> SUFFICES ASSUME NoFaults PROVE Spec => []NoDuplicateRecords
  OBVIOUS
<1>1. StoreInv => NoDuplicateRecords
  BY DEF StoreInv
<1>2. QED
  BY <1>1, StoreInvariant, PTL

\* Between saves a kill and a restart bring back the very memory that was lost.
THEOREM StoreRestartResumes == NoFaults => (Spec => []RestartResumesExactly)
<1> SUFFICES ASSUME NoFaults PROVE Spec => []RestartResumesExactly
  OBVIOUS
<1>1. StoreInv => RestartResumesExactly
  <2> SUFFICES ASSUME StoreInv, up, ~saving
               PROVE  Range(file) = cache /\ Tip(file) = best /\ Len(file) = height
    BY DEF RestartResumesExactly
  <2>1. buf = <<>> /\ MemoryMirrorsLog /\ TypeOK
    BY DEF StoreInv, CallInv
  <2>2. file \o <<>> = file
    BY <2>1, LogTypes, ConcatEmptySeq
  <2>3. Log = file
    BY <2>1, <2>2 DEF Log
  <2>4. QED
    BY <2>1, <2>3 DEF MemoryMirrorsLog
<1>2. QED
  BY <1>1, StoreInvariant, PTL

\* Every header of a batch whose save returned Ok is on disk for good.
THEOREM StoreSavedIsDurable == NoFaults => (Spec => []SavedIsDurable)
<1> SUFFICES ASSUME NoFaults PROVE Spec => []SavedIsDurable
  OBVIOUS
<1>1. StoreInv => SavedIsDurable
  BY DEF StoreInv
<1>2. QED
  BY <1>1, StoreInvariant, PTL

\* While no read or write fails, memory is what a reading of the log gives.
THEOREM StoreMemoryMirrorsLog == NoFaults => (Spec => []MemoryMirrorsLog)
<1> SUFFICES ASSUME NoFaults PROVE Spec => []MemoryMirrorsLog
  OBVIOUS
<1>1. StoreInv => MemoryMirrorsLog
  BY DEF StoreInv
<1>2. QED
  BY <1>1, StoreInvariant, PTL

---------------------------------------------------------------------------
\* A save appends the new headers of its batch.

\* One turn of the loop is one step of NewIn.
LEMMA TurnOfTheLoop ==
    ASSUME StoreInv, SaveAppendsTheNew, saving, More
    PROVE  LET new  == NewIn(start, SubSeq(batch, 1, pos - 1))
               next == NewIn(start, SubSeq(batch, 1, pos))
           IN  /\ new \in Seq(Records) /\ batch[pos] \in Records
               /\ Range(Log) = Range(start) \cup Range(new)
               /\ next = WithNew(start, new, batch[pos])
<1> DEFINE new  == NewIn(start, SubSeq(batch, 1, pos - 1))
           next == NewIn(start, SubSeq(batch, 1, pos))
<1>1. start \in Seq(Records) /\ batch \in Seq(Records)
  BY SeqMonotonic DEF StoreInv, TypeOK, Records
<1>2. pos \in 1 .. Len(batch) /\ pos - 1 \in 0 .. Len(batch)
  BY <1>1, LenProperties DEF StoreInv, TypeOK, More
<1>3. new \in Seq(Records) /\ next = WithNew(start, new, batch[pos])
  BY <1>1, <1>2, NewInSteps
<1>4. batch[pos] \in Records
  BY <1>1, <1>2, ElementOfSeq
<1>5. Log = start \o new
  BY DEF SaveAppendsTheNew
<1> HIDE DEF new, next
<1>6. Range(Log) = Range(start) \cup Range(new)
  BY <1>1, <1>3, <1>5, RangeConcatenation
<1>7. QED
  BY <1>3, <1>4, <1>6 DEF new, next

\* Every step keeps SaveAppendsTheNew, given the invariant about the call.
LEMMA AppendsStep ==
    ASSUME NoFaults
    PROVE  StoreInv /\ SaveAppendsTheNew /\ [Next]_vars => SaveAppendsTheNew'
<1> SUFFICES ASSUME StoreInv, SaveAppendsTheNew, [Next]_vars, saving'
             PROVE  /\ Log' = start' \o NewIn(start', SubSeq(batch', 1, pos' - 1))
                    /\ fresh' = Range(Log') \ Range(start')
  BY DEF SaveAppendsTheNew
<1>1. /\ TypeOK /\ ~torn /\ CallInv /\ MemoryMirrorsLog
      /\ file \in Seq(Records) /\ Log \in Seq(Records) /\ start \in Seq(Records)
  BY LogTypes DEF StoreInv, TypeOK
<1>2. ASSUME NEW b \in Batches, SaveBegin(b)
      PROVE  /\ Log' = start' \o NewIn(start', SubSeq(batch', 1, pos' - 1))
             /\ fresh' = Range(Log') \ Range(start')
  <2>1. b \in Seq(Records)
    BY SeqMonotonic, StoreAssumption DEF Records
  <2>2. NewIn(file, SubSeq(b, 1, 0)) = <<>> /\ file \o <<>> = file
    BY <1>1, <2>1, NewInSteps, ConcatEmptySeq
  <2>3. /\ start' = file /\ Log' = file \o <<>> /\ batch' = b /\ pos' = 1
        /\ fresh' = {}
    BY <1>2 DEF SaveBegin, Log, disk
  <2>4. pos' - 1 = 0
    BY <2>3
  <2>5. QED
    BY <2>2, <2>3, <2>4
<1>3. ASSUME SkipKnown \/ WriteHeader
      PROVE  /\ Log' = start' \o NewIn(start', SubSeq(batch', 1, pos' - 1))
             /\ fresh' = Range(Log') \ Range(start')
  <2> DEFINE h    == batch[pos]
             new  == NewIn(start, SubSeq(batch, 1, pos - 1))
             next == NewIn(start, SubSeq(batch, 1, pos))
  <2>1. /\ saving /\ More /\ up /\ cache = Range(Log)
        /\ start' = start /\ batch' = batch /\ pos' = pos + 1
    BY <1>1, <1>3 DEF SkipKnown, WriteHeader, CallInv, MemoryMirrorsLog
  <2>2. Log = start \o new /\ fresh = Range(Log) \ Range(start)
    BY <2>1 DEF SaveAppendsTheNew
  <2>3. /\ new \in Seq(Records) /\ h \in Records
        /\ Range(Log) = Range(start) \cup Range(new)
        /\ next = WithNew(start, new, h)
    BY <2>1, TurnOfTheLoop
  <2>4. pos' - 1 = pos
    BY <1>1, <2>1 DEF TypeOK
  <2>5. NewIn(start', SubSeq(batch', 1, pos' - 1)) = next
    BY <2>1, <2>4
  <2> HIDE DEF h, new, next
  <2>6. CASE SkipKnown
    <3>1. h \in Range(Log) /\ Log' = Log /\ fresh' = fresh
      BY <2>1, <2>6 DEF SkipKnown, Known, Log, disk, h
    <3>2. next = new
      BY <2>3, <3>1 DEF WithNew
    <3>3. QED
      BY <2>1, <2>2, <2>5, <3>1, <3>2
  <2>7. CASE WriteHeader
    <3>1. Log' = Append(Log, h) /\ h \notin Range(Log) /\ fresh' = fresh \cup {h}
      BY <1>1, <2>1, <2>7, WriteAppends DEF WriteHeader, Known, h
    <3>2. next = Append(new, h)
      BY <2>3, <3>1 DEF WithNew
    <3>3. <<h>> \in Seq(Records)
      BY <2>3
    <3>4. Append(new, h) = new \o <<h>> /\ Append(Log, h) = Log \o <<h>>
      BY <1>1, <2>3, AppendIsConcat
    <3>5. (start \o new) \o <<h>> = start \o (new \o <<h>>)
      BY <1>1, <2>3, <3>3, ConcatAssociative
    <3>6. Log' = start \o next
      BY <2>2, <3>1, <3>2, <3>4, <3>5
    <3>7. Range(Log') = Range(Log) \cup {h}
      BY <1>1, <2>3, <3>1, ReadAppended
    <3>8. QED
      BY <2>1, <2>2, <2>3, <2>5, <3>1, <3>6, <3>7
  <2>8. QED
    BY <1>3, <2>6, <2>7
<1>4. CASE UNCHANGED vars
  BY <1>4 DEF vars, call, disk, Log, SaveAppendsTheNew
<1>5. ~Load
  BY <1>1 DEF Load, call, CallInv
<1>6. ~RejectHeader /\ ~SaveEnd /\ ~Crash
  BY DEF RejectHeader, SaveEnd, Crash, Return
<1>7. ~LoadFails /\ ~WriteFails
  BY DEF LoadFails, WriteFails, NoFaults
<1>8. QED
  BY <1>2, <1>3, <1>4, <1>5, <1>6, <1>7 DEF Next

\* While no read or write fails, a save in progress has appended the new
\* headers of the part of the batch it has gone through, in order, each once:
\* HeaderSync may take a whole save as one step.
THEOREM StoreSaveAppends == NoFaults => (Spec => []SaveAppendsTheNew)
<1> SUFFICES ASSUME NoFaults PROVE Spec => []SaveAppendsTheNew
  OBVIOUS
<1>1. Init => SaveAppendsTheNew
  BY DEF Init, SaveAppendsTheNew
<1>2. StoreInv /\ SaveAppendsTheNew /\ [Next]_vars => SaveAppendsTheNew'
  BY AppendsStep
<1>3. Spec => []StoreInv
  BY StoreInvariant
<1>4. QED
  BY <1>1, <1>2, <1>3, PTL DEF Spec

\* The sound part of a batch is determined by where it ends.
LEMMA SoundIs ==
    ASSUME NEW b, NEW n \in 0 .. Len(b), Len(b) \in Nat,
           \A j \in 1 .. n : b[j] \in ValidPoW,
           n < Len(b) => b[n + 1] \notin ValidPoW
    PROVE  Sound(b) = n
<1> DEFINE Is(m) == /\ \A j \in 1 .. m : b[j] \in ValidPoW
                    /\ m < Len(b) => b[m + 1] \notin ValidPoW
<1>1. Sound(b) = CHOOSE m \in 0 .. Len(b) : Is(m)
  BY Zenon DEF Sound
<1>2. Is(n)
  OBVIOUS
<1>3. ASSUME NEW m \in 0 .. Len(b), Is(m)
      PROVE  m = n
  <2>1. ~(m < n)
    <3> SUFFICES ASSUME m < n PROVE FALSE
      OBVIOUS
    <3>1. m + 1 \in 1 .. n /\ m < Len(b)
      OBVIOUS
    <3>2. QED
      BY <1>3, <3>1
  <2>2. ~(n < m)
    <3> SUFFICES ASSUME n < m PROVE FALSE
      OBVIOUS
    <3>1. n + 1 \in 1 .. m /\ n < Len(b)
      OBVIOUS
    <3>2. QED
      BY <1>3, <3>1
  <2>3. QED
    BY <2>1, <2>2
<1> HIDE DEF Is
<1>4. QED
  BY <1>1, <1>2, <1>3

\* A save that returns has gone through the sound part of its batch.
LEMMA ReturnStep ==
    ASSUME NoFaults, StoreInv, SaveAppendsTheNew, WorkEverywhere, [Next]_vars,
           saving, ~saving', up'
    PROVE  file' = start \o NewIn(start, SubSeq(batch, 1, Sound(batch)))
<1>1. TypeOK /\ CallInv /\ ~torn
  BY DEF StoreInv
<1>2. batch \in Seq(Headers) /\ Len(batch) \in Nat /\ pos \in 1 .. Len(batch) + 1
  BY <1>1, LenProperties DEF TypeOK
<1>3. RejectHeader \/ SaveEnd
  BY <1>1 DEF Next, NoFaults, Load, LoadFails, SaveBegin, SkipKnown, WriteHeader, WriteFails, Crash,
              vars, call, CallInv
<1>4. file' = Log
  BY <1>1, <1>3, FlushStores DEF RejectHeader, SaveEnd
<1>5. Sound(batch) = pos - 1
  <2>1. pos - 1 \in 0 .. Len(batch)
    BY <1>2
  <2>2. \A j \in 1 .. pos - 1 : batch[j] \in ValidPoW
    BY <1>1 DEF CallInv, WorkEverywhere
  <2>3. ASSUME pos - 1 < Len(batch)
        PROVE  batch[(pos - 1) + 1] \notin ValidPoW
    <3>1. pos <= Len(batch) /\ (pos - 1) + 1 = pos
      BY <1>2, <2>3
    <3>2. ~VerifyHeader(batch[pos])
      BY <1>3, <3>1 DEF RejectHeader, SaveEnd, DropDue, More
    <3>3. QED
      BY <3>1, <3>2 DEF VerifyHeader, PrevHeader
  <2>4. QED
    BY <1>2, <2>1, <2>2, <2>3, SoundIs
<1>6. QED
  BY <1>4, <1>5 DEF SaveAppendsTheNew

\* While no read or write fails, every save that returns, Ok or not, leaves in
\* headers.dat what was there and the new headers of the sound part of its
\* batch (the flush at 114 and the drop of the writer on the return at 102).
THEOREM StoreKeepsTheSoundPart == NoFaults => (Spec => SaveKeepsTheSoundPart)
<1> SUFFICES ASSUME NoFaults PROVE Spec => SaveKeepsTheSoundPart
  OBVIOUS
<1>1. StoreInv /\ SaveAppendsTheNew /\ WorkEverywhere /\ [Next]_vars
          => [saving /\ ~saving' /\ up' =>
                 file' = start \o NewIn(start, SubSeq(batch, 1, Sound(batch)))]_vars
  BY ReturnStep
<1>2. Spec => []StoreInv /\ []SaveAppendsTheNew /\ []WorkEverywhere
  <2>1. ~TornWrites
    BY DEF NoFaults
  <2>2. QED
    BY <2>1, StoreInvariant, StoreSaveAppends, StoreWorkEverywhere
<1>3. QED
  BY <1>1, <1>2, PTL DEF Spec, SaveKeepsTheSoundPart

---------------------------------------------------------------------------
\* The store implements HeaderLog.

\* A kill keeps a prefix of the log, no shorter than what was on disk.
LEMMA CrashCutsBack ==
    ASSUME StoreInv, NoFaults, Crash
    PROVE  /\ Len(file') \in Len(file) .. Len(Log)
           /\ file' = SubSeq(Log, 1, Len(file'))
<1>1. /\ TypeOK /\ ~torn /\ ~TornWrites
      /\ Len(buf) \in Nat /\ Len(file) \in Nat
  BY LenProperties DEF StoreInv, NoFaults, TypeOK
<1>2. /\ file \in Seq(Records) /\ buf \in Seq(Records) /\ Log \in Seq(Records)
  BY <1>1, LogTypes
<1>3. PICK k \in 0 .. Len(buf) : file' = file \o SubSeq(buf, 1, k)
  <2>1. CASE file' = file
    <3>1. SubSeq(buf, 1, 0) = <<>> /\ file \o <<>> = file
      BY <1>2, SubSeqEmpty, ConcatEmptySeq
    <3>2. 0 \in 0 .. Len(buf)
      BY <1>1
    <3>3. QED
      BY <2>1, <3>1, <3>2
  <2>2. CASE \E k \in 0 .. Len(buf) : PartialFlush(k)
    BY <1>1, <2>2 DEF PartialFlush, OnDisk
  <2>3. QED
    BY <2>1, <2>2 DEF Crash, disk
<1>4. /\ file' \in Seq(Records)
      /\ Len(file') = Len(file) + k
      /\ \A i \in 1 .. Len(file) + k : file'[i] = Log[i]
  BY <1>2, <1>3, ReadPrefix DEF Log
<1>5. Len(Log) = Len(file) + Len(buf)
  BY <1>2, ConcatProperties DEF Log
<1>6. Len(file') \in 0 .. Len(Log) /\ Len(file') \in Len(file) .. Len(Log)
  BY <1>1, <1>4, <1>5
<1>7. /\ SubSeq(Log, 1, Len(file')) \in Seq(Records)
      /\ Len(SubSeq(Log, 1, Len(file'))) = Len(file')
      /\ \A i \in 1 .. Len(file') : SubSeq(Log, 1, Len(file'))[i] = Log[i]
  BY <1>2, <1>6, PrefixOfSeq
<1>8. file' = SubSeq(Log, 1, Len(file'))
  BY <1>4, <1>7, SeqEqual
<1>9. QED
  BY <1>6, <1>8

\* The store starts where HeaderLog starts.
LEMMA RefineInit == Init => Abstract!Init
<1> SUFFICES ASSUME Init PROVE Abstract!Init
  OBVIOUS
<1>1. ~up /\ file = <<>> /\ Len(<<>>) = 0
  BY EmptySeq DEF Init
<1>2. QED
  BY <1>1 DEF Abstract!Init, Abstract!View, Abstract!Tip, Abstract!Range, Range, View, Tip

\* Every step of the store is a step of HeaderLog or leaves its variables alone.
LEMMA RefineStep ==
    ASSUME NoFaults
    PROVE  StoreInv /\ StoreInv' /\ [Next]_vars => [Abstract!Next]_(Abstract!vars)
<1> SUFFICES ASSUME StoreInv, StoreInv', [Next]_vars
             PROVE  Abstract!Next \/ UNCHANGED Abstract!vars
  BY DEF Abstract!vars
<1> DEFINE log  == IF up THEN Log ELSE file
           view == IF up THEN [known |-> cache, tip |-> best, count |-> height]
                         ELSE View(file)
<1>1. /\ TypeOK /\ ~torn /\ CallInv /\ MemoryMirrorsLog /\ MemoryMirrorsLog'
      /\ file \in Seq(Records) /\ buf \in Seq(Records) /\ Log \in Seq(Records)
  BY LogTypes DEF StoreInv
<1>2. file \o <<>> = file /\ Len(file) \in Nat /\ Len(buf) \in Nat
  BY <1>1, ConcatEmptySeq, LenProperties
<1>3. Len(Log) = Len(file) + Len(buf)
  BY <1>1, ConcatProperties DEF Log
\* Whatever a step does, the view it leaves is the view of the log it leaves.
<1>4. view' = Abstract!View(log')
  BY <1>1 DEF MemoryMirrorsLog, Abstract!View, Abstract!Tip, Abstract!Range, Range, View, Tip
<1>5. view = Abstract!View(log)
  BY <1>1 DEF MemoryMirrorsLog, Abstract!View, Abstract!Tip, Abstract!Range, Range, View, Tip
<1>6. ASSUME log' = log, file' = file
      PROVE  UNCHANGED Abstract!vars
  <2>1. view' = view
    BY <1>4, <1>5, <1>6
  <2>2. QED
    BY <1>6, <2>1 DEF Abstract!vars
<1>7. ASSUME log = Log, log' = Log, file' = Log
      PROVE  Abstract!Sync
  <2>1. view' = view
    BY <1>4, <1>5, <1>7
  <2>2. Len(file') = Len(log)
    BY <1>7
  <2>3. QED
    BY <1>7, <2>1, <2>2 DEF Abstract!Sync
<1> USE DEF past, disk
<1>8. CASE Load
  <2>1. Log = file /\ Log' = Log /\ ~up /\ up' /\ file' = file
    BY <1>1, <1>2, <1>8 DEF Load, CallInv, Log, call
  <2>2. QED
    BY <1>6, <2>1
<1>9. ASSUME NEW b \in Batches, SaveBegin(b)
      PROVE  UNCHANGED Abstract!vars
  <2>1. Log' = Log /\ up' = up /\ file' = file
    BY <1>1, <1>9 DEF SaveBegin, CallInv, Log
  <2>2. QED
    BY <1>6, <2>1
<1>10. CASE SkipKnown
  <2>1. Log' = Log /\ up' = up /\ file' = file
    BY <1>10 DEF SkipKnown, Log
  <2>2. QED
    BY <1>6, <2>1
<1>11. CASE WriteHeader
  <2>1. /\ Log' = Append(Log, batch[pos]) /\ batch[pos] \in Records
        /\ file' \in {file, Log}
    BY <1>1, <1>11, WriteAppends
  <2>2. up /\ up' = up /\ batch[pos] \in ValidPoW /\ batch[pos] \notin cache
    BY <1>1, <1>11 DEF WriteHeader, CallInv, VerifyHeader, Known
  <2>3. batch[pos] \notin Range(log) /\ log' = Append(log, batch[pos])
    BY <1>1, <2>1, <2>2 DEF MemoryMirrorsLog
  <2>4. Len(file') \in Len(file) .. Len(log)
    BY <1>2, <1>3, <2>1, <2>2
  <2>5. Abstract!Accept(batch[pos])
    BY <1>4, <2>3, <2>4 DEF Abstract!Accept, Abstract!Range, Range
  <2>6. QED
    BY <2>2, <2>5 DEF Abstract!Next
<1>12. CASE RejectHeader
  <2>1. file' = Log /\ Log' = Log /\ up /\ up' = up
    BY <1>1, <1>12, FlushStores DEF RejectHeader, CallInv
  <2>2. QED
    BY <1>7, <2>1 DEF Abstract!Next
<1>13. CASE SaveEnd
  <2>1. file' = Log /\ Log' = Log /\ up /\ up' = up
    BY <1>1, <1>13, FlushStores DEF SaveEnd, CallInv
  <2>2. QED
    BY <1>7, <2>1 DEF Abstract!Next
<1>14. CASE Crash
  <2>1. /\ Len(file') \in Len(file) .. Len(Log)
        /\ file' = SubSeq(Log, 1, Len(file'))
    BY <1>14, CrashCutsBack
  <2>2. log = Log /\ log' = file'
    BY <1>14 DEF Crash
  <2>3. Abstract!Crash
    BY <1>4, <2>1, <2>2 DEF Abstract!Crash
  <2>4. QED
    BY <2>3 DEF Abstract!Next
<1>15. CASE UNCHANGED vars
  <2>1. Log' = Log /\ up' = up /\ file' = file
    BY <1>15 DEF vars, Log, call
  <2>2. QED
    BY <1>6, <2>1
<1>16. ~LoadFails /\ ~WriteFails
  BY DEF LoadFails, WriteFails, NoFaults
<1>17. QED
  BY <1>8, <1>9, <1>10, <1>11, <1>12, <1>13, <1>14, <1>15, <1>16 DEF Next

\* While no read or write fails, the store keeps the promise of HeaderLog.
THEOREM StoreImplementsLog == NoFaults => (Spec => RefinesHeaderLog)
<1> SUFFICES ASSUME NoFaults PROVE Spec => RefinesHeaderLog
  OBVIOUS
<1>1. StoreInv /\ StoreInv' /\ [Next]_vars => [Abstract!Next]_(Abstract!vars)
  BY RefineStep
<1>2. QED
  BY RefineInit, <1>1, StoreInvariant, PTL DEF Spec, RefinesHeaderLog, Abstract!Spec
====
