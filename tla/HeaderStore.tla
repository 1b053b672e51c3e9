---- MODULE HeaderStore ----
(***************************************************************************)
(* The header store of the node: CHAIN_STATE in memory and headers.dat on   *)
(* disk, as load_headers and save_new_headers of node/src/protocol.rs keep   *)
(* them.  One save runs at a time (the lock is held from its first line to   *)
(* its last), and one step of a save is one turn of its loop, so that the    *)
(* process may be killed, or a write may fail, between any two of them.      *)
(*                                                                          *)
(* A header is its own hash.  headers.dat is the sequence of the 80-byte     *)
(* records that read_from_disk will find in it: after a write that stopped   *)
(* inside a record every later record is read across a record boundary, and  *)
(* yields a header nobody sent, Misread(h).                                  *)
(***************************************************************************)
EXTENDS HeaderView

CONSTANTS
    Headers,     \* the headers a peer may send
    ValidPoW,    \* those that pass check_proof_of_work
    PrevOf,      \* the prev_block field of each header
    Batches,     \* the header lists a save may be called with
    BufCap,      \* records a BufWriter holds: 102 in 8 KiB
    MaxRecords,  \* bound: headers.dat never grows past this many records
    WriteFaults, \* may a write to headers.dat return an error?
    TornWrites,  \* may a failed or killed write stop inside a record?
    ReadFaults   \* may a read of headers.dat return an error?

ASSUME StoreAssumption ==
    /\ ValidPoW \subseteq Headers
    /\ NoHash \notin Headers
    /\ Batches \subseteq Seq(Headers)
    /\ BufCap \in Nat \ {0}
    /\ MaxRecords \in Nat
    /\ {WriteFaults, TornWrites, ReadFaults} \subseteq BOOLEAN

VARIABLES
    up,       \* the process runs and load_headers has returned
    cache,    \* header_cache, as the set of its keys
    best,     \* best_block_hash
    height,   \* best_block_height
    file,     \* the records of headers.dat
    torn,     \* headers.dat ends with part of a record
    saving,   \* save_new_headers runs, and holds the lock
    batch,    \* its argument
    pos,      \* the next element of batch
    buf,      \* the records in its BufWriter
    fresh,    \* the headers its counter `added` has counted
    acked,    \* history: every header of a batch whose save returned Ok
    start,    \* history: the log when the running save took the lock
    credited  \* history: every header such a save counted as added

memory == <<cache, best, height>>
disk   == <<file, torn>>
call   == <<saving, batch, pos, buf, fresh, start>>
past   == <<acked, credited>>
vars   == <<up, memory, disk, call, past>>

Misread(h) == [misread |-> h]
Records    == Headers \cup {Misread(h) : h \in Headers}

TypeOK ==
    /\ {up, saving, torn} \subseteq BOOLEAN
    /\ cache \subseteq Records
    /\ best \in Records \cup {NoHash}
    /\ height \in Nat
    /\ file \in Seq(Records)
    /\ batch \in Seq(Headers)
    /\ pos \in 1 .. Len(batch) + 1
    /\ buf \in Seq(Headers) /\ Len(buf) <= BufCap
    /\ fresh \subseteq Headers
    /\ start \in Seq(Records)
    /\ acked \subseteq Headers /\ credited \subseteq Headers

Init ==
    /\ up = FALSE
    /\ cache = {} /\ best = NoHash /\ height = 0
    /\ file = <<>> /\ torn = FALSE
    /\ saving = FALSE /\ batch = <<>> /\ pos = 1 /\ buf = <<>> /\ fresh = {}
    /\ start = <<>>
    /\ acked = {} /\ credited = {}

---------------------------------------------------------------------------
\* Reading headers.dat back.  No record is verified on the way in.

\* Mutant: the height is not set after the loop.
LoadUncounted ==
    /\ ~up
    /\ up' = TRUE
    /\ cache' = Range(file) /\ best' = Tip(file)
    /\ UNCHANGED <<height, disk, call, past>>

\* load_headers reaches the end of the file, or the partial record at its end.
Load ==
    /\ ~up
    /\ up' = TRUE
    /\ cache' = Range(file)
    /\ best' = Tip(file)
    /\ height' = Len(file)
    /\ UNCHANGED <<disk, call, past>>

\* Mutant: the cache is cleared on an error, the best hash is forgotten.
LoadFailsHalfCleared ==
    /\ ReadFaults
    /\ ~up
    /\ up' = TRUE
    /\ \E k \in 0 .. Len(file) : best' = Tip(SubSeq(file, 1, k))
    /\ cache' = {} /\ height' = 0
    /\ UNCHANGED <<disk, call, past>>

\* A read fails after k records: they stay in the cache, the height is not
\* set, and main logs the error and goes on.
LoadFails ==
    /\ ReadFaults
    /\ ~up
    /\ up' = TRUE
    /\ \E k \in 0 .. Len(file) :
           /\ cache' = Range(SubSeq(file, 1, k))
           /\ best' = Tip(SubSeq(file, 1, k))
    /\ height' = 0
    /\ UNCHANGED <<disk, call, past>>

---------------------------------------------------------------------------
\* save_new_headers.

\* The parent is looked up under the very hash it is then compared with, so
\* the linkage test can refuse nothing; with no known parent it is skipped.
PrevHeader(h) == {p \in cache : p = PrevOf[h]}

\* Mutant: the linkage alone, without the proof of work.
VerifyLinkage(h) == \A p \in PrevHeader(h) : PrevOf[h] = p

VerifyHeader(h) ==
    /\ h \in ValidPoW
    /\ \A p \in PrevHeader(h) : PrevOf[h] = p

More  == pos <= Len(batch)

\* Mutant: the test against the cache is dropped.
NeverKnown == FALSE

Known == batch[pos] \in cache

\* How the records s are read back if they are written now.
OnDisk(s) == IF torn THEN [i \in DOMAIN s |-> Misread(s[i])] ELSE s

\* The buffer goes to the file: before a record that no longer fits, by the
\* flush after the loop, or by the drop of the BufWriter on an early return.
\* (Mutant SpillLate: the buffer is taken to hold a record more than it does.)
SpillLate == More /\ ~Known /\ VerifyHeader(batch[pos]) /\ Len(buf) = BufCap + 1

SpillDue == More /\ ~Known /\ VerifyHeader(batch[pos]) /\ Len(buf) = BufCap
DropDue  == More /\ ~Known /\ ~VerifyHeader(batch[pos])
FlushDue == saving /\ (SpillDue \/ DropDue \/ ~More)

\* k records of the buffer reach the file, and perhaps a part of the next.
PartialFlush(k) ==
    /\ file' = file \o OnDisk(SubSeq(buf, 1, k))
    /\ torn' \in {torn, torn \/ (TornWrites /\ k < Len(buf))}

Return ==
    /\ saving' = FALSE
    /\ batch' = <<>> /\ pos' = 1 /\ buf' = <<>> /\ fresh' = {} /\ start' = <<>>

\* The lock is taken and the file opened for append (an open that fails
\* returns at once and changes nothing).
SaveBegin(b) ==
    /\ up /\ ~saving
    /\ Len(file) + Len(b) <= MaxRecords
    /\ saving' = TRUE
    /\ batch' = b /\ pos' = 1 /\ buf' = <<>> /\ fresh' = {} /\ start' = file
    /\ UNCHANGED <<up, memory, disk, past>>

SkipKnown ==
    /\ saving /\ More /\ Known
    /\ pos' = pos + 1
    /\ UNCHANGED <<up, memory, disk, saving, batch, buf, fresh, start, past>>

\* Mutant: a record that finds the buffer full is written past it.
WriteThrough ==
    /\ saving /\ More /\ ~Known /\ VerifyHeader(batch[pos])
    /\ IF SpillDue
       THEN file' = file \o OnDisk(<<batch[pos]>>) /\ buf' = buf
       ELSE buf' = Append(buf, batch[pos]) /\ file' = file
    /\ cache' = cache \cup {batch[pos]}
    /\ best' = batch[pos]
    /\ height' = height + 1
    /\ fresh' = fresh \cup {batch[pos]}
    /\ pos' = pos + 1
    /\ UNCHANGED <<up, torn, saving, batch, start, past>>

\* A new header is buffered, then entered into memory.
WriteHeader ==
    /\ saving /\ More /\ ~Known /\ VerifyHeader(batch[pos])
    /\ IF SpillDue
       THEN buf' = <<batch[pos]>> /\ file' = file \o OnDisk(buf)
       ELSE buf' = Append(buf, batch[pos]) /\ file' = file
    /\ cache' = cache \cup {batch[pos]}
    /\ best' = batch[pos]
    /\ height' = height + 1
    /\ fresh' = fresh \cup {batch[pos]}
    /\ pos' = pos + 1
    /\ UNCHANGED <<up, torn, saving, batch, start, past>>

\* Mutant: an early return throws the buffer away.
RejectUnflushed ==
    /\ saving /\ DropDue
    /\ Return
    /\ UNCHANGED <<up, memory, disk, past>>

\* Mutant: an invalid header is skipped, and the loop goes on.
RejectSkips ==
    /\ saving /\ DropDue
    /\ pos' = pos + 1
    /\ UNCHANGED <<up, memory, disk, saving, batch, buf, fresh, start, past>>

\* An invalid header ends the save; what was buffered before it is written
\* by the drop of the writer, and stays in memory.
RejectHeader ==
    /\ saving /\ DropDue
    /\ file' = file \o OnDisk(buf)
    /\ Return
    /\ UNCHANGED <<up, memory, torn, past>>

\* Mutant: no flush after the loop.
SaveEndUnflushed ==
    /\ saving /\ ~More
    /\ acked' = acked \cup Range(batch)
    /\ credited' = credited \cup fresh
    /\ Return
    /\ UNCHANGED <<up, memory, disk>>

SaveEnd ==
    /\ saving /\ ~More
    /\ file' = file \o OnDisk(buf)
    /\ acked' = acked \cup Range(batch)
    /\ credited' = credited \cup fresh
    /\ Return
    /\ UNCHANGED <<up, memory, torn>>

\* Mutant: the error is swallowed and the save returns Ok.
WriteFailsSilently ==
    /\ WriteFaults
    /\ FlushDue
    /\ \E k \in 0 .. Len(buf) : PartialFlush(k)
    /\ credited' = credited \cup fresh
    /\ Return
    /\ UNCHANGED <<up, memory, acked>>

\* A write fails: the caller gets the error, the drop of the writer tries the
\* rest again, and memory keeps every header that was buffered.
WriteFails ==
    /\ WriteFaults
    /\ FlushDue
    /\ \E k \in 0 .. Len(buf) : PartialFlush(k)
    /\ Return
    /\ UNCHANGED <<up, memory, past>>

---------------------------------------------------------------------------
\* The process is killed.  Memory and the unwritten buffer are lost; a flush
\* under way leaves part of the buffer in the file.
Crash ==
    /\ up
    /\ up' = FALSE
    /\ cache' = {} /\ best' = NoHash /\ height' = 0
    /\ \/ UNCHANGED disk
       \/ FlushDue /\ \E k \in 0 .. Len(buf) : PartialFlush(k)
    /\ Return
    /\ UNCHANGED past

Next ==
    \/ Load
    \/ LoadFails
    \/ \E b \in Batches : SaveBegin(b)
    \/ SkipKnown
    \/ WriteHeader
    \/ RejectHeader
    \/ SaveEnd
    \/ WriteFails
    \/ Crash

Spec == Init /\ [][Next]_vars

---------------------------------------------------------------------------
\* Properties that hold while no read or write of headers.dat fails.
NoFaults == ~WriteFaults /\ ~TornWrites /\ ~ReadFaults

\* The records accepted so far: those on disk and those in the buffer.
Log == file \o buf

\* While the process runs, memory is exactly what reading the log would give:
\* the set of its headers, its last one, and their number.  (The three fields
\* are updated one by one at 107-109, after the write at 105.)
MemoryMirrorsLog ==
    IF up THEN cache = Range(Log) /\ best = Tip(Log) /\ height = Len(Log)
          ELSE cache = {} /\ best = NoHash /\ height = 0

\* No header is recorded twice in headers.dat, whatever the batches repeat
\* and wherever the process was killed (the known test at 96 reads memory,
\* the records come from earlier runs).
NoDuplicateRecords == Injective(Log)

\* Whenever no save is under way, a kill and a restart change nothing: the
\* next process loads the very set, tip and height this one has.
RestartResumesExactly ==
    (up /\ ~saving) =>
        /\ Range(file) = cache
        /\ Tip(file) = best
        /\ Len(file) = height

\* Every header of a batch whose save returned Ok is on disk for good, the
\* ones the save skipped as already known included.  So it is while no write
\* fails: after one that did, headers are known that are on no disk.
SavedIsDurable == acked \subseteq Range(file)

\* Half way through a batch the log is what it was when the lock was taken,
\* and after it the new headers of the part done, in order, each once; so a
\* whole save is the one step HeaderSync makes of it.
SaveAppendsTheNew ==
    saving =>
        /\ Log = start \o NewIn(start, SubSeq(batch, 1, pos - 1))
        /\ fresh = Range(Log) \ Range(start)

\* How many headers of a batch come before the first that lacks work.
Sound(b) == CHOOSE n \in 0 .. Len(b) : /\ \A j \in 1 .. n : b[j] \in ValidPoW
                                       /\ n < Len(b) => b[n + 1] \notin ValidPoW

\* Whether a save ends with Ok or at an invalid header (102, where nothing
\* but the drop of the writer flushes), it leaves in headers.dat the records
\* that were there when it took the lock and the new headers of the sound
\* part of its batch: all of them, in order, each once, and none from behind
\* the invalid one.
SaveKeepsTheSoundPart ==
    [][saving /\ ~saving' /\ up' =>
           file' = start \o NewIn(start, SubSeq(batch, 1, Sound(batch)))]_vars

\* The promise of HeaderLog, with the log on disk and in the buffer.
Abstract == INSTANCE HeaderLog WITH
    Valid   <- ValidPoW,
    log     <- IF up THEN Log ELSE file,
    durable <- Len(file),
    view    <- IF up THEN [known |-> cache, tip |-> best, count |-> height]
                     ELSE View(file)

\* The store implements HeaderLog: nothing is accepted twice or unverified,
\* nothing is reordered, and a crash cuts back no more than the buffer.
RefinesHeaderLog == Abstract!Spec

---------------------------------------------------------------------------
\* Properties that survive failed reads and writes.

\* Every header in memory or in headers.dat has the proof of work of its
\* target, although load_headers verifies nothing it reads back.
WorkEverywhere == cache \cup Range(file) \cup Range(buf) \subseteq ValidPoW

\* The locator sent to peers is a header the node has, and the zero hash
\* exactly when it has none, also after a read that failed half way.
BestIsCached == IF cache = {} THEN best = NoHash ELSE best \in cache

\* A header that a save counted in the number it returned is on disk.
CreditedIsDurable == credited \subseteq Range(file)

\* What makes these inductive, as long as no write stops inside a record:
\* the headers counted so far are in the file or in the buffer.
FaultInv ==
    /\ TypeOK
    /\ ~torn
    /\ WorkEverywhere
    /\ BestIsCached
    /\ CreditedIsDurable
    /\ fresh \subseteq Range(Log)

---------------------------------------------------------------------------
\* What the repository says of the program, and the code does not do.

\* README: proof of work is validated for all ingested headers.  The headers
\* load_headers ingests are not validated.
AllIngestedHaveWork == cache \subseteq ValidPoW
====
