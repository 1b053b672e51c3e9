# A verification of the Bitcoin SPV mini-node

TLA+ models of the node (`node`, `primitives`) and of the script engine
(`script-engine`), the TLC runs that check them on small instances, and TLAPS
proofs of all their safety properties for every value of the constants.
`PROJECT.json` lists runs, mutants, hazards, findings, theorems, and for each
definition the source lines it models.

## 1. The system

| component | state | operations | hard part |
|---|---|---|---|
| header store (`node/src/protocol.rs`) | `CHAIN_STATE`: `header_cache`, `best_block_hash`, `best_block_height`; the file `headers.dat`; the `BufWriter` of a running save | `load_headers`, `save_new_headers`, `verify_block_header` | kills and I/O errors between cache update and flush, appends to a file from an earlier run |
| peer pool (`node/src/main.rs`) | `peer_index`, `has_sync_node`, one `SyncNodeGuard` per connection, the peers table of the dashboard | slot loop, `handle_connection`, `TryBecomeSyncNode`, `SyncNodeGuard::drop` | three tasks race for one flag; every `?` is an exit |
| header synchronisation (`main.rs`, `process`) | what is stored, who asks, what is in flight, `target_height` | version, verack, headers, inv handlers, `request_headers`, `get_locator_hash` | handovers, lagging and forked peers, restarts in a batch |
| message stream (`main.rs`, `protocol.rs`) | `pending`, the actions of the message at work | read loop, `from_packet`, `process`, `handle_peer_actions` | TCP cuts the stream anywhere; errors between two actions |
| script engine (`script-engine/src/lib.rs`) | parser position, instructions, main stack | `parse_script`, `execute` | boundaries of four push forms, order of pops |
| payload codecs, PoW arithmetic (`primitives/src/messages.rs`, `codec.rs`) | none | `read`, `write`, `decipher`, `encode_payload`, `check_proof_of_work` | varints of four widths, payloads cut inside an item, two forms of a header, targets out of range |
| transactions (`primitives/src/transaction.rs`) | none | `TxMessage::read`, `encode_legacy`, `signature_hash` | one byte that tells two forms apart, what each hash type leaves open |
| addresses and the client-side filter (`codec.rs`, `main.rs`, `matches_filter`) | `filter_hashes`, set once | `pk_script_to_address`, `decode_base58`, the filter | big-number arithmetic in an estimated buffer, arguments that are skipped |
| dashboard (`node/src/tui.rs`) | two rings of 100 lines, the peers table | `add_log`, `add_tx`, `update_peer`, drawing | none of its own |
| discovery, command line | none | one DNS query at start | none |

**How they interact.** `main` loads the headers, then spawns one task per slot.
A task takes the next address, connects, and feeds the bytes it reads to
`from_packet`; `process` turns a message into actions; `handle_peer_actions`
performs them: replies go back, `SaveHeaders` calls the store on the blocking
pool, `TryBecomeSyncNode` swaps the shared flag, and the sync node alone sends
`getheaders` with the store's best hash as only locator. Shared state is the
flag, the address counter, and two mutexes. The script engine is called by
nothing but its tests.

**What makes each correct.** The store: memory is what the log says, the log has
no repeats, a restart resumes where the last process was, and what was
acknowledged stays. The pool: one sync node, never lost. Synchronisation: the
log stays a chain, one walk at a time, and what is announced is fetched. The
stream: each message once, in order, none left waiting. The engine: scripts are
read as written, and P2PKH admits only the right key. The data: a payload means
to its reader what it meant to its writer or is refused, a signature is good
exactly while what it commits to is unchanged, work is compared as numbers
are, and the addresses the node displays are ones it can track.

## 2. The modules

`Batches` - The new part of a batch (`NewIn`: header by header, each compared
with the log and the new ones before it). `HeaderView` - Tip, count and set of
a log. Three modules share them.

`HeaderLog` - the abstract store: one log of distinct valid headers, a durable
prefix, and the view the node answers from. A crash cuts no deeper than the
prefix.

`HeaderStore` - the concrete store. One action per turn of the loops in
`load_headers` (at once: nothing else runs then) and `save_new_headers`:
`SaveBegin`, `SkipKnown`, `WriteHeader` (with the spill of a full buffer),
`RejectHeader`, `SaveEnd`, `WriteFails`; `Load`, `LoadFails`, `Crash` around
them. The mutex is the variable `saving`: a save holds it from its first line
to its last. A header is its own hash (double SHA-256 is taken to be
injective), and a file is its sequence of 80-byte records; a partial record
(`torn`) turns each later one into `Misread(h)`. Three switches say which
faults the disk may have.

`SyncRole` - the abstract role: free, or one slot's; taken only while free.

`PeerPool` - the slots. `pc` follows the awaits and the atomic operations
between them: `ClaimRole` is the swap, `TakeRole` the assignment after it,
`DropRole` and `DropStatus` the two halves of the guard's drop. Saving and
requesting are steps that may succeed or fail. Its `owner` - the slot between
a successful swap and the store of its guard's drop - implements `SyncRole`
(`RefinesSyncRole`).

`SyncPeers` - the remote peers (external) and the messages: they have a chain,
answer `getheaders` by the protocol's rule, announce new blocks by `inv`.

`HeaderSync` - synchronisation as it should look from outside: the store is
the log of `HeaderLog`, a save and a request are one step each, the role is an
owner.

`SyncSystem` - the composition: the flag and the guard of `PeerPool`, the save
of `HeaderStore` header by header under the lock of `CHAIN_STATE`
(`SaveBegin`, `SaveHeader`, `SaveEnd`), the locator read under that lock and
sent after it is released (`ReadLocator`, `SendRequest`), restarts inside a
save. It implements `HeaderSync` (`RefinesHeaderSync`): while a save holds the
lock its headers are not in the log yet and its message is unread, and a slot
asks from its successful swap, or the end of its save, until it has written.

`MessageStream` - one connection from its bytes. A byte is a cell (frame,
position); TCP delivers any number of them at a time. What is wrong with a
frame is one of three flaws, which `from_packet` answers alike.

`ScriptEngine` - the parser, one action per turn of its loop, and the machine,
one action per kind of instruction. Real byte values; `Hash160` and signature
verification (with the sighash behind it) are parameters. `Init` picks scripts
a writer wrote in chunks and, possibly, bytes lost at their ends; a chunk is any
byte that is not a push, or any data whose length its form can say
(`ScriptAssumption`). The alternate
and the execution stack are left out: no implemented opcode touches them.

`Codec` - readers and writers. A payload is a sequence of cells, a byte or one
field of fixed width; a reader is what is left, the fields read, and whether
it has failed. Varints are exact, over all eight bytes of a `u64`.

`Transactions` - `TxMessage::read`, `encode_legacy`, `signature_hash` over
`Codec`, and a small machine: a wallet signs an input (`Sign`), others change
the transaction, the order of its parts or the script it is checked against
(`Amend`), `Accepted` is what `OP_CHECKSIG` computes. `Bound` is the reference:
the parts each hash type commits to, as a set. A hash is the tuple of what was
hashed.

`Messages` - the payloads of all messages, and a machine for their way: written
whole, continued or cut short (`Write`), deciphered (`Decipher`), an inv
answered by a getdata (`Answer`), headers to disk and back (`Save`,
`LoadHeader`). What `String::from_utf8_lossy` makes of a user agent is a
parameter: the field read is its text, whatever bytes were sent.

`ProofOfWork` - the compact target and the comparison, for any base and width;
the reference is the number the compact form stands for.

`Addresses` - Base58 with the code's own 58, 256 and 733/1000, the addresses of
scripts, the arguments of `main` and the filter. A user types arguments, each an
address the node displays (`GiveShown`) or a text that cannot be used
(`GiveMistake`), starts the node with them (`Start`), and a transaction arrives
(`Receive`). `main` does not verify the checksum of an address, so it is any of
`Sums` here, right or mistyped, and several addresses may share a hash. Left out
are texts of more than 25 bytes and version bytes the node does not display.
The loops of the code are recursive functions over the bytes or
digits they run through. That of `encode_base58` runs until nothing is left of
its payload; `Digits` gives it two rounds for every byte, which the proofs show
to be enough (a round divides the payload by more than 16, and 16 * 16 is 256).

`MC...` modules instantiate these for TLC. An operator marked "Mutant:" is a
variant of the definition below it with a plausible bug; no specification uses
it, and each property is violated when one replaces its original.

## 3. The runs

| run | shows | bounds |
|---|---|---|
| `store_crash` | type correctness, the store's invariants, and that it implements `HeaderLog` | all batches of 1 to 3 out of 4 headers (two branches, one header without work, repeats and disorder), buffer of 2 records so that spills occur within a batch, file up to 7 records, unlimited kills |
| `store_faults` | what survives failed reads and writes | the same, file up to 4 records |
| `store_torn` (violation) | misread records are loaded unverified | one torn write suffices |
| `store_retry` (violation) | an acknowledged batch may be on no disk after a write that failed | one failed flush and the same batch again |
| `pool_role` | mutual exclusion, no leak, only the owner asks, the display is honest, the pool implements `SyncRole`, a free role is taken again | two slots; one dead, one honest and one silent address |
| `sync_chain` | the composition implements `HeaderSync`; the headers in memory are a chain at every moment, one request in flight, what the sync node announced is fetched | two slots, two peers on a chain of 5, one lagging; full replies of 2 headers, so three requests are needed; 3 broken connections, 2 restarts |
| `sync_reorg` (violation) | synchronisation stops after a change of branch | one slot, two branches above the first full reply, one broken connection |
| `stream_sound` | all messages processed once, in order, with their actions | 7 messages, 3 per connection, frames of 2 to 4 bytes, reads of up to 3: reads end in a header, in a payload, at and beyond the end of a frame |
| `stream_wedge` (violation) | nothing behind a refused frame is processed | 2 messages |
| `script_p2pkh` | parsing, truncation and P2PKH | unlocking scripts of up to 3 of 8 chunks, 6 locking scripts, up to 4 bytes cut |
| `data` | payloads read as written or refused, getdata echoes inv, headers survive the disk, what signatures bind, work, tracked addresses | see below |
| `script_clean` (violation) | items may be left on the stack | the scripts of `vm_tests` and one push more |

Why these are enough: the store's actions touch the ends of the file and of the
buffer only, and three headers fill a buffer of two and leave one over; a race
for one flag needs two slots (with three, as in `main`, the liveness part
takes longer than a run should; the safety part and the refinement are proved
for any number); a chain of
five needs a first, a middle and a last reply and a restart within each; frames
may straddle one read border at most twice when three are sent. Where a
property is also proved (section 5) no bound matters.

`data` runs four machines that share nothing, one per behaviour. Payloads: each
message kind, two items where there are items, all pairs of inventory types
(unknown ones included) and of transaction counts at the limits of each varint
width, user agents of 0 to 255 bytes with one that is no UTF-8, transactions with and without witnesses
and with a script long enough for a three-byte length; each payload whole, with
cells after it, and cut at every place. Signatures: three transactions of one
or two inputs and outputs, every input, seven hash types, two changes.
Work: all hashes of four digits in base 3 against all exponents from 0 to one
past the width and all mantissas. Addresses: five hashes that begin, end or
consist of zero bytes or of the greatest ones, three checksums, each kind of
script, every sequence of up to two arguments (none, one or two addresses,
equal or not, and texts that are skipped), and transactions of up to two outputs.

`MaxRecords`, `MaxBreaks`, `MaxCrashes`, `MaxFrames`, `MaxCut`, `MaxAmends` and
`MaxArguments` are the bounds on otherwise unlimited counts, and `MaxData` (65535
bytes in one push) keeps the two high bytes of the four-byte form at 0. Deadlock
is checked except in the `sync_` runs (a synchronised node may wait for ever), the `script_` runs (an evaluation
ends) and `data` (a payload has been read).

**Fairness.** `PeerPool`: a task that is not waiting for its peer is run by the
tokio executor, and the five-second timeout ends each attempt to connect
(weak fairness of those steps together). Of the environment: out of endless
attempts to connect to an honest peer, greet it and hear its verack, one
succeeds (strong fairness). Nothing obliges a connection to break or a peer to
send a second verack. `RoleIsTaken` therefore has one way out, and names it: the
read has no timeout and a standby does not try again, so a pool whose other
slots all hang on silent peers stays without a sync node. `SyncSystem` and
`HeaderSync`: slots reconnect and handle what has arrived, a save that holds
the lock goes on, and connected peers answer; nothing obliges blocks, breaks
or restarts. `MessageStream`: bytes on the wire are read and parsed; nothing
obliges a peer to send.

## 4. What the runs found

- `store_torn`: README line 22 promises proof of work for all ingested headers;
  `load_headers` verifies nothing, which matters once a partial record has
  shifted the later ones.
- `store_retry`: a header enters the cache before it is on disk and stays there
  when the write fails. Peers send it again, the known test skips it, and the
  save returns Ok: nothing in this process writes it any more, and the headers
  that follow it are appended above the gap. README line 24 promises that headers
  are persisted.
- `sync_reorg`: with a single locator on a branch the peer does not have, the
  peer starts over at genesis, the full batch brings nothing new, and the
  node stops asking.
- `stream_wedge`: `None` stands for "not yet" and for "refused" alike, so a
  complete frame that is refused blocks the connection.
- `script_clean`: the engine does not enforce the clean stack rule (nor the
  other limits) its README lists.

Without a run: `best_block_height` is the number of stored headers
(`RestartResumesExactly`), of whatever branch, and is logged as the block at
which the node resumes. With peers on one chain the two agree (`LogIsChain`).

## 5. The proofs

Every theorem holds for all values of the constants that satisfy the assumption
of its module (`StoreAssumption`, `PoolAssumption`, `SyncAssumption`,
`StreamAssumption`, `ScriptAssumption`, `SpendingAssumption`,
`TrafficAssumption`, `WorkAssumption`, `AddressAssumption`: what kind of sets
and numbers they are), which TLC evaluates on every run of that module. A proof
has one lemma or step per action, and PTL joins them in the last step.

**Lemmas.** `SequenceLemmas` holds what several proofs need: concatenation and
cutting, what `FlattenSeq` does to an appended or a first part (from the
recursive function that defines it), and induction over the naturals, by a least
counterexample: a set with 0 and all successors is all of `Nat`. It is stated
for a set, so no operator is instantiated, and serves for what recursive
functions compute. It is used there for `NewIn`: what it computes header by
header (a header more adds that header or nothing), and that what the first
headers of a batch add is the start of what the whole batch adds. The store and
the synchronisation prove their saves, which run header by header and may be cut
short by a restart, with these two facts.

**The store** (`HeaderStoreProofs`):

- `StoreTypeOK`, `StoreBestIsCached`: for every fault switch.
- `StoreWorkEverywhere`, `StoreCreditedIsDurable`: as long as no write stops
  inside a record (`~TornWrites`; `store_torn` shows what happens otherwise).
  The inductive invariant is `FaultInv`: the file is not torn, and the headers
  the running save has counted are in the file or the buffer - the property
  alone says nothing of a save that has not returned yet.
- `StoreInvariant` and, from it, `StoreNoDuplicates`, `StoreRestartResumes`,
  `StoreSavedIsDurable`, `StoreMemoryMirrorsLog`: with a disk that does not fail
  (`NoFaults`; `store_retry` shows what happens otherwise). `StoreInv`, stated in
  the proof module only, is inductive: memory mirrors `file \o buf`; that is what turns the test against the cache into a test against the file, so that
  no duplicates arise; and the part of a batch already gone through is known
  (`CallInv`), which at the end of the save makes the acknowledgement durable.
- `StoreSaveAppends`: what a save that returns Ok has appended and counted is
  `NewIn` of its batch. The invariant adds that, after each header, file and
  buffer are the log from before the save and `NewIn` of the headers so far.
- `StoreKeepsTheSoundPart`: so it is of a save that ends at an invalid header,
  with the headers before that one: the part done is then the part with work,
  and the drop of the writer has flushed it (`ReturnStep`).
- `StoreImplementsLog`: each step maps to a step of `HeaderLog` or a stutter.
  `WriteHeader` is `Accept`, `SaveEnd` and `RejectHeader` are `Sync`, `Crash` is
  `Crash`, the rest stutters; `durable` is the length of the file.

**The pool** (`PeerPoolProofs`), for every number of slots and addresses:
`PoolTypeOK`, and `PoolRoleInvariant`, from which `PoolOneSyncNode`,
`PoolRoleNeverLeaks`, `PoolOnlyOwnerRequests` and `PoolCrownIsHonest` follow.
`RoleInv`, in the proof module, adds to the types and these properties where in
its life a guard can hold the role (`GuardInv`): a dropped guard must not be mistaken for an owner.
`PoolImplementsRole` maps each step to `Acquire`, `GiveBack` or a stutter of
`SyncRole`: with the flag clear before or after a step, `RoleNeverLeaks` says
there is no owner there, and with it set on both sides the owner keeps its
place (`OwnerStays`), which `OneSyncNode` makes the same `CHOOSE`.

**Synchronisation** (`SyncSystemProofs`), for every
number of slots and peers, any chains and any size of a full reply:

- `SyncInvariant`. `SyncInv` has five parts: the types; what each slot holds at
  each place of its task (`Control`); the flag is up exactly while one slot has
  the role or is about to (`RoleHeld`); a request is being made, on its way,
  answered or saved, one of the four at most, and only by that slot
  (`OneRequest`); and where a save stands in its batch (`Halves`). `OneRequest`
  needs all four places at once: a property of what is in flight alone says
  nothing of the request that follows a save.
- `SyncTypeOK` and `SyncOneRequest` follow from it.
- `SyncLogIsChain`: with peers on one chain (`SharedChain`, which TLC evaluates
  in `MCSyncSystem`; `sync_reorg` is what happens otherwise). `ChainInv` says
  that every request asks for what follows the log and that every reply fits
  it: all its headers are known, or it goes on where the log ends. A new owner
  may still find the batch of the old one being saved; `OneRequest` excludes it.
- `SyncImplements`: the refinement of `HeaderSync`. `SaveBegin`, `SaveHeader` and
  `ReadLocator` stutter; `SaveEnd` is the whole save, by the lemma that n
  headers saved one at a time are `NewIn` of them; a restart inside a save is
  the restart of `HeaderSync` that keeps a part of the batch; the successful
  swap takes the role.

**The stream** (`MessageStreamProofs`), for any messages, frame and read sizes:
`StreamInvariant` and from it `StreamTypeOK`, `StreamIntact`,
`StreamNothingLeft` and `StreamActionsInOrder`. The heart of `StreamInv` is an
equation: buffer and wire together are the bytes of the frames sent and not yet
processed. A read moves its border, a parsed frame takes the first of those
frames away on both sides (a concatenation has only one rest after a given
first part), and a message sent is appended on both sides. Whether a frame can
be parsed is then a matter of how many of its bytes the buffer has, and
`from_packet` never sees a border that is not one.

**The script engine** (`ScriptEngineProofs`), for any scripts, any hash function
and any signature scheme:

- `ScriptInvariant`. `ScriptInv` says that the parser stands at the end of a
  chunk and has read exactly the chunks before it (`ReadSoFar`), so that a byte
  of data is never at its position. Behind it are the four forms of a push: each
  is read as its data (`PushBytes`), wherever it stands (`ReadPush`), and when
  bytes are missing, only the last chunk can be short, is a push, and does not
  fit (`CutChunk`). In execution, no invalid opcode is among the instructions
  passed.
- `ScriptParsedAsWritten` and `ScriptTruncatedFails` follow: a script that has
  lost bytes contains the invalid opcode, so it is never executed to its end.
- `ScriptTypeOK` and `ScriptP2PKHOutcome`, under the hypothesis that the hash of
  bytes is bytes (`HashesToBytes`: a fact about RIPEMD-160, which TLC cannot
  evaluate for all byte strings). For the second the invariant (`Paid`) gives
  the stack before each of the five instructions of the script, in terms of the
  stack the unlocking script left.

**Payloads** (`MessagesProofs`), for messages of every size:

- `Reads(x, s, w, v)` is what a reader x of the cells s owes to a text w with
  the fields v: if s starts with w, x has read v and stands behind w; if s ends
  within w, x has failed. `ReadAsWritten` and `ShortPayloadIsRefused` are its
  two halves, and neither can be proved alone: a field read short must be known
  to fail before the field after it is looked at. `Then` joins two readers; the
  varint, the counted fields, the inputs, outputs and witnesses of a transaction
  and each message are composed of it, lists by induction over their items. Of a
  version this says that its user agent is the text `from_utf8_lossy` makes of
  the bytes, for any such function, if its writer gave it the length of one byte
  that the node writes: at most 255 bytes.
- `TrafficInvariant`: the whole way of a payload. A payload is what was
  written, followed by anything, or ends within it (`Short`), is read as `Reads`
  says, and on disk the records are those of the headers not yet loaded. From it
  follow `ReadWhole`, `ShortIsRefused`, `AnnouncedIsAsked` and `DiskKeepsHeaders`.

**Signatures** (`MessagesProofs`), for any transaction: `SignatureBinds`, in both
directions. `encode_legacy` of the signed parts binds them because reading it
back gives them (`LegacyBinds`, from the `Reads` of a transaction), so a hash
type and a hash determine the parts signed, and those determine `Bound`, the
reference set, and are determined by it (`HashBinds`). `SpendingInv` keeps what
was signed beside the transaction as it is now.

**Proof of work** (`NumeralProofs`), for every base and width:
`WorkNumeric`. The order of digits from the greatest one down is the order of the
numbers (`OrderIsNumeric`, by induction over the digits), and the expanded target
is the mantissa times a power of the base if it fits, and 0 if it does not.

**Addresses** (`NumeralProofs`), for all hashes of 20 bytes and any number of
arguments, each a displayed address with any checksum or a text that cannot be
used:

- `RoundTrip`: `decode_base58(encode_base58(data)) = data` for all bytes that are
  not all zero, however many. Every step is read as arithmetic on `Worth(b, s)`,
  the number that the digits `s` stand for in base `b`; without a zero in front a
  number has one such sequence (`WorthUnique`). `DivideIs` says a round of the
  encoder divides by 58 and keeps the rest, so `DigitsIs`: the digits stand for
  the same number and there are enough rounds. `MulAddIs` says a round of the
  decoder multiplies by 58 and adds a digit, as long as the buffer has room, so
  `DecodedIs`. That it has room for texts of any length is `Estimate`:
  733/1000 is more than the logarithm of 58 to the base 256, because
  58^71 <= 256^52 (`FiftyEight`, by squarings and bounds between them) and
  52/71 < 733/1000. `ZerosTrip` is the other case, found on the way: the encoder
  divides a payload of zeros once too, so it comes back one zero longer. This
  does no harm to the filter, which takes bytes 1 to 20.
- `ShownIsTracked`. A text the node shows for P2PKH or P2SH decodes to 25 bytes or
  more with the hash behind the first (`AddressIsUsable`); a P2WPKH text has a
  foreign character. So `TextTracked`: an address adds its hash to the filter,
  and any other text nothing. By `FilterSteps` (an argument more adds to
  `filter_hashes` what it adds by itself) `TrackingInv` is kept while arguments
  are typed: the hashes of the filter are those asked for. `MatchesWanted` and
  `ScriptHolds` (every script holds its hash) turn that into what is logged.

## 6. Only model-checked

- All liveness (`RoleIsTaken`, `AnnouncedAreFetched`, `SoundMessagesAreProcessed`):
  the prover does not reason about fairness.

Every safety invariant and action property of a passing run is proved, and so
are the three refinements.

## 7. Not modelled

- Network parameters (magic bytes, ports, seeds, genesis hashes) and
  `VersionMessage::new`: tables of constants. Framing with `forge_packet`'s
  checksum: in `MessageStream` a frame is sound or has one of three flaws.
- The bytes inside a field of fixed width, what UTF-8 is (`from_utf8_lossy` is
  any function), user agents written with a longer length than the node's own
  byte, and counts of 2^24 items or more.
- ECDSA, and SHA-256 beyond being free of collisions; in `ScriptEngine`
  `Verifies` stays a parameter, in `Transactions` a signature is the hash it
  signs.
- The hex digits of a P2WPKH text, and the number of outputs the dashboard
  shows (three).
- The dashboard's rings and drawing, logging, DNS discovery: no behaviour other
  parts depend on.
- Hash collisions, and a `headers.dat` changed by another program or left by a
  run on another network.
- Blocks found after the node has caught up are modelled (`Mine`,
  `HandleOther`), but the code has no mechanism that would make a property of
  them true: an `inv` never leads to a `getheaders`. Nor does a peer that stays
  silent with the role ever lose it.

## 8. Plan

1. Done: the models and their runs; the proofs of all safety properties and of
   the three refinements.
2. Models: `ScriptEngine` with `Verifies` given by `signature_hash`.
