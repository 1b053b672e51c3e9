---- MODULE PeerPool ----
(***************************************************************************)
(* The pool of connections and the Sync Node role: the slot tasks that main *)
(* spawns, handle_connection, handle_peer_actions and SyncNodeGuard of       *)
(* node/src/main.rs.  The slots run in parallel; each atomic operation on    *)
(* has_sync_node, and each await, is a step of its own.  What is saved and   *)
(* requested is the subject of HeaderSync; here a save or a request is a     *)
(* step that may succeed or fail.                                            *)
(***************************************************************************)
EXTENDS Integers

CONSTANTS
    Slots,   \* the tasks 0 .. pool_size - 1
    Pool,    \* the number of addresses discovery found, peer_pool.len()
    Kind,    \* how the peer behind each address behaves, see Kinds
    Nobody   \* the owner of a free role

\* An honest peer accepts connections and answers; a dead one is never
\* reached; a silent one accepts and then says nothing.  Any connection may
\* break at any time.
Kinds == {"honest", "dead", "silent"}

ASSUME PoolAssumption ==
    /\ Pool \in Nat \ {0}     \* main returns when discovery finds nobody
    /\ Kind \in [0 .. Pool - 1 -> Kinds]
    /\ Nobody \notin Slots

Address == 0 .. Pool - 1
NoAddress == Pool             \* the empty address text of a dropped guard

VARIABLES
    peer_index,     \* shared counter, modulo the pool's size
    has_sync_node,  \* shared flag
    pc,             \* where each slot's task is
    target,         \* the address it took
    is_sync_node,   \* the field of its guard; FALSE while it has none
    greeted,        \* history: its peer has sent a verack on this connection
    peers           \* APP_STATE.peers: the address and status shown

vars == <<peer_index, has_sync_node, pc, target, is_sync_node, greeted, peers>>

Status == {"connecting", "connected", "sync", "standby", "disconnected"}

PCs == {"pick",     \* about to take the next address
        "connect",  \* in TcpStream::connect, under its 5 s timeout
        "open",     \* connected, sending the version message, no guard yet
        "read",     \* guard made, in the read loop
        "save",     \* awaiting save_new_headers on the blocking pool
        "claimed",  \* swap returned false, is_sync_node not yet set
        "request",  \* sending getheaders
        "drop",     \* leaving handle_connection, guard not yet dropped
        "dropped",  \* the flag is given back, the status not yet shown
        "close"}    \* connection gone, then the 5 s sleep

TypeOK ==
    /\ peer_index \in Address
    /\ has_sync_node \in BOOLEAN
    /\ pc \in [Slots -> PCs]
    /\ target \in [Slots -> Address]
    /\ is_sync_node \in [Slots -> BOOLEAN]
    /\ greeted \in [Slots -> BOOLEAN]
    /\ peers \in [Slots -> (Address \cup {NoAddress}) \X Status]

Init ==
    /\ peer_index = 0
    /\ has_sync_node = FALSE
    /\ pc = [s \in Slots |-> "pick"]
    /\ target = [s \in Slots |-> 0]
    /\ is_sync_node = [s \in Slots |-> FALSE]
    /\ greeted = [s \in Slots |-> FALSE]
    /\ peers = [s \in Slots |-> <<NoAddress, "disconnected">>]

Goto(s, from, to) == pc[s] = from /\ pc' = [pc EXCEPT ![s] = to]

update_peer(s, addr, status) == peers' = [peers EXCEPT ![s] = <<addr, status>>]

---------------------------------------------------------------------------
\* The slot's loop in main.

\* Mutant: the counter is used without the modulo.
PickPastEnd(s) ==
    /\ Goto(s, "pick", "connect")
    /\ target' = [target EXCEPT ![s] = peer_index % Pool]
    /\ peer_index' = IF peer_index < Pool THEN peer_index + 1 ELSE 0
    /\ update_peer(s, peer_index, "connecting")
    /\ UNCHANGED <<has_sync_node, is_sync_node, greeted>>

\* Mutant: the counter is read and not advanced.
PickSame(s) ==
    /\ Goto(s, "pick", "connect")
    /\ target' = [target EXCEPT ![s] = peer_index]
    /\ update_peer(s, peer_index, "connecting")
    /\ UNCHANGED <<peer_index, has_sync_node, is_sync_node, greeted>>

Pick(s) ==
    /\ Goto(s, "pick", "connect")
    /\ target' = [target EXCEPT ![s] = peer_index]
    /\ peer_index' = (peer_index + 1) % Pool
    /\ update_peer(s, peer_index, "connecting")
    /\ UNCHANGED <<has_sync_node, is_sync_node, greeted>>

Connected(s) ==
    /\ Kind[target[s]] # "dead"
    /\ Goto(s, "connect", "open")
    /\ update_peer(s, target[s], "connected")
    /\ UNCHANGED <<peer_index, has_sync_node, target, is_sync_node, greeted>>

\* Refused, unreachable, or five seconds have passed.
ConnectFails(s) ==
    /\ Goto(s, "connect", "close")
    /\ UNCHANGED <<peer_index, has_sync_node, target, is_sync_node, greeted, peers>>

\* The status after handle_connection or a failed connect, then the sleep.
Close(s) ==
    /\ Goto(s, "close", "pick")
    /\ update_peer(s, target[s], "disconnected")
    /\ UNCHANGED <<peer_index, has_sync_node, target, is_sync_node, greeted>>

---------------------------------------------------------------------------
\* handle_connection and handle_peer_actions.

SendVersion(s) ==
    /\ Goto(s, "open", "read")
    /\ greeted' = [greeted EXCEPT ![s] = FALSE]
    /\ UNCHANGED <<peer_index, has_sync_node, target, is_sync_node, peers>>

\* The write fails before the guard exists: nothing is given back.
SendVersionFails(s) ==
    /\ Goto(s, "open", "close")
    /\ UNCHANGED <<peer_index, has_sync_node, target, is_sync_node, greeted, peers>>

Speaks(s) == pc[s] = "read" /\ Kind[target[s]] = "honest"

Greet(s) == greeted' = [greeted EXCEPT ![s] = TRUE]

\* Mutant: a store where the code has a swap.
ClaimAnyway(s) ==
    /\ Speaks(s)
    /\ has_sync_node' = TRUE
    /\ Goto(s, "read", "claimed")
    /\ Greet(s)
    /\ UNCHANGED <<peer_index, target, is_sync_node, peers>>

\* A verack, the first of the connection or a further one: the swap.
ClaimRole(s) ==
    /\ Speaks(s)
    /\ ~has_sync_node
    /\ has_sync_node' = TRUE
    /\ Goto(s, "read", "claimed")
    /\ Greet(s)
    /\ UNCHANGED <<peer_index, target, is_sync_node, peers>>

StandBy(s) ==
    /\ Speaks(s)
    /\ has_sync_node
    /\ Greet(s)
    /\ IF is_sync_node[s] THEN UNCHANGED peers ELSE update_peer(s, target[s], "standby")
    /\ UNCHANGED <<peer_index, has_sync_node, pc, target, is_sync_node>>

TakeRole(s) ==
    /\ Goto(s, "claimed", "request")
    /\ is_sync_node' = [is_sync_node EXCEPT ![s] = TRUE]
    /\ update_peer(s, target[s], "sync")
    /\ UNCHANGED <<peer_index, has_sync_node, target, greeted>>

RequestHeaders(s) ==
    /\ Goto(s, "request", "read")
    /\ UNCHANGED <<peer_index, has_sync_node, target, is_sync_node, greeted, peers>>

\* A headers message: save_new_headers runs on another thread.
HeadersArrive(s) ==
    /\ Speaks(s)
    /\ Goto(s, "read", "save")
    /\ UNCHANGED <<peer_index, has_sync_node, target, is_sync_node, greeted, peers>>

\* Mutant: every connection asks for more after a full batch.
SavedAsksAlways(s) ==
    /\ Goto(s, "save", "read") \/ Goto(s, "save", "request")
    /\ UNCHANGED <<peer_index, has_sync_node, target, is_sync_node, greeted, peers>>

\* Saved.  After a full batch with something new in it the sync node sleeps
\* 50 ms and asks for more; every other connection goes back to reading.
Saved(s) ==
    /\ \/ Goto(s, "save", "read")
       \/ is_sync_node[s] /\ Goto(s, "save", "request")
    /\ UNCHANGED <<peer_index, has_sync_node, target, is_sync_node, greeted, peers>>

\* The peer closes, or a read fails, or a reply, a request or a save returns
\* an error that `?` hands up; the guard is then dropped.
Breaks(s) ==
    /\ \/ Goto(s, "read", "drop")
       \/ Goto(s, "save", "drop")
       \/ Goto(s, "request", "drop")
    /\ UNCHANGED <<peer_index, has_sync_node, target, is_sync_node, greeted, peers>>

\* Mutant: the flag is not given back.
DropKeepsFlag(s) ==
    /\ Goto(s, "drop", "dropped")
    /\ UNCHANGED <<peer_index, has_sync_node, target, is_sync_node, greeted, peers>>

\* Mutant: the flag is cleared by every guard.
DropClearsFlag(s) ==
    /\ Goto(s, "drop", "dropped")
    /\ has_sync_node' = FALSE
    /\ UNCHANGED <<peer_index, target, is_sync_node, greeted, peers>>

\* SyncNodeGuard::drop, first the flag, then the status.
DropRole(s) ==
    /\ Goto(s, "drop", "dropped")
    /\ has_sync_node' = IF is_sync_node[s] THEN FALSE ELSE has_sync_node
    /\ UNCHANGED <<peer_index, target, is_sync_node, greeted, peers>>

\* Mutant: the status is left as it was.
DropKeepsStatus(s) ==
    /\ Goto(s, "dropped", "close")
    /\ is_sync_node' = [is_sync_node EXCEPT ![s] = FALSE]
    /\ UNCHANGED <<peer_index, has_sync_node, target, greeted, peers>>

DropStatus(s) ==
    /\ Goto(s, "dropped", "close")
    /\ is_sync_node' = [is_sync_node EXCEPT ![s] = FALSE]
    /\ update_peer(s, NoAddress, "disconnected")
    /\ UNCHANGED <<peer_index, has_sync_node, target, greeted>>

SlotStep(s) ==
    \/ Pick(s)
    \/ Connected(s)
    \/ ConnectFails(s)
    \/ Close(s)
    \/ SendVersion(s)
    \/ SendVersionFails(s)
    \/ ClaimRole(s)
    \/ StandBy(s)
    \/ TakeRole(s)
    \/ RequestHeaders(s)
    \/ HeadersArrive(s)
    \/ Saved(s)
    \/ Breaks(s)
    \/ DropRole(s)
    \/ DropStatus(s)

Next == \E s \in Slots : SlotStep(s)

Spec == Init /\ [][Next]_vars

---------------------------------------------------------------------------
\* Fairness.  A task that is not waiting for its peer is run by the executor,
\* and the connect timeout ends every attempt; that is all the code ensures.
Scheduled(s) ==
    WF_vars(Pick(s) \/ Connected(s) \/ ConnectFails(s) \/ Close(s)
            \/ SendVersion(s) \/ SendVersionFails(s) \/ TakeRole(s)
            \/ RequestHeaders(s) \/ Saved(s) \/ DropRole(s) \/ DropStatus(s)
            \/ (pc[s] # "read" /\ Breaks(s)))

\* The environment: of ever repeated attempts to connect to honest peers, to
\* send them the version message and to hear their verack, one succeeds.
\* A second verack on a connection may come, but nobody can rely on it.
HonestConnect(s) == Kind[target[s]] = "honest" /\ Connected(s)
HonestOpen(s)    == Kind[target[s]] = "honest" /\ SendVersion(s)
FirstVerack(s)   == ~greeted[s] /\ (ClaimRole(s) \/ StandBy(s))

HonestAnswers(s) ==
    /\ SF_vars(HonestConnect(s))
    /\ SF_vars(HonestOpen(s))
    /\ SF_vars(FirstVerack(s))

FairSpec == Spec /\ \A s \in Slots : Scheduled(s) /\ HonestAnswers(s)

---------------------------------------------------------------------------
\* Properties.

\* Between the swap that succeeded and the store of the drop, a slot owns
\* the role.
Owns(s) == pc[s] = "claimed" \/ (is_sync_node[s] /\ pc[s] # "dropped")

\* Only one peer of the pool is the active Sync Node, in every interleaving
\* of swaps, errors and drops.
OneSyncNode == \A s, t \in Slots : Owns(s) /\ Owns(t) => s = t

\* The role is never lost: the flag is set exactly while some slot owns it,
\* whichever early return ends the connection.
RoleNeverLeaks == has_sync_node <=> \E s \in Slots : Owns(s)

\* A getheaders is sent by the owner of the role only, and nobody shares it.
OnlyOwnerRequests ==
    \A s \in Slots : pc[s] = "request" =>
        Owns(s) /\ \A t \in Slots \ {s} : ~Owns(t)

\* The dashboard never shows a sync node that is not one: a slot with the
\* crown owns the role, or is between the two halves of its guard's drop.
CrownIsHonest ==
    \A s \in Slots : peers[s][2] = "sync" => is_sync_node[s]

\* Seen as its owner alone, the role behaves as SyncRole says: the swap, the
\* two halves of the guard's drop and every early return together never hand
\* it over without freeing it, and never to a slot while another has it.
owner == IF \E s \in Slots : Owns(s) THEN CHOOSE s \in Slots : Owns(s) ELSE Nobody

Promise == INSTANCE SyncRole

RefinesSyncRole == Promise!Spec

\* Nothing bounds the wait of the read loop for a silent peer, and a standby
\* slot whose peer has sent its verack does not try for the role again.
Hangs(s)    == pc[s] = "read" /\ Kind[target[s]] = "silent"
StandsBy(s) == pc[s] = "read" /\ greeted[s]

\* A free role is taken again, although only reconnections lead to it: by the
\* slot that lost it or by any other that gets a first verack.  The one way
\* out is a pool in which every slot that is not standing by already hangs
\* on a silent peer.
RoleIsTaken ==
    ~has_sync_node ~>
        \/ has_sync_node
        \/ /\ \A s \in Slots : Hangs(s) \/ StandsBy(s)
           /\ \E s \in Slots : Hangs(s)
====
