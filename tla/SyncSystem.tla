---- MODULE SyncSystem ----
(***************************************************************************)
(* The node put together: the role as PeerPool takes it (a swap on the      *)
(* shared flag, a field of the guard), the store as save_new_headers fills   *)
(* it (header by header, under the lock of CHAIN_STATE, flushed at the end), *)
(* and the requests of main.rs, which read the locator under that lock and   *)
(* write to the peer after it is released.  HeaderSync is what it promises:  *)
(* there the role is an owner, a save is one step and a request is one step. *)
(*                                                                          *)
(* The disk does not fail here and headers are valid: both are the subject  *)
(* of HeaderStore.                                                          *)
(***************************************************************************)
EXTENDS SyncPeers

VARIABLES
    log,            \* the headers in memory, in the order of their insertion
    saver,          \* the slot whose save holds the lock, or Nobody
    batch,          \* the headers it was given
    at,             \* which of them is next
    base,           \* how many headers there were when it took the lock
    target_height,
    has_sync_node,  \* the shared flag
    pc,             \* where each slot's task is
    is_sync_node,   \* the field of its guard
    locator,        \* the locator it has read and not yet sent
    conn, inbox, outbox, announced, tip, breaks, crashes    \* as in HeaderSync

store  == <<log, saver, batch, at, base>>
role   == <<has_sync_node, is_sync_node>>
wire   == <<inbox, outbox>>
counts == <<breaks, crashes>>
vars   == <<store, target_height, role, pc, locator, wire, conn, announced, tip, counts>>

PCs == {"closed",    \* not connected
        "read",      \* in the read loop
        "save",      \* awaiting save_new_headers
        "claimed",   \* swap returned false, is_sync_node not yet set
        "request",   \* about to read the locator
        "send"}      \* about to write the getheaders

Saving == saver # Nobody

\* The slots of S after a function f of all slots is set to v for them.
Reset(f, S, v) == [s \in Slots |-> IF s \in S THEN v ELSE f[s]]

\* Mutant: bytes in flight survive into the next connection.
ForgetNotInbox(S) ==
    /\ pc' = Reset(pc, S, "closed")
    /\ is_sync_node' = Reset(is_sync_node, S, FALSE)
    /\ locator' = Reset(locator, S, NoHash)
    /\ conn' = Reset(conn, S, Nobody)
    /\ inbox' = inbox
    /\ outbox' = Reset(outbox, S, <<>>)

\* The connections of S end: the guard, the stream and what is in flight go.
Forget(S) ==
    /\ pc' = Reset(pc, S, "closed")
    /\ is_sync_node' = Reset(is_sync_node, S, FALSE)
    /\ locator' = Reset(locator, S, NoHash)
    /\ conn' = Reset(conn, S, Nobody)
    /\ inbox' = Reset(inbox, S, <<>>)
    /\ outbox' = Reset(outbox, S, <<>>)

Init ==
    /\ log = <<>> /\ saver = Nobody /\ batch = <<>> /\ at = 1 /\ base = 0
    /\ target_height = 0
    /\ has_sync_node = FALSE
    /\ pc = [s \in Slots |-> "closed"]
    /\ is_sync_node = [s \in Slots |-> FALSE]
    /\ locator = [s \in Slots |-> NoHash]
    /\ conn = [s \in Slots |-> Nobody]
    /\ inbox = [s \in Slots |-> <<>>] /\ outbox = [s \in Slots |-> <<>>]
    /\ announced = [s \in Slots |-> 0]
    /\ tip = FirstTip
    /\ breaks = 0 /\ crashes = 0

---------------------------------------------------------------------------
\* What HeaderSync sees of this state.  A save that holds the lock has not
\* happened yet: its headers are not in the log and its message is unread.

Asking(s) == pc[s] \in {"claimed", "request", "send"}

Holders == {s \in Slots : is_sync_node[s] \/ pc[s] = "claimed"}

Unread(s) == (IF s = saver THEN <<HeadersMsg(batch)>> ELSE <<>>)
             \o inbox[s]

Settled == IF Saving THEN SubSeq(log, 1, base) ELSE log

Owner == IF Holders = {} THEN Nobody ELSE CHOOSE s \in Holders : TRUE

HS == INSTANCE HeaderSync WITH
          log    <- Settled,
          owner  <- Owner,
          inbox  <- [s \in Slots |-> Unread(s)],
          asking <- [s \in Slots |-> Asking(s)]

---------------------------------------------------------------------------
\* The peers (external).

Answer(s) ==
    /\ outbox[s] # <<>>
    /\ outbox' = [outbox EXCEPT ![s] = Tail(@)]
    /\ inbox' = [inbox EXCEPT ![s] =
                     Append(@, Reply(conn[s], tip[conn[s]], Head(outbox[s])))]
    /\ UNCHANGED <<store, target_height, role, pc, locator, conn, announced, tip, counts>>

Mine(p) ==
    /\ tip[p] < Len(ChainOf[p])
    /\ tip' = [tip EXCEPT ![p] = @ + 1]
    /\ inbox' = [s \in Slots |-> IF conn[s] = p THEN Append(inbox[s], Inv) ELSE inbox[s]]
    /\ UNCHANGED <<store, target_height, role, pc, locator, outbox, conn, announced, counts>>

---------------------------------------------------------------------------
\* Connections.

Connect(s, p) ==
    /\ pc[s] = "closed"
    /\ pc' = [pc EXCEPT ![s] = "read"]
    /\ conn' = [conn EXCEPT ![s] = p]
    /\ inbox' = [inbox EXCEPT ![s] = <<Version(tip[p]), Verack>>]
    /\ announced' = [announced EXCEPT ![s] = tip[p]]
    /\ UNCHANGED <<store, target_height, role, locator, outbox, tip, counts>>

\* Mutant: the flag is cleared whoever leaves.
LeaveClears(s) ==
    /\ pc[s] \in {"read", "send"}
    /\ breaks < MaxBreaks
    /\ breaks' = breaks + 1
    /\ has_sync_node' = FALSE
    /\ Forget({s})
    /\ UNCHANGED <<store, target_height, announced, tip, crashes>>

\* The peer closes, or a read or a write fails: the guard gives back the flag
\* if it has the role.
Leave(s) ==
    /\ pc[s] \in {"read", "send"}
    /\ breaks < MaxBreaks
    /\ breaks' = breaks + 1
    /\ has_sync_node' = IF is_sync_node[s] THEN FALSE ELSE has_sync_node
    /\ Forget({s})
    /\ UNCHANGED <<store, target_height, announced, tip, crashes>>

---------------------------------------------------------------------------
\* The messages.

Receive(s, type) ==
    /\ pc[s] = "read"
    /\ inbox[s] # <<>> /\ Head(inbox[s]).type = type
    /\ inbox' = [inbox EXCEPT ![s] = Tail(@)]

\* UpdateTargetHeight waits for the lock.
HandleVersion(s) ==
    /\ ~Saving
    /\ Receive(s, "version")
    /\ LET h == Head(inbox[s]).start_height
       IN  target_height' = IF h > target_height THEN h ELSE target_height
    /\ UNCHANGED <<store, role, pc, locator, outbox, conn, announced, tip, counts>>

\* Mutant: a load and a store where the code has a swap that tells the loser.
SwapBlind(s) ==
    /\ Receive(s, "verack")
    /\ has_sync_node' = TRUE
    /\ pc' = [pc EXCEPT ![s] = "claimed"]
    /\ UNCHANGED <<store, target_height, is_sync_node, locator, outbox, conn, announced, tip, counts>>

\* TryBecomeSyncNode: the swap.  It does not need the lock.
Swap(s) ==
    /\ Receive(s, "verack")
    /\ has_sync_node' = TRUE
    /\ pc' = IF has_sync_node THEN pc ELSE [pc EXCEPT ![s] = "claimed"]
    /\ UNCHANGED <<store, target_height, is_sync_node, locator, outbox, conn, announced, tip, counts>>

TakeRole(s) ==
    /\ pc[s] = "claimed"
    /\ is_sync_node' = [is_sync_node EXCEPT ![s] = TRUE]
    /\ pc' = [pc EXCEPT ![s] = "request"]
    /\ UNCHANGED <<store, target_height, has_sync_node, locator, wire, conn, announced, tip, counts>>

\* An inv is answered by a getdata, an empty headers message by nothing.
HandleOther(s) ==
    /\ Receive(s, "inv") \/ (Receive(s, "headers") /\ Head(inbox[s]).headers = <<>>)
    /\ UNCHANGED <<store, target_height, role, pc, locator, outbox, conn, announced, tip, counts>>

---------------------------------------------------------------------------
\* SaveHeaders: save_new_headers runs on the blocking pool and holds the lock
\* from its first line to its last.

SaveBegin(s) ==
    /\ ~Saving
    /\ Receive(s, "headers")
    /\ Head(inbox[s]).headers # <<>>
    /\ saver' = s /\ batch' = Head(inbox[s]).headers /\ at' = 1 /\ base' = Len(log)
    /\ pc' = [pc EXCEPT ![s] = "save"]
    /\ UNCHANGED <<log, target_height, role, locator, outbox, conn, announced, tip, counts>>

\* Mutant: known headers are appended again.
SaveHeaderAgain ==
    /\ Saving /\ at <= Len(batch)
    /\ log' = Append(log, batch[at])
    /\ at' = at + 1
    /\ UNCHANGED <<saver, batch, base, target_height, role, pc, locator, wire, conn, announced, tip, counts>>

\* One header: skipped if it is known.
SaveHeader ==
    /\ Saving /\ at <= Len(batch)
    /\ log' = IF batch[at] \in Range(log) THEN log ELSE Append(log, batch[at])
    /\ at' = at + 1
    /\ UNCHANGED <<saver, batch, base, target_height, role, pc, locator, wire, conn, announced, tip, counts>>

\* The lock is released; what the slot does next depends on whether it asks.
Release(asks) ==
    /\ Saving /\ at > Len(batch)
    /\ pc' = [pc EXCEPT ![saver] = IF asks THEN "request" ELSE "read"]
    /\ saver' = Nobody /\ batch' = <<>> /\ at' = 1 /\ base' = 0
    /\ UNCHANGED <<log, target_height, role, locator, wire, conn, announced, tip, counts>>

\* Mutant: a request follows only a reply that is not full.
SaveEndStops == Release(Saving /\ is_sync_node[saver] /\ Len(log) > base
                        /\ Len(batch) < MaxHeaders)

\* The sync node goes on asking after a full reply that held something new.
SaveEnd == Release(Saving /\ is_sync_node[saver] /\ Len(log) > base
                   /\ Len(batch) = MaxHeaders)

---------------------------------------------------------------------------
\* request_headers: get_locator_hash under the lock, then the write.

ReadLocator(s) ==
    /\ pc[s] = "request" /\ ~Saving
    /\ locator' = [locator EXCEPT ![s] = get_locator_hash(log)]
    /\ pc' = [pc EXCEPT ![s] = "send"]
    /\ UNCHANGED <<store, target_height, role, wire, conn, announced, tip, counts>>

SendRequest(s) ==
    /\ pc[s] = "send"
    /\ outbox' = [outbox EXCEPT ![s] = Append(@, locator[s])]
    /\ locator' = [locator EXCEPT ![s] = NoHash]
    /\ pc' = [pc EXCEPT ![s] = "read"]
    /\ UNCHANGED <<store, target_height, role, inbox, conn, announced, tip, counts>>

---------------------------------------------------------------------------
\* The process is killed and started again.  A save under way has flushed
\* some of its headers; all earlier ones are on disk.
Restart ==
    /\ crashes < MaxCrashes
    /\ crashes' = crashes + 1
    /\ \E n \in (IF Saving THEN base ELSE Len(log)) .. Len(log) : log' = SubSeq(log, 1, n)
    /\ saver' = Nobody /\ batch' = <<>> /\ at' = 1 /\ base' = 0
    /\ target_height' = 0
    /\ has_sync_node' = FALSE
    /\ Forget(Slots)
    /\ UNCHANGED <<announced, tip, breaks>>

SlotStep(s) ==
    \/ HandleVersion(s)
    \/ Swap(s)
    \/ TakeRole(s)
    \/ HandleOther(s)
    \/ SaveBegin(s)
    \/ ReadLocator(s)
    \/ SendRequest(s)

Next ==
    \/ \E s \in Slots, p \in Peers : Connect(s, p)
    \/ \E s \in Slots : Leave(s)
    \/ \E s \in Slots : SlotStep(s)
    \/ SaveHeader
    \/ SaveEnd
    \/ \E s \in Slots : Answer(s)
    \/ \E p \in Peers : Mine(p)
    \/ Restart

Spec == Init /\ [][Next]_vars

\* Tasks that are not waiting for a peer are run, a save ends, slots
\* reconnect, connected peers answer.  Nothing makes a connection break, a
\* block appear or the process restart.
FairSpec ==
    /\ Spec
    /\ \A s \in Slots :
           /\ WF_vars(\E p \in Peers : Connect(s, p))
           /\ WF_vars(SlotStep(s))
           /\ WF_vars(Answer(s))
    /\ WF_vars(SaveHeader \/ SaveEnd)

---------------------------------------------------------------------------
\* Properties.

TypeOK ==
    /\ saver \in Slots \cup {Nobody}
    /\ at \in 1 .. Len(batch) + 1 /\ base \in 0 .. Len(log)
    /\ has_sync_node \in BOOLEAN
    /\ pc \in [Slots -> PCs]
    /\ is_sync_node \in [Slots -> BOOLEAN]
    /\ \A s \in Slots : pc[s] = "save" <=> s = saver
    /\ HS!TypeOK

\* With honest peers on one chain the headers in memory are a chain from
\* genesis at every moment, the middle of a save included: no gap, fork or
\* repeat, over handovers, restarts in a save and peers that lag behind.  No
\* header's parent is required to be known: this rests on what is asked for,
\* by whom, and on the lock.
LogIsChain ==
    \E p \in Peers :
        Len(log) <= Len(ChainOf[p]) /\ log = SubSeq(ChainOf[p], 1, Len(log))

\* In the whole pool at most one request is being made, on its way, answered
\* or saved, and it is the sync node's.
OneRequestInFlight == HS!OneRequestInFlight

\* A sync node that announced more headers than the node has is heard out:
\* all it had then are fetched in the end, unless it loses the role first.
AnnouncedAreFetched == HS!AnnouncedAreFetched

\* The flag, the guards, the lock and the two halves of a request together
\* do what HeaderSync says: every step is one of its steps, or none.
RefinesHeaderSync == HS!Spec
====
