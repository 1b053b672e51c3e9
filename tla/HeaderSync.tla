---- MODULE HeaderSync ----
(***************************************************************************)
(* Header synchronisation over the whole pool: handshakes, the Sync Node    *)
(* role, getheaders and headers messages, saves, broken connections and     *)
(* restarts (node/src/main.rs and MessageCommand::process).                 *)
(*                                                                          *)
(* Two components appear by their promises.  The store is the log of        *)
(* HeaderLog, one step per save: HeaderStore implements it.  The role is an *)
(* owner or nobody, as in SyncRole: PeerPool implements it.  SyncSystem puts *)
(* the halves of a swap, a save and a request back in and implements this    *)
(* module.                                                                  *)
(***************************************************************************)
EXTENDS SyncPeers

VARIABLES
    log,            \* the accepted headers; cache, tip and count are its view
    target_height,  \* the greatest height a peer has announced
    owner,          \* the slot with the Sync Node role, or Nobody
    conn,           \* the peer each slot is connected to, or Nobody
    inbox,          \* what the peer has sent on the connection, in order
    outbox,         \* the locators of the getheaders on their way to the peer
    asking,         \* the slot is about to send a getheaders
    tip,            \* how many headers each peer has
    announced,      \* history: how many it had when the slot connected
    breaks,         \* connections broken so far
    crashes         \* restarts so far

slots == <<conn, inbox, outbox, asking, announced>>
vars  == <<log, target_height, owner, slots, tip, breaks, crashes>>

Known == Range(log)

Init ==
    /\ log = <<>> /\ target_height = 0
    /\ owner = Nobody
    /\ conn = [s \in Slots |-> Nobody]
    /\ inbox = [s \in Slots |-> <<>>]
    /\ outbox = [s \in Slots |-> <<>>]
    /\ asking = [s \in Slots |-> FALSE]
    /\ tip = FirstTip
    /\ announced = [s \in Slots |-> 0]
    /\ breaks = 0 /\ crashes = 0

Chain(p) == SubSeq(ChainOf[p], 1, tip[p])

---------------------------------------------------------------------------
\* The peers (external).

Answer(s) ==
    /\ conn[s] # Nobody
    /\ outbox[s] # <<>>
    /\ outbox' = [outbox EXCEPT ![s] = Tail(@)]
    /\ inbox' = [inbox EXCEPT ![s] = Append(@, Reply(conn[s], tip[conn[s]], Head(outbox[s])))]
    /\ UNCHANGED <<log, target_height, owner, conn, asking, announced, tip, breaks, crashes>>

\* A new block: the node never sends sendheaders, so peers announce by inv.
Mine(p) ==
    /\ tip[p] < Len(ChainOf[p])
    /\ tip' = [tip EXCEPT ![p] = @ + 1]
    /\ inbox' = [s \in Slots |-> IF conn[s] = p THEN Append(inbox[s], Inv) ELSE inbox[s]]
    /\ UNCHANGED <<log, target_height, owner, conn, outbox, asking, announced, breaks, crashes>>

---------------------------------------------------------------------------
\* Connections.

\* A slot connects and sends its version message; the peer sends its own and
\* its verack.
Connect(s, p) ==
    /\ conn[s] = Nobody
    /\ conn' = [conn EXCEPT ![s] = p]
    /\ inbox' = [inbox EXCEPT ![s] = <<Version(tip[p]), Verack>>]
    /\ announced' = [announced EXCEPT ![s] = tip[p]]
    /\ UNCHANGED <<log, target_height, owner, outbox, asking, tip, breaks, crashes>>

\* The connection ends, on either side and for any reason; the guard of the
\* slot gives the role back, and everything in flight on it is gone.
Disconnect(s) ==
    /\ conn[s] # Nobody
    /\ breaks < MaxBreaks
    /\ breaks' = breaks + 1
    /\ conn' = [conn EXCEPT ![s] = Nobody]
    /\ inbox' = [inbox EXCEPT ![s] = <<>>]
    /\ outbox' = [outbox EXCEPT ![s] = <<>>]
    /\ asking' = [asking EXCEPT ![s] = FALSE]
    /\ owner' = IF owner = s THEN Nobody ELSE owner
    /\ UNCHANGED <<log, target_height, announced, tip, crashes>>

---------------------------------------------------------------------------
\* The handlers: one message taken from the buffer, processed, its actions
\* performed.  A slot that is about to send a getheaders reads nothing.

Receive(s, type) ==
    /\ ~asking[s]
    /\ inbox[s] # <<>> /\ Head(inbox[s]).type = type
    /\ inbox' = [inbox EXCEPT ![s] = Tail(@)]

\* Verack is sent back, and the announced height is a new target.
HandleVersion(s) ==
    /\ Receive(s, "version")
    /\ LET h == Head(inbox[s]).start_height
       IN  target_height' = IF h > target_height THEN h ELSE target_height
    /\ UNCHANGED <<log, owner, conn, outbox, asking, announced, tip, breaks, crashes>>

\* TryBecomeSyncNode: the first takes the role and asks, the others stand by.
HandleVerack(s) ==
    /\ Receive(s, "verack")
    /\ IF owner = Nobody
       THEN owner' = s /\ asking' = [asking EXCEPT ![s] = TRUE]
       ELSE UNCHANGED <<owner, asking>>
    /\ UNCHANGED <<log, target_height, conn, outbox, announced, tip, breaks, crashes>>

\* SaveHeaders.  Only the sync node goes on asking, and only after a full
\* reply that held something new.
HandleHeaders(s) ==
    /\ Receive(s, "headers")
    /\ LET hs  == Head(inbox[s]).headers
           new == NewIn(log, hs)
       IN  /\ log' = log \o new
           /\ asking' = [asking EXCEPT ![s] =
                             owner = s /\ new # <<>> /\ Len(hs) = MaxHeaders]
    /\ UNCHANGED <<target_height, owner, conn, outbox, announced, tip, breaks, crashes>>

\* A getdata goes back; the block it brings is an Unknown message to
\* decipher, and process does nothing with it.
HandleInv(s) ==
    /\ Receive(s, "inv")
    /\ UNCHANGED <<log, target_height, owner, conn, outbox, asking, announced, tip, breaks, crashes>>

\* At once after the role is taken, 50 ms after a save.
RequestHeaders(s) ==
    /\ asking[s]
    /\ asking' = [asking EXCEPT ![s] = FALSE]
    /\ outbox' = [outbox EXCEPT ![s] = Append(@, get_locator_hash(log))]
    /\ UNCHANGED <<log, target_height, owner, conn, inbox, announced, tip, breaks, crashes>>

---------------------------------------------------------------------------
\* The process is killed and started again: what was saved is loaded.  If a
\* save was under way, some of its headers are on disk.
Restart ==
    /\ crashes < MaxCrashes
    /\ crashes' = crashes + 1
    /\ \/ log' = log
       \/ \E s \in Slots :
              /\ inbox[s] # <<>> /\ Head(inbox[s]).type = "headers" /\ ~asking[s]
              /\ LET new == NewIn(log, Head(inbox[s]).headers)
                 IN  \E k \in 1 .. Len(new) : log' = log \o SubSeq(new, 1, k)
    /\ target_height' = 0
    /\ owner' = Nobody
    /\ conn' = [s \in Slots |-> Nobody]
    /\ inbox' = [s \in Slots |-> <<>>]
    /\ outbox' = [s \in Slots |-> <<>>]
    /\ asking' = [s \in Slots |-> FALSE]
    /\ UNCHANGED <<announced, tip, breaks>>

Next ==
    \/ \E s \in Slots, p \in Peers : Connect(s, p)
    \/ \E s \in Slots : Disconnect(s)
    \/ \E s \in Slots : HandleVersion(s)
    \/ \E s \in Slots : HandleVerack(s)
    \/ \E s \in Slots : HandleHeaders(s)
    \/ \E s \in Slots : HandleInv(s)
    \/ \E s \in Slots : RequestHeaders(s)
    \/ \E s \in Slots : Answer(s)
    \/ \E p \in Peers : Mine(p)
    \/ Restart

Spec == Init /\ [][Next]_vars

\* Slots reconnect and handle what they receive; a connected peer answers.
\* Nothing makes a connection break, a block appear or the process restart.
SlotRuns(s) ==
    /\ WF_vars(\E p \in Peers : Connect(s, p))
    /\ WF_vars(HandleVersion(s) \/ HandleVerack(s) \/ HandleHeaders(s)
               \/ HandleInv(s) \/ RequestHeaders(s))

FairSpec == Spec /\ \A s \in Slots : SlotRuns(s) /\ WF_vars(Answer(s))

---------------------------------------------------------------------------
TypeOK ==
    /\ Known \subseteq UNION {Range(ChainOf[p]) : p \in Peers}
    /\ target_height \in Nat
    /\ owner \in Slots \cup {Nobody}
    /\ conn \in [Slots -> Peers \cup {Nobody}]
    /\ asking \in [Slots -> BOOLEAN]
    /\ announced \in [Slots -> Nat]
    /\ \A p \in Peers : tip[p] \in 0 .. Len(ChainOf[p])
    /\ breaks \in 0 .. MaxBreaks /\ crashes \in 0 .. MaxCrashes
    /\ \A s \in Slots : conn[s] = Nobody =>
           inbox[s] = <<>> /\ outbox[s] = <<>> /\ ~asking[s] /\ owner # s

\* With honest peers on one chain the log is a chain from genesis, without a
\* gap, a fork or a repeat, over handovers, restarts in the middle of a save
\* and peers that lag behind.  No header's parent is ever required to be
\* known: this rests on what is asked for, and by whom, alone.
LogIsChain ==
    \E p \in Peers :
        Len(log) <= Len(ChainOf[p]) /\ log = SubSeq(ChainOf[p], 1, Len(log))

\* At most one request or reply is in flight in the whole pool, and it is on
\* the connection of the sync node.
Pending(s) == Len(outbox[s]) + (IF asking[s] THEN 1 ELSE 0)
              + Cardinality({i \in DOMAIN inbox[s] : inbox[s][i].type = "headers"})

OneRequestInFlight ==
    \A s \in Slots : IF s = owner THEN Pending(s) <= 1 ELSE Pending(s) = 0

\* A sync node that has announced more headers than the node has is heard out:
\* all it had then are fetched in the end, unless it loses the role first.
HasAnnounced(s) ==
    Range(SubSeq(ChainOf[conn[s]], 1, announced[s])) \subseteq Known

AnnouncedAreFetched ==
    \A s \in Slots :
        (owner = s /\ announced[s] > Len(log)) ~> (owner # s \/ HasAnnounced(s))
====
