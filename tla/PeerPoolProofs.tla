---- MODULE PeerPoolProofs ----
(***************************************************************************)
(* Proofs about PeerPool, for any number of slots and any pool of peers.     *)
(***************************************************************************)
EXTENDS PeerPool, TLAPS

\* A status line of the dashboard replaced by another.
LEMMA UpdatePeerType ==
    ASSUME peers \in [Slots -> (Address \cup {NoAddress}) \X Status],
           NEW s \in Slots, NEW a \in Address \cup {NoAddress}, NEW x \in Status,
           update_peer(s, a, x)
    PROVE  peers' \in [Slots -> (Address \cup {NoAddress}) \X Status]
<1>1. <<a, x>> \in (Address \cup {NoAddress}) \X Status
  OBVIOUS
<1>2. QED
  BY <1>1 DEF update_peer

\* TypeOK holds when the pool starts.
LEMMA PoolTypeInit == Init => TypeOK
<1> SUFFICES ASSUME Init PROVE TypeOK
  OBVIOUS
<1>1. 0 \in Address
  BY PoolAssumption DEF Address
<1>2. <<NoAddress, "disconnected">> \in (Address \cup {NoAddress}) \X Status
  BY DEF Status
<1>3. peers \in [Slots -> (Address \cup {NoAddress}) \X Status]
  BY <1>2 DEF Init
<1>4. QED
  BY <1>1, <1>3 DEF Init, TypeOK, PCs

\* Every step of the pool keeps TypeOK.
LEMMA PoolTypeStep == TypeOK /\ [Next]_vars => TypeOK'
<1> SUFFICES ASSUME TypeOK, [Next]_vars PROVE TypeOK'
  OBVIOUS
<1> DEFINE Rows == [Slots -> (Address \cup {NoAddress}) \X Status]
           Rest == /\ peer_index \in Address
                   /\ has_sync_node \in BOOLEAN
                   /\ pc \in [Slots -> PCs]
                   /\ target \in [Slots -> Address]
                   /\ is_sync_node \in [Slots -> BOOLEAN]
                   /\ greeted \in [Slots -> BOOLEAN]
<1>1. Rest /\ peers \in Rows
  BY DEF TypeOK
<1>2. (peer_index + 1) % Pool \in Address
  BY <1>1, PoolAssumption DEF Address
<1>3. Rest'
  <2>1. ASSUME NEW s \in Slots,
               \/ Pick(s) \/ Connected(s) \/ ConnectFails(s) \/ Close(s)
               \/ SendVersion(s) \/ SendVersionFails(s)
        PROVE  Rest'
    BY <1>1, <1>2, <2>1 DEF Pick, Connected, ConnectFails, Close, SendVersion,
                            SendVersionFails, Goto, PCs
  <2>2. ASSUME NEW s \in Slots, ClaimRole(s) \/ StandBy(s) \/ TakeRole(s)
        PROVE  Rest'
    BY <1>1, <2>2 DEF ClaimRole, StandBy, TakeRole, Greet, Goto, PCs
  <2>3. ASSUME NEW s \in Slots,
               RequestHeaders(s) \/ HeadersArrive(s) \/ Saved(s) \/ Breaks(s)
        PROVE  Rest'
    BY <1>1, <2>3 DEF RequestHeaders, HeadersArrive, Saved, Breaks, Goto, PCs
  <2>4. ASSUME NEW s \in Slots, DropRole(s) \/ DropStatus(s)
        PROVE  Rest'
    BY <1>1, <2>4 DEF DropRole, DropStatus, Goto, PCs
  <2>5. CASE UNCHANGED vars
    BY <1>1, <2>5 DEF vars
  <2>6. QED
    BY <2>1, <2>2, <2>3, <2>4, <2>5 DEF Next, SlotStep
<1>4. peers' \in Rows
  <2>1. \/ peers' = peers
        \/ \E s \in Slots, a \in Address \cup {NoAddress}, x \in Status : update_peer(s, a, x)
    BY <1>1 DEF Next, SlotStep, vars, Pick, Connected, ConnectFails, Close, SendVersion,
                SendVersionFails, ClaimRole, StandBy, TakeRole, RequestHeaders,
                HeadersArrive, Saved, Breaks, DropRole, DropStatus, Status
  <2>2. QED
    BY <1>1, <2>1, UpdatePeerType
<1>5. QED
  BY <1>3, <1>4 DEF TypeOK

\* The types of the pool's state hold in every interleaving.
THEOREM PoolTypeOK == Spec => []TypeOK
<1>1. QED
  BY PoolTypeInit, PoolTypeStep, PTL DEF Spec

---------------------------------------------------------------------------
\* The Sync Node role.

\* A step that changes neither the flag nor who owns the role keeps both facts.
LEMMA SameOwners ==
    ASSUME OneSyncNode, RoleNeverLeaks, has_sync_node' = has_sync_node,
           \A s \in Slots : Owns(s)' <=> Owns(s)
    PROVE  OneSyncNode' /\ RoleNeverLeaks'
BY DEF OneSyncNode, RoleNeverLeaks

\* Where in its life a guard can hold the role.
GuardInv ==
    \A s \in Slots :
        /\ is_sync_node[s] => pc[s] \in {"request", "read", "save", "drop", "dropped"}
        /\ pc[s] = "request" => is_sync_node[s]

\* With it the four properties of the role are inductive.
RoleInv == TypeOK /\ OneSyncNode /\ RoleNeverLeaks /\ GuardInv /\ CrownIsHonest

\* RoleInv holds when the pool starts.
LEMMA RoleInit == Init => RoleInv
BY PoolTypeInit DEF Init, RoleInv, OneSyncNode, RoleNeverLeaks, Owns, GuardInv, CrownIsHonest

\* Every step of the pool keeps RoleInv.
LEMMA RoleStep == RoleInv /\ [Next]_vars => RoleInv'
<1> SUFFICES ASSUME RoleInv, [Next]_vars PROVE RoleInv'
  OBVIOUS
<1>1. TypeOK /\ TypeOK'
  BY PoolTypeStep DEF RoleInv
<1>2. OneSyncNode /\ RoleNeverLeaks /\ GuardInv /\ CrownIsHonest
  BY DEF RoleInv
<1> DEFINE Role == OneSyncNode /\ RoleNeverLeaks /\ GuardInv /\ CrownIsHonest
<1> SUFFICES Role'
  BY <1>1 DEF RoleInv
\* Steps of a slot that has no guard, or leaves its guard as it is.
<1>3. ASSUME NEW s \in Slots,
             \/ Pick(s) \/ Connected(s) \/ ConnectFails(s) \/ Close(s)
             \/ SendVersion(s) \/ SendVersionFails(s)
      PROVE  Role'
  <2>1. /\ has_sync_node' = has_sync_node /\ is_sync_node' = is_sync_node
        /\ pc[s] \notin {"claimed", "request", "read", "save", "drop", "dropped"}
        /\ \E to \in {"connect", "open", "close", "pick", "read"} :
               pc' = [pc EXCEPT ![s] = to]
        /\ \/ peers' = peers
           \/ \E a \in Address, x \in Status \ {"sync"} : peers' = [peers EXCEPT ![s] = <<a, x>>]
    BY <1>1, <1>3 DEF Pick, Connected, ConnectFails, Close, SendVersion, SendVersionFails,
                      Goto, update_peer, TypeOK, Status
  <2>2. \A t \in Slots : Owns(t)' <=> Owns(t)
    BY <1>1, <1>2, <2>1 DEF Owns, GuardInv, TypeOK
  <2>3. GuardInv' /\ CrownIsHonest'
    BY <1>1, <1>2, <2>1 DEF GuardInv, CrownIsHonest, TypeOK
  <2>4. QED
    BY <1>2, <2>1, <2>2, <2>3, SameOwners
<1>4. ASSUME NEW s \in Slots, ClaimRole(s) PROVE Role'
  <2>1. /\ ~has_sync_node /\ has_sync_node' /\ is_sync_node' = is_sync_node
        /\ pc[s] = "read" /\ pc' = [pc EXCEPT ![s] = "claimed"] /\ peers' = peers
    BY <1>4 DEF ClaimRole, Goto
  <2>2. \A t \in Slots : ~Owns(t)
    BY <1>2, <2>1 DEF RoleNeverLeaks
  <2>3. \A t \in Slots : Owns(t)' <=> t = s
    BY <1>1, <2>1, <2>2 DEF Owns, TypeOK
  <2>4. OneSyncNode' /\ RoleNeverLeaks'
    BY <2>1, <2>3 DEF OneSyncNode, RoleNeverLeaks
  <2>5. ~is_sync_node[s]
    BY <2>1, <2>2 DEF Owns
  <2>6. GuardInv' /\ CrownIsHonest'
    BY <1>1, <1>2, <2>1, <2>5 DEF GuardInv, CrownIsHonest, TypeOK
  <2>7. QED
    BY <2>4, <2>6
<1>5. ASSUME NEW s \in Slots, StandBy(s) PROVE Role'
  <2>1. /\ has_sync_node' = has_sync_node /\ is_sync_node' = is_sync_node /\ pc' = pc
        /\ \/ peers' = peers
           \/ \E a \in Address : peers' = [peers EXCEPT ![s] = <<a, "standby">>]
    BY <1>1, <1>5 DEF StandBy, update_peer, TypeOK
  <2>2. \A t \in Slots : Owns(t)' <=> Owns(t)
    BY <2>1 DEF Owns
  <2>3. GuardInv' /\ CrownIsHonest'
    BY <1>1, <1>2, <2>1 DEF GuardInv, CrownIsHonest, TypeOK
  <2>4. QED
    BY <1>2, <2>1, <2>2, <2>3, SameOwners
<1>6. ASSUME NEW s \in Slots, TakeRole(s) PROVE Role'
  <2>1. /\ has_sync_node' = has_sync_node
        /\ is_sync_node' = [is_sync_node EXCEPT ![s] = TRUE]
        /\ pc[s] = "claimed" /\ pc' = [pc EXCEPT ![s] = "request"]
        /\ peers' = [peers EXCEPT ![s] = <<target[s], "sync">>]
    BY <1>6 DEF TakeRole, Goto, update_peer
  <2>2. \A t \in Slots : Owns(t)' <=> Owns(t)
    BY <1>1, <2>1 DEF Owns, TypeOK
  <2>3. GuardInv' /\ CrownIsHonest'
    BY <1>1, <1>2, <2>1 DEF GuardInv, CrownIsHonest, TypeOK
  <2>4. QED
    BY <1>2, <2>1, <2>2, <2>3, SameOwners
<1>7. ASSUME NEW s \in Slots,
             RequestHeaders(s) \/ HeadersArrive(s) \/ Saved(s) \/ Breaks(s)
      PROVE  Role'
  <2>1. /\ has_sync_node' = has_sync_node /\ is_sync_node' = is_sync_node /\ peers' = peers
        /\ pc[s] \in {"request", "read", "save"}
        /\ \E to \in {"request", "read", "save", "drop"} :
               /\ pc' = [pc EXCEPT ![s] = to]
               /\ to = "request" => is_sync_node[s]
    BY <1>7 DEF RequestHeaders, HeadersArrive, Saved, Breaks, Goto
  <2>2. \A t \in Slots : Owns(t)' <=> Owns(t)
    BY <1>1, <2>1 DEF Owns, TypeOK
  <2>3. GuardInv' /\ CrownIsHonest'
    BY <1>1, <1>2, <2>1 DEF GuardInv, CrownIsHonest, TypeOK
  <2>4. QED
    BY <1>2, <2>1, <2>2, <2>3, SameOwners
<1>8. ASSUME NEW s \in Slots, DropRole(s) PROVE Role'
  <2>1. /\ pc[s] = "drop" /\ pc' = [pc EXCEPT ![s] = "dropped"]
        /\ is_sync_node' = is_sync_node /\ peers' = peers
        /\ has_sync_node' = IF is_sync_node[s] THEN FALSE ELSE has_sync_node
    BY <1>8 DEF DropRole, Goto
  <2>2. GuardInv' /\ CrownIsHonest'
    BY <1>1, <1>2, <2>1 DEF GuardInv, CrownIsHonest, TypeOK
  <2>3. CASE is_sync_node[s]
    <3>1. Owns(s) /\ \A t \in Slots : Owns(t) => t = s
      BY <1>2, <2>1, <2>3 DEF Owns, OneSyncNode
    <3>2. \A t \in Slots : ~Owns(t)'
      BY <1>1, <2>1, <3>1 DEF Owns, TypeOK
    <3>3. QED
      BY <2>1, <2>2, <2>3, <3>2 DEF OneSyncNode, RoleNeverLeaks
  <2>4. CASE ~is_sync_node[s]
    <3>1. \A t \in Slots : Owns(t)' <=> Owns(t)
      BY <1>1, <2>1, <2>4 DEF Owns, TypeOK
    <3>2. QED
      BY <1>2, <2>1, <2>2, <2>4, <3>1, SameOwners
  <2>5. QED
    BY <2>3, <2>4
<1>9. ASSUME NEW s \in Slots, DropStatus(s) PROVE Role'
  <2>1. /\ pc[s] = "dropped" /\ pc' = [pc EXCEPT ![s] = "close"]
        /\ has_sync_node' = has_sync_node
        /\ is_sync_node' = [is_sync_node EXCEPT ![s] = FALSE]
        /\ peers' = [peers EXCEPT ![s] = <<NoAddress, "disconnected">>]
    BY <1>9 DEF DropStatus, Goto, update_peer
  <2>2. \A t \in Slots : Owns(t)' <=> Owns(t)
    BY <1>1, <2>1 DEF Owns, TypeOK
  <2>3. GuardInv' /\ CrownIsHonest'
    BY <1>1, <1>2, <2>1 DEF GuardInv, CrownIsHonest, TypeOK
  <2>4. QED
    BY <1>2, <2>1, <2>2, <2>3, SameOwners
<1>10. CASE UNCHANGED vars
  BY <1>2, <1>10 DEF vars, OneSyncNode, RoleNeverLeaks, Owns, GuardInv, CrownIsHonest
<1>11. QED
  BY <1>3, <1>4, <1>5, <1>6, <1>7, <1>8, <1>9, <1>10 DEF Next, SlotStep

\* Through swaps, guard drops and every exit of handle_connection, the flag,
\* the guards and the places of the tasks agree.
THEOREM PoolRoleInvariant == Spec => []RoleInv
<1>1. QED
  BY RoleInit, RoleStep, PTL DEF Spec

\* At most one slot owns the Sync Node role, for any number of slots.
THEOREM PoolOneSyncNode == Spec => []OneSyncNode
<1>1. RoleInv => OneSyncNode
  BY DEF RoleInv
<1>2. QED
  BY <1>1, PoolRoleInvariant, PTL

\* The flag is set exactly while a slot owns the role.
THEOREM PoolRoleNeverLeaks == Spec => []RoleNeverLeaks
<1>1. RoleInv => RoleNeverLeaks
  BY DEF RoleInv
<1>2. QED
  BY <1>1, PoolRoleInvariant, PTL

\* Only the owner sends getheaders, and it is the only owner.
THEOREM PoolOnlyOwnerRequests == Spec => []OnlyOwnerRequests
<1>1. RoleInv => OnlyOwnerRequests
  BY DEF RoleInv, GuardInv, OneSyncNode, OnlyOwnerRequests, Owns
<1>2. QED
  BY <1>1, PoolRoleInvariant, PTL

\* The crown is shown only for a slot whose guard has the role.
THEOREM PoolCrownIsHonest == Spec => []CrownIsHonest
<1>1. RoleInv => CrownIsHonest
  BY DEF RoleInv
<1>2. QED
  BY <1>1, PoolRoleInvariant, PTL

---------------------------------------------------------------------------
\* The pool implements SyncRole.

\* The slot that owns the role is the owner.
LEMMA OwnerOwns == OneSyncNode => \A s \in Slots : Owns(s) => owner = s
<1>1. SUFFICES ASSUME OneSyncNode, NEW s \in Slots, Owns(s)
               PROVE  owner = s
  OBVIOUS
<1>2. PICK o \in Slots : Owns(o) /\ o = owner
  BY <1>1 DEF owner
<1>3. QED
  BY <1>1, <1>2 DEF OneSyncNode

\* The abstract owner is Nobody when no slot owns the role.
LEMMA OwnerNobody == (\A s \in Slots : ~Owns(s)) => owner = Nobody
BY DEF owner

\* An owner stays one in every step after which the flag is still set.
LEMMA OwnerStays ==
    ASSUME RoleInv, [Next]_vars, has_sync_node, has_sync_node', NEW o \in Slots, Owns(o)
    PROVE  Owns(o)'
<1>1. TypeOK /\ OneSyncNode /\ GuardInv
  BY DEF RoleInv
<1>2. ASSUME NEW s \in Slots,
             \/ Pick(s) \/ Connected(s) \/ ConnectFails(s) \/ Close(s)
             \/ SendVersion(s) \/ SendVersionFails(s) \/ ClaimRole(s) \/ StandBy(s)
      PROVE  Owns(o)'
  <2>1. /\ is_sync_node' = is_sync_node
        /\ \/ pc' = pc
           \/ /\ pc[s] # "claimed"
              /\ \E to \in PCs \ {"dropped"} : pc' = [pc EXCEPT ![s] = to]
    BY <1>2 DEF Pick, Connected, ConnectFails, Close, SendVersion, SendVersionFails,
                ClaimRole, StandBy, Goto, PCs
  <2>2. QED
    BY <1>1, <2>1 DEF Owns, TypeOK
<1>3. ASSUME NEW s \in Slots,
             RequestHeaders(s) \/ HeadersArrive(s) \/ Saved(s) \/ Breaks(s)
      PROVE  Owns(o)'
  <2>1. /\ is_sync_node' = is_sync_node
        /\ pc[s] # "claimed"
        /\ \E to \in PCs \ {"dropped"} : pc' = [pc EXCEPT ![s] = to]
    BY <1>3 DEF RequestHeaders, HeadersArrive, Saved, Breaks, Goto, PCs
  <2>2. QED
    BY <1>1, <2>1 DEF Owns, TypeOK
<1>4. ASSUME NEW s \in Slots, TakeRole(s) PROVE Owns(o)'
  <2>1. /\ is_sync_node' = [is_sync_node EXCEPT ![s] = TRUE]
        /\ pc' = [pc EXCEPT ![s] = "request"]
    BY <1>4 DEF TakeRole, Goto
  <2>2. QED
    BY <1>1, <2>1 DEF Owns, TypeOK
<1>5. ASSUME NEW s \in Slots, DropRole(s) PROVE Owns(o)'
  <2>1. ~is_sync_node[s] /\ is_sync_node' = is_sync_node
        /\ pc[s] = "drop" /\ pc' = [pc EXCEPT ![s] = "dropped"]
    BY <1>5 DEF DropRole, Goto
  <2>2. QED
    BY <1>1, <2>1 DEF Owns, TypeOK
<1>6. ASSUME NEW s \in Slots, DropStatus(s) PROVE Owns(o)'
  <2>1. /\ is_sync_node' = [is_sync_node EXCEPT ![s] = FALSE]
        /\ pc[s] = "dropped" /\ pc' = [pc EXCEPT ![s] = "close"]
    BY <1>6 DEF DropStatus, Goto
  <2>2. QED
    BY <1>1, <2>1 DEF Owns, TypeOK
<1>7. CASE UNCHANGED vars
  BY <1>7 DEF vars, Owns
<1>8. QED
  BY <1>2, <1>3, <1>4, <1>5, <1>6, <1>7 DEF Next, SlotStep

\* Every step of the pool is a step of SyncRole or leaves the owner alone.
LEMMA OwnerStep ==
    ASSUME RoleInv, RoleInv', [Next]_vars
    PROVE  [Promise!Next]_owner
<1>1. OneSyncNode /\ RoleNeverLeaks /\ OneSyncNode' /\ RoleNeverLeaks'
  BY DEF RoleInv
<1>2. /\ Nobody \notin Slots
      /\ \A s \in Slots : Owns(s)' => owner' = s
  <2>1. (OneSyncNode => \A s \in Slots : Owns(s) => owner = s)'
    BY OwnerOwns, PTL
  <2>2. QED
    BY <1>1, <2>1, PoolAssumption
<1>3. CASE ~has_sync_node
  <2>1. owner = Nobody
    BY <1>1, <1>3, OwnerNobody DEF RoleNeverLeaks
  <2>2. CASE ~has_sync_node'
    <3>1. \A s \in Slots : ~Owns(s)'
      BY <1>1, <2>2 DEF RoleNeverLeaks
    <3>2. owner' = Nobody
      BY <3>1 DEF owner
    <3>3. QED
      BY <2>1, <3>2
  <2>3. CASE has_sync_node'
    <3>1. PICK s \in Slots : Owns(s)'
      BY <1>1, <2>3 DEF RoleNeverLeaks
    <3>2. owner' = s
      BY <1>2, <3>1
    <3>3. QED
      BY <2>1, <3>2 DEF Promise!Next, Promise!Acquire
  <2>4. QED
    BY <2>2, <2>3
<1>4. CASE has_sync_node
  <2>1. PICK o \in Slots : Owns(o)
    BY <1>1, <1>4 DEF RoleNeverLeaks
  <2>2. owner = o
    BY <1>1, <2>1, OwnerOwns
  <2>3. CASE ~has_sync_node'
    <3>1. \A s \in Slots : ~Owns(s)'
      BY <1>1, <2>3 DEF RoleNeverLeaks
    <3>2. owner' = Nobody
      BY <3>1 DEF owner
    <3>3. QED
      BY <1>2, <2>2, <3>2 DEF Promise!Next, Promise!GiveBack
  <2>4. CASE has_sync_node'
    <3>1. Owns(o)'
      BY <1>4, <2>1, <2>4, OwnerStays
    <3>2. owner' = o
      BY <1>2, <3>1
    <3>3. QED
      BY <2>2, <3>2
  <2>5. QED
    BY <2>3, <2>4
<1>5. QED
  BY <1>3, <1>4

\* In every interleaving of swaps, guards and early returns, for any number
\* of slots, the role goes from nobody to one slot and from it to nobody.
THEOREM PoolImplementsRole == Spec => RefinesSyncRole
<1>1. Init => Promise!Init
  <2>1. Init => \A s \in Slots : ~Owns(s)
    BY DEF Init, Owns
  <2>2. QED
    BY <2>1, OwnerNobody DEF Promise!Init
<1>2. RoleInv /\ RoleInv' /\ [Next]_vars => [Promise!Next]_owner
  BY OwnerStep
<1>3. QED
  BY <1>1, <1>2, PoolRoleInvariant, PTL DEF Spec, RefinesSyncRole, Promise!Spec
====
