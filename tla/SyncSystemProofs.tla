---- MODULE SyncSystemProofs ----
(***************************************************************************)
(* Proofs about SyncSystem, for any number of slots and peers, any chains    *)
(* and any size of a full reply.                                            *)
(***************************************************************************)
EXTENDS SyncSystem, SequenceLemmas, FiniteSetTheorems

---------------------------------------------------------------------------
\* The inductive invariant, in parts.

Header  == UNION {Range(ChainOf[p]) : p \in Peers}
Locator == Header \cup {Genesis, NoHash}
Message == [type : {"version"}, start_height : Nat]
           \cup [type : {"verack", "inv"}]
           \cup [type : {"headers"}, headers : Seq(Header)]

Types ==
    /\ log \in Seq(Header) /\ batch \in Seq(Header)
    /\ saver \in Slots \cup {Nobody}
    /\ at \in 1 .. Len(batch) + 1 /\ base \in 0 .. Len(log)
    /\ target_height \in Nat
    /\ has_sync_node \in BOOLEAN
    /\ pc \in [Slots -> PCs]
    /\ is_sync_node \in [Slots -> BOOLEAN]
    /\ locator \in [Slots -> Locator]
    /\ conn \in [Slots -> Peers \cup {Nobody}]
    /\ inbox \in [Slots -> Seq(Message)]
    /\ outbox \in [Slots -> Seq(Locator)]
    /\ announced \in [Slots -> Nat]
    /\ tip \in [Peers -> Nat] /\ \A p \in Peers : tip[p] <= Len(ChainOf[p])
    /\ breaks \in 0 .. MaxBreaks /\ crashes \in 0 .. MaxCrashes

\* Where a slot's task is says what its slot holds.
Control ==
    /\ \A s \in Slots : pc[s] = "save" <=> s = saver
    /\ \A s \in Slots : IF pc[s] = "closed"
                        THEN conn[s] = Nobody /\ inbox[s] = <<>> /\ outbox[s] = <<>>
                        ELSE conn[s] \in Peers

\* The flag is up exactly while some slot has the role or is about to, no two
\* do, and only that slot makes requests.
RoleHeld ==
    /\ has_sync_node <=> Holders # {}
    /\ \A s, t \in Holders : s = t
    /\ \A s \in Slots : /\ pc[s] \in {"request", "send"} => is_sync_node[s]
                        /\ pc[s] = "closed" => ~is_sync_node[s]

IsReply(m)  == m.type = "headers"
NoReply(q)  == \A i \in DOMAIN q : ~IsReply(q[i])
OneReply(q) == \A i, j \in DOMAIN q : IsReply(q[i]) /\ IsReply(q[j]) => i = j

\* A request is being made, on its way, answered, or saved: of these four at
\* most one is true, of one slot, and of that once.
OneRequest ==
    \A s \in Slots :
        /\ Asking(s) \/ s = saver => outbox[s] = <<>> /\ NoReply(inbox[s])
        /\ outbox[s] # <<>> => Len(outbox[s]) = 1 /\ NoReply(inbox[s])
        /\ OneReply(inbox[s])
        /\ Asking(s) \/ s = saver \/ outbox[s] # <<>> \/ ~NoReply(inbox[s])
               => s \in Holders

\* A save appends what its batch adds; a locator read is still the best hash.
Halves ==
    /\ Saving => log = Settled \o NewIn(Settled, SubSeq(batch, 1, at - 1))
    /\ \A s \in Slots : pc[s] = "send" => locator[s] = get_locator_hash(log)

SyncInv == Types /\ Control /\ RoleHeld /\ OneRequest /\ Halves

\* The chain of p starts with c, and goes on with hs after n headers.
OnChain(p, c) ==
    Len(c) <= Len(ChainOf[p]) /\ \A i \in 1 .. Len(c) : c[i] = ChainOf[p][i]

GoesOn(p, n, hs) ==
    n + Len(hs) <= Len(ChainOf[p]) /\ \A i \in 1 .. Len(hs) : hs[i] = ChainOf[p][n + i]

\* A reply fits c: all of it is known, or it goes on where c ends.
Fits(c, hs) ==
    \/ Range(hs) \subseteq Range(c)
    \/ \E p \in Peers : OnChain(p, c) /\ GoesOn(p, Len(c), hs)

\* Every request asks for what follows the log, every reply fits it, and a
\* save either adds nothing or follows the chain.
ChainInv ==
    /\ \E p \in Peers : OnChain(p, log)
    /\ \A s \in Slots :
           /\ outbox[s] # <<>> => outbox[s][1] = get_locator_hash(log)
           /\ \A i \in DOMAIN inbox[s] :
                  IsReply(inbox[s][i]) => Fits(log, inbox[s][i].headers)
    /\ Saving =>
           \/ Range(batch) \subseteq Range(log)
           \/ \E p \in Peers : /\ OnChain(p, log) /\ GoesOn(p, base, batch)
                               /\ Len(log) = base + at - 1

---------------------------------------------------------------------------
\* The peers.

\* A reply is a piece of the peer's chain: from the header after the locator,
\* or from its first one if the peer does not have the locator.
LEMMA ReplyIs ==
    ASSUME NEW p \in Peers, NEW n \in 0 .. Len(ChainOf[p]), NEW l
    PROVE  \E from \in 1 .. n + 1, last \in 0 .. n :
               /\ Reply(p, n, l) = HeadersMsg(SubSeq(ChainOf[p], from, last))
               /\ from <= last + 1
               /\ \A i \in 1 .. n : ChainOf[p][i] = l => from = i + 1
               /\ (\A i \in 1 .. n : ChainOf[p][i] # l) => from = 1
<1> DEFINE C == ChainOf[p]
           found == {i \in 1 .. n : C[i] = l}
           from  == IF found = {} THEN 1 ELSE (CHOOSE i \in found : TRUE) + 1
           last  == IF from + MaxHeaders - 1 < n THEN from + MaxHeaders - 1 ELSE n
<1>1. C \in Seq(Range(C)) /\ Injective(C) /\ Len(C) \in Nat /\ MaxHeaders \in Nat \ {0}
  BY SyncAssumption, LenProperties
<1>2. found # {} => (CHOOSE i \in found : TRUE) \in found
  OBVIOUS
<1>3. from \in 1 .. n + 1
  BY <1>1, <1>2
<1>4. \A i \in 1 .. n : C[i] = l => from = i + 1
  <2> SUFFICES ASSUME NEW i \in 1 .. n, C[i] = l
               PROVE  (CHOOSE j \in found : TRUE) = i
    OBVIOUS
  <2>1. (CHOOSE j \in found : TRUE) \in found
    BY <1>2
  <2> DEFINE j == CHOOSE j \in found : TRUE
  <2>2. j \in 1 .. Len(C) /\ i \in 1 .. Len(C) /\ C[j] = C[i]
    BY <1>1, <2>1
  <2> HIDE DEF j
  <2>3. j = i
    BY <1>1, <2>2 DEF Injective
  <2>4. QED
    BY <2>3 DEF j
<1>5. (\A i \in 1 .. n : C[i] # l) => from = 1
  OBVIOUS
<1>6. Reply(p, n, l) = HeadersMsg(SubSeq(C, from, last))
  BY DEF Reply
<1> HIDE DEF from
<1>7. last \in 0 .. n /\ from <= last + 1
  BY <1>1, <1>3
<1>8. QED
  BY <1>3, <1>4, <1>5, <1>6, <1>7

\* The reply of a peer is a message of headers.
LEMMA ReplyType ==
    ASSUME NEW p \in Peers, NEW n \in 0 .. Len(ChainOf[p]), NEW l
    PROVE  Reply(p, n, l) \in Message /\ IsReply(Reply(p, n, l))
<1>1. PICK from \in 1 .. n + 1, last \in 0 .. n :
          Reply(p, n, l) = HeadersMsg(SubSeq(ChainOf[p], from, last))
  BY ReplyIs
<1>2. ChainOf[p] \in Seq(Range(ChainOf[p])) /\ Range(ChainOf[p]) \subseteq Header
  BY SyncAssumption DEF Header
<1>3. \A i \in 1 .. Len(ChainOf[p]) : ChainOf[p][i] \in Header
  BY <1>2, ElementOfSeq
<1>4. SubSeq(ChainOf[p], from, last) \in Seq(Header)
  BY <1>2, <1>3, SubSeqProperties, LenProperties
<1>5. QED
  BY <1>1, <1>4 DEF HeadersMsg, Message, IsReply

\* The messages of the handshake are no replies, and a reply is the message of
\* its headers.
LEMMA MessageTypes ==
    /\ \A h \in Nat : Version(h) \in Message /\ ~IsReply(Version(h))
    /\ Verack \in Message /\ ~IsReply(Verack)
    /\ Inv \in Message /\ ~IsReply(Inv)
    /\ \A m \in Message : /\ m.type = "version" => m.start_height \in Nat
                          /\ IsReply(m) => m.headers \in Seq(Header)
                                           /\ m = HeadersMsg(m.headers)
BY DEF Version, Verack, Inv, HeadersMsg, Message, IsReply

---------------------------------------------------------------------------
\* Types.

\* A message taken from the front of a slot's buffer.
LEMMA ReceiveType ==
    ASSUME Types, NEW s \in Slots, NEW type, Receive(s, type)
    PROVE  /\ inbox[s] \in Seq(Message) /\ inbox[s] # <<>>
           /\ Head(inbox[s]) \in Message
           /\ Tail(inbox[s]) \in Seq(Message)
           /\ inbox' \in [Slots -> Seq(Message)]
<1>1. inbox[s] \in Seq(Message) /\ inbox[s] # <<>>
  BY DEF Types, Receive
<1>2. Head(inbox[s]) \in Message /\ Tail(inbox[s]) \in Seq(Message)
  BY <1>1, HeadTailProperties
<1>3. QED
  BY <1>1, <1>2 DEF Types, Receive

\* Types holds at the start.
LEMMA TypesInit == Init => Types
<1> SUFFICES ASSUME Init PROVE Types
  OBVIOUS
<1>1. <<>> \in Seq(Header) /\ <<>> \in Seq(Message) /\ <<>> \in Seq(Locator)
  BY EmptySeq
<1>2. Len(<<>>) = 0
  OBVIOUS
<1>3. at \in 1 .. Len(batch) + 1 /\ base \in 0 .. Len(log)
  BY <1>2 DEF Init
<1>4. tip \in [Peers -> Nat] /\ \A p \in Peers : tip[p] <= Len(ChainOf[p])
  BY SyncAssumption DEF Init
<1>5. breaks \in 0 .. MaxBreaks /\ crashes \in 0 .. MaxCrashes
  BY SyncAssumption DEF Init
<1>6. QED
  BY <1>1, <1>3, <1>4, <1>5 DEF Init, Types, PCs, Locator

\* The connections of S end.
LEMMA ForgetType ==
    ASSUME Types, NEW S \in SUBSET Slots, Forget(S)
    PROVE  /\ pc' \in [Slots -> PCs] /\ is_sync_node' \in [Slots -> BOOLEAN]
           /\ locator' \in [Slots -> Locator]
           /\ conn' \in [Slots -> Peers \cup {Nobody}]
           /\ inbox' \in [Slots -> Seq(Message)]
           /\ outbox' \in [Slots -> Seq(Locator)]
<1>1. <<>> \in Seq(Message) /\ <<>> \in Seq(Locator)
  BY EmptySeq
<1>2. QED
  BY <1>1 DEF Types, Forget, Reset, PCs, Locator

\* get_locator_hash returns a locator.
LEMMA LocatorType == ASSUME Types PROVE get_locator_hash(log) \in Locator
<1>1. log # <<>> => log[Len(log)] \in Header
  BY LenProperties, ElementOfSeq DEF Types
<1>2. QED
  BY <1>1 DEF get_locator_hash, Tip, Locator

\* Every step keeps Types.
LEMMA TypesStep == Types /\ Control /\ [Next]_vars => Types'
<1> SUFFICES ASSUME Types, Control, [Next]_vars PROVE Types'
  OBVIOUS
<1> USE DEF store, role, wire, counts
<1>1. ASSUME NEW s \in Slots, NEW p \in Peers, Connect(s, p) PROVE Types'
  <2>1. tip[p] \in Nat
    BY DEF Types
  <2>2. <<Version(tip[p]), Verack>> \in Seq(Message)
    BY <2>1, MessageTypes
  <2>3. QED
    BY <1>1, <2>1, <2>2 DEF Types, Connect, PCs
<1>2. ASSUME NEW s \in Slots, Leave(s) PROVE Types'
  <2>1. breaks' \in 0 .. MaxBreaks /\ has_sync_node' \in BOOLEAN
    <3>1. breaks \in 0 .. MaxBreaks /\ breaks < MaxBreaks /\ breaks' = breaks + 1
      BY <1>2 DEF Types, Leave
    <3>2. has_sync_node' \in {FALSE, has_sync_node} /\ has_sync_node \in BOOLEAN
      BY <1>2 DEF Types, Leave
    <3>3. breaks' \in 0 .. MaxBreaks
      BY <3>1, SyncAssumption
    <3>4. QED
      BY <3>2, <3>3
  <2>2. {s} \in SUBSET Slots /\ Forget({s})
    BY <1>2 DEF Leave
  <2>3. QED
    BY <1>2, <2>1, <2>2, ForgetType DEF Types, Leave
<1>3. ASSUME NEW s \in Slots, HandleVersion(s) PROVE Types'
  <2>1. inbox' \in [Slots -> Seq(Message)] /\ Head(inbox[s]).start_height \in Nat
    BY <1>3, ReceiveType, MessageTypes DEF HandleVersion, Receive
  <2>2. QED
    BY <1>3, <2>1 DEF Types, HandleVersion
<1>4. ASSUME NEW s \in Slots, Swap(s) PROVE Types'
  <2>1. inbox' \in [Slots -> Seq(Message)]
    BY <1>4, ReceiveType DEF Swap
  <2>2. QED
    BY <1>4, <2>1 DEF Types, Swap, PCs
<1>5. ASSUME NEW s \in Slots, TakeRole(s) PROVE Types'
  BY <1>5 DEF Types, TakeRole, PCs
<1>6. ASSUME NEW s \in Slots, HandleOther(s) PROVE Types'
  <2>1. inbox' \in [Slots -> Seq(Message)]
    BY <1>6, ReceiveType DEF HandleOther
  <2>2. QED
    BY <1>6, <2>1 DEF Types, HandleOther
<1>7. ASSUME NEW s \in Slots, SaveBegin(s) PROVE Types'
  <2>1. /\ inbox' \in [Slots -> Seq(Message)]
        /\ Head(inbox[s]).headers \in Seq(Header)
    BY <1>7, ReceiveType, MessageTypes DEF SaveBegin, Receive, IsReply
  <2>2. batch' \in Seq(Header) /\ at' \in 1 .. Len(batch') + 1 /\ base' \in 0 .. Len(log)
    BY <1>7, <2>1, LenProperties DEF Types, SaveBegin
  <2>3. QED
    BY <1>7, <2>1, <2>2 DEF Types, SaveBegin, PCs
<1>8. CASE SaveHeader
  <2>1. at \in 1 .. Len(batch) /\ Len(batch) \in Nat /\ Len(log) \in Nat
    BY <1>8, LenProperties DEF Types, SaveHeader
  <2>2. batch[at] \in Header
    BY <2>1, ElementOfSeq DEF Types
  <2>3. log' \in Seq(Header) /\ base \in 0 .. Len(log')
    BY <1>8, <2>1, <2>2 DEF Types, SaveHeader
  <2>4. QED
    BY <1>8, <2>1, <2>3 DEF Types, SaveHeader
<1>9. CASE SaveEnd
  <2>1. <<>> \in Seq(Header) /\ Len(<<>>) = 0 /\ Len(log) \in Nat
    BY EmptySeq, LenProperties DEF Types
  <2>2. batch' = <<>> /\ at' = 1 /\ base' = 0 /\ saver' = Nobody /\ log' = log
    BY <1>9 DEF SaveEnd, Release
  <2>3. at' \in 1 .. Len(batch') + 1 /\ base' \in 0 .. Len(log')
    BY <2>1, <2>2
  <2>4. pc' \in [Slots -> PCs]
    BY <1>9 DEF Types, SaveEnd, Release, PCs
  <2>5. QED
    BY <1>9, <2>1, <2>2, <2>3, <2>4 DEF Types, SaveEnd, Release
<1>10. ASSUME NEW s \in Slots, ReadLocator(s) PROVE Types'
  BY <1>10, LocatorType DEF Types, ReadLocator, PCs
<1>11. ASSUME NEW s \in Slots, SendRequest(s) PROVE Types'
  <2>1. Append(outbox[s], locator[s]) \in Seq(Locator)
    BY DEF Types
  <2>2. QED
    BY <1>11, <2>1 DEF Types, SendRequest, PCs, Locator
<1>12. ASSUME NEW s \in Slots, Answer(s) PROVE Types'
  <2>1. conn[s] \in Peers /\ inbox[s] \in Seq(Message) /\ outbox[s] \in Seq(Locator)
    BY <1>12 DEF Types, Control, Answer
  <2>2. tip[conn[s]] \in 0 .. Len(ChainOf[conn[s]])
    BY <2>1, SyncAssumption, LenProperties DEF Types
  <2> DEFINE reply == Reply(conn[s], tip[conn[s]], Head(outbox[s]))
  <2>3. reply \in Message
    BY <2>1, <2>2, ReplyType
  <2> HIDE DEF reply
  <2>4. Append(inbox[s], reply) \in Seq(Message) /\ Tail(outbox[s]) \in Seq(Locator)
    BY <1>12, <2>1, <2>3, HeadTailProperties DEF Answer
  <2>5. inbox' = [inbox EXCEPT ![s] = Append(inbox[s], reply)]
    BY <1>12 DEF Answer, reply
  <2>6. QED
    BY <1>12, <2>4, <2>5 DEF Types, Answer
<1>13. ASSUME NEW p \in Peers, Mine(p) PROVE Types'
  <2>1. \A s \in Slots : Append(inbox[s], Inv) \in Seq(Message)
    BY MessageTypes DEF Types
  <2>2. inbox' \in [Slots -> Seq(Message)]
    BY <1>13, <2>1 DEF Types, Mine
  <2>3. tip' \in [Peers -> Nat] /\ \A q \in Peers : tip'[q] <= Len(ChainOf[q])
    BY <1>13 DEF Types, Mine
  <2>4. QED
    BY <1>13, <2>2, <2>3 DEF Types, Mine
<1>14. CASE Restart
  <2>1. PICK n \in (IF Saving THEN base ELSE Len(log)) .. Len(log) : log' = SubSeq(log, 1, n)
    BY <1>14 DEF Restart
  <2>2. n \in 0 .. Len(log) /\ Len(log) \in Nat
    BY <2>1, LenProperties DEF Types
  <2>3. log' \in Seq(Header) /\ Len(log') \in Nat
    BY <2>1, <2>2, LenProperties DEF Types
  <2>4. <<>> \in Seq(Header) /\ Len(<<>>) = 0
    BY EmptySeq
  <2>5. Slots \in SUBSET Slots /\ Forget(Slots)
    BY <1>14 DEF Restart
  <2>6. crashes' \in 0 .. MaxCrashes
    BY <1>14, SyncAssumption DEF Types, Restart
  <2>7. /\ pc' \in [Slots -> PCs] /\ is_sync_node' \in [Slots -> BOOLEAN]
        /\ locator' \in [Slots -> Locator]
        /\ conn' \in [Slots -> Peers \cup {Nobody}]
        /\ inbox' \in [Slots -> Seq(Message)]
        /\ outbox' \in [Slots -> Seq(Locator)]
    BY <2>5, ForgetType
  <2>8. batch' = <<>> /\ at' = 1 /\ base' = 0 /\ saver' = Nobody
    BY <1>14 DEF Restart
  <2>9. at' \in 1 .. Len(batch') + 1 /\ base' \in 0 .. Len(log')
    BY <2>3, <2>4, <2>8
  <2>10. QED
    BY <1>14, <2>3, <2>4, <2>6, <2>7, <2>8, <2>9 DEF Types, Restart
<1>15. CASE UNCHANGED vars
  BY <1>15 DEF Types, vars
<1>16. QED
  BY <1>1, <1>2, <1>3, <1>4, <1>5, <1>6, <1>7, <1>8, <1>9, <1>10, <1>11, <1>12,
     <1>13, <1>14, <1>15 DEF Next, SlotStep

---------------------------------------------------------------------------
\* Where the tasks are.

\* Control holds at the start.
LEMMA ControlInit == Init => Control
BY SyncAssumption DEF Init, Control

\* Every step keeps Control.
LEMMA ControlStep == Types /\ Control /\ [Next]_vars => Control'
<1> SUFFICES ASSUME Types, Control, [Next]_vars PROVE Control'
  OBVIOUS
<1> USE DEF store, role, wire, counts
<1>1. /\ \A s \in Slots : pc[s] = "save" <=> s = saver
      /\ \A s \in Slots : IF pc[s] = "closed"
                          THEN conn[s] = Nobody /\ inbox[s] = <<>> /\ outbox[s] = <<>>
                          ELSE conn[s] \in Peers
      /\ pc \in [Slots -> PCs] /\ conn \in [Slots -> Peers \cup {Nobody}]
      /\ inbox \in [Slots -> Seq(Message)] /\ outbox \in [Slots -> Seq(Locator)]
      /\ Nobody \notin Slots /\ saver \in Slots \cup {Nobody}
  BY SyncAssumption DEF Control, Types
<1>2. ASSUME NEW s \in Slots, NEW p \in Peers, Connect(s, p) PROVE Control'
  BY <1>1, <1>2 DEF Control, Connect
<1>3. ASSUME NEW s \in Slots, Leave(s) PROVE Control'
  BY <1>1, <1>3 DEF Control, Leave, Forget, Reset
<1>4. ASSUME NEW s \in Slots,
             \/ HandleVersion(s) \/ Swap(s) \/ TakeRole(s) \/ HandleOther(s)
      PROVE  Control'
  BY <1>1, <1>4 DEF Control, HandleVersion, Swap, TakeRole, HandleOther, Receive
<1>5. ASSUME NEW s \in Slots, SaveBegin(s) PROVE Control'
  BY <1>1, <1>5 DEF Control, SaveBegin, Receive, Saving
<1>6. CASE SaveHeader
  BY <1>1, <1>6 DEF Control, SaveHeader
<1>7. CASE SaveEnd
  BY <1>1, <1>7 DEF Control, SaveEnd, Release, Saving
<1>8. ASSUME NEW s \in Slots, ReadLocator(s) \/ SendRequest(s) PROVE Control'
  BY <1>1, <1>8 DEF Control, ReadLocator, SendRequest
<1>9. ASSUME NEW s \in Slots, Answer(s) PROVE Control'
  BY <1>1, <1>9 DEF Control, Answer
<1>10. ASSUME NEW p \in Peers, Mine(p) PROVE Control'
  BY <1>1, <1>10, SyncAssumption DEF Control, Mine
<1>11. CASE Restart
  BY <1>1, <1>11 DEF Control, Restart, Forget, Reset
<1>12. CASE UNCHANGED vars
  BY <1>1, <1>12 DEF Control, vars
<1>13. QED
  BY <1>2, <1>3, <1>4, <1>5, <1>6, <1>7, <1>8, <1>9, <1>10, <1>11, <1>12
     DEF Next, SlotStep

---------------------------------------------------------------------------
\* The role.

\* RoleHeld holds at the start.
LEMMA RoleInit == Init => RoleHeld
BY DEF Init, RoleHeld, Holders

\* Every step keeps RoleHeld.
LEMMA RoleStep == Types /\ Control /\ RoleHeld /\ [Next]_vars => RoleHeld'
<1> SUFFICES ASSUME Types, Control, RoleHeld, [Next]_vars PROVE RoleHeld'
  OBVIOUS
<1> USE DEF store, role, wire, counts
<1> DEFINE Has(s) == is_sync_node[s] \/ pc[s] = "claimed"
<1>1. /\ has_sync_node <=> \E s \in Slots : Has(s)
      /\ \A s, t \in Slots : Has(s) /\ Has(t) => s = t
      /\ \A s \in Slots : /\ pc[s] \in {"request", "send"} => is_sync_node[s]
                          /\ pc[s] = "closed" => ~is_sync_node[s]
      /\ pc \in [Slots -> PCs] /\ is_sync_node \in [Slots -> BOOLEAN]
      /\ has_sync_node \in BOOLEAN
  BY DEF RoleHeld, Holders, Types
<1>2. ASSUME NEW s \in Slots, NEW p \in Peers, Connect(s, p) PROVE RoleHeld'
  BY <1>1, <1>2 DEF RoleHeld, Holders, Connect
<1>3. ASSUME NEW s \in Slots, Leave(s) PROVE RoleHeld'
  BY <1>1, <1>3 DEF RoleHeld, Holders, Leave, Forget, Reset
<1>4. ASSUME NEW s \in Slots, Swap(s) PROVE RoleHeld'
  BY <1>1, <1>4 DEF RoleHeld, Holders, Swap, Receive
<1>5. ASSUME NEW s \in Slots, TakeRole(s) PROVE RoleHeld'
  BY <1>1, <1>5 DEF RoleHeld, Holders, TakeRole
<1>6. ASSUME NEW s \in Slots,
             \/ HandleVersion(s) \/ HandleOther(s) \/ SaveBegin(s)
             \/ ReadLocator(s) \/ SendRequest(s)
      PROVE  RoleHeld'
  BY <1>1, <1>6 DEF RoleHeld, Holders, HandleVersion, HandleOther, SaveBegin,
                    ReadLocator, SendRequest, Receive
<1>7. CASE SaveHeader
  BY <1>1, <1>7 DEF RoleHeld, Holders, SaveHeader
<1>8. CASE SaveEnd
  BY <1>1, <1>8 DEF RoleHeld, Holders, SaveEnd, Release, Control
<1>9. ASSUME NEW s \in Slots, Answer(s) PROVE RoleHeld'
  BY <1>1, <1>9 DEF RoleHeld, Holders, Answer
<1>10. ASSUME NEW p \in Peers, Mine(p) PROVE RoleHeld'
  BY <1>1, <1>10 DEF RoleHeld, Holders, Mine
<1>11. CASE Restart
  BY <1>1, <1>11 DEF RoleHeld, Holders, Restart, Forget, Reset
<1>12. CASE UNCHANGED vars
  BY <1>1, <1>12 DEF RoleHeld, Holders, vars
<1>13. QED
  BY <1>2, <1>3, <1>4, <1>5, <1>6, <1>7, <1>8, <1>9, <1>10, <1>11, <1>12
     DEF Next, SlotStep

---------------------------------------------------------------------------
\* One request in the whole pool.

\* The replies in a buffer when its first message is taken.
LEMMA TailReplies ==
    ASSUME NEW q \in Seq(Message), q # <<>>
    PROVE  /\ NoReply(q) => NoReply(Tail(q)) /\ ~IsReply(Head(q))
           /\ OneReply(q) => OneReply(Tail(q))
           /\ OneReply(q) /\ IsReply(Head(q)) => NoReply(Tail(q))
<1>1. /\ Len(q) \in Nat /\ Len(q) > 0 /\ DOMAIN q = 1 .. Len(q) /\ Head(q) = q[1]
      /\ DOMAIN Tail(q) = 1 .. Len(q) - 1
      /\ \A i \in 1 .. Len(q) - 1 : Tail(q)[i] = q[i + 1]
  BY LenProperties, HeadTailProperties
<1>2. QED
  BY <1>1 DEF NoReply, OneReply

\* The replies in a buffer when a message arrives.
LEMMA AppendReplies ==
    ASSUME NEW q \in Seq(Message), NEW m \in Message
    PROVE  /\ NoReply(q) /\ ~IsReply(m) => NoReply(Append(q, m))
           /\ OneReply(q) /\ ~IsReply(m) => OneReply(Append(q, m))
           /\ NoReply(q) => OneReply(Append(q, m))
           /\ ~NoReply(q) => ~NoReply(Append(q, m))
<1>1. /\ Len(q) \in Nat /\ DOMAIN q = 1 .. Len(q)
      /\ DOMAIN Append(q, m) = 1 .. Len(q) + 1
      /\ Append(q, m)[Len(q) + 1] = m
      /\ \A i \in 1 .. Len(q) : Append(q, m)[i] = q[i]
  BY LenProperties, AppendProperties
<1>2. QED
  BY <1>1 DEF NoReply, OneReply

\* There is no reply in an empty inbox.
LEMMA NoReplies == NoReply(<<>>) /\ OneReply(<<>>)
BY DEF NoReply, OneReply

\* OneRequest holds at the start.
LEMMA OneRequestInit == Init => OneRequest
BY NoReplies, SyncAssumption DEF Init, OneRequest, Asking

\* Every step keeps OneRequest: who makes a request has none anywhere else.
LEMMA OneRequestStep ==
    Types /\ Control /\ RoleHeld /\ OneRequest /\ [Next]_vars => OneRequest'
<1> SUFFICES ASSUME Types, Control, RoleHeld, OneRequest, [Next]_vars
             PROVE  OneRequest'
  OBVIOUS
<1> USE DEF store, role, wire, counts
<1> DEFINE Has(s) == is_sync_node[s] \/ pc[s] = "claimed"
           Ask(s) == pc[s] \in {"claimed", "request", "send"}
           Part(s) == /\ Ask(s) \/ s = saver => outbox[s] = <<>> /\ NoReply(inbox[s])
                      /\ outbox[s] # <<>> => Len(outbox[s]) = 1 /\ NoReply(inbox[s])
                      /\ OneReply(inbox[s])
                      /\ Ask(s) \/ s = saver \/ outbox[s] # <<>> \/ ~NoReply(inbox[s])
                             => Has(s)
<1>1. /\ \A s \in Slots : Part(s)
      /\ pc \in [Slots -> PCs] /\ is_sync_node \in [Slots -> BOOLEAN]
      /\ inbox \in [Slots -> Seq(Message)] /\ outbox \in [Slots -> Seq(Locator)]
      /\ saver \in Slots \cup {Nobody} /\ Nobody \notin Slots
  BY SyncAssumption DEF OneRequest, Holders, Asking, Types
<1>2. /\ \A s \in Slots : pc[s] = "save" <=> s = saver
      /\ \A s \in Slots : pc[s] = "closed" => outbox[s] = <<>>
      /\ \A s \in Slots : pc[s] \in {"request", "send"} => is_sync_node[s]
      /\ ~has_sync_node => \A s \in Slots : ~Has(s)
  BY DEF Control, RoleHeld, Holders
<1> SUFFICES ASSUME NEW t \in Slots PROVE Part(t)'
  BY DEF OneRequest, Holders, Asking
<1>3. ASSUME NEW s \in Slots, NEW p \in Peers, Connect(s, p) PROVE Part(t)'
  <2>1. NoReply(<<Version(tip[p]), Verack>>) /\ OneReply(<<Version(tip[p]), Verack>>)
    BY MessageTypes DEF NoReply, OneReply, Types
  <2>2. QED
    BY <1>1, <1>2, <1>3, <2>1 DEF Connect
<1>4. ASSUME NEW s \in Slots, Leave(s) PROVE Part(t)'
  BY <1>1, <1>2, <1>4, NoReplies DEF Leave, Forget, Reset
<1>5. ASSUME NEW s \in Slots, NEW type, Receive(s, type)
      PROVE  /\ inbox[s] \in Seq(Message) /\ inbox[s] # <<>>
             /\ inbox' = [inbox EXCEPT ![s] = Tail(inbox[s])]
             /\ NoReply(inbox[s]) => NoReply(Tail(inbox[s]))
             /\ OneReply(Tail(inbox[s]))
  BY <1>1, <1>5, TailReplies DEF Receive
<1>6. ASSUME NEW s \in Slots, HandleVersion(s) \/ HandleOther(s) PROVE Part(t)'
  <2>1. /\ inbox' = [inbox EXCEPT ![s] = Tail(inbox[s])]
        /\ NoReply(inbox[s]) => NoReply(Tail(inbox[s]))
        /\ OneReply(Tail(inbox[s]))
    BY <1>5, <1>6 DEF HandleVersion, HandleOther
  <2>2. /\ pc' = pc /\ is_sync_node' = is_sync_node /\ saver' = saver
        /\ outbox' = outbox /\ pc[s] = "read"
    BY <1>6 DEF HandleVersion, HandleOther, Receive
  <2>3. QED
    BY <1>1, <1>2, <2>1, <2>2
<1>7. ASSUME NEW s \in Slots, Swap(s) PROVE Part(t)'
  <2>1. /\ inbox' = [inbox EXCEPT ![s] = Tail(inbox[s])]
        /\ NoReply(inbox[s]) => NoReply(Tail(inbox[s]))
        /\ OneReply(Tail(inbox[s]))
    BY <1>5, <1>7 DEF Swap
  <2>2. /\ is_sync_node' = is_sync_node /\ saver' = saver /\ outbox' = outbox
        /\ pc' = IF has_sync_node THEN pc ELSE [pc EXCEPT ![s] = "claimed"]
        /\ pc[s] = "read"
    BY <1>7 DEF Swap, Receive
  <2>3. QED
    BY <1>1, <1>2, <2>1, <2>2
<1>8. ASSUME NEW s \in Slots, TakeRole(s) PROVE Part(t)'
  BY <1>1, <1>2, <1>8 DEF TakeRole
<1>9. ASSUME NEW s \in Slots, SaveBegin(s) PROVE Part(t)'
  <2>1. /\ inbox' = [inbox EXCEPT ![s] = Tail(inbox[s])]
        /\ OneReply(Tail(inbox[s])) /\ inbox[s] \in Seq(Message) /\ inbox[s] # <<>>
    BY <1>5, <1>9 DEF SaveBegin
  <2>2. IsReply(Head(inbox[s]))
    BY <1>9 DEF SaveBegin, Receive, IsReply
  <2>3. ~NoReply(inbox[s]) /\ NoReply(Tail(inbox[s]))
    BY <1>1, <2>1, <2>2, TailReplies
  <2>4. /\ pc' = [pc EXCEPT ![s] = "save"] /\ is_sync_node' = is_sync_node
        /\ saver' = s /\ outbox' = outbox /\ pc[s] = "read" /\ saver = Nobody
    BY <1>9 DEF SaveBegin, Receive, Saving
  <2>5. QED
    BY <1>1, <1>2, <2>1, <2>3, <2>4
<1>10. CASE SaveHeader
  BY <1>1, <1>10 DEF SaveHeader
<1>11. CASE SaveEnd
  BY <1>1, <1>2, <1>11 DEF SaveEnd, Release, Saving
<1>12. ASSUME NEW s \in Slots, ReadLocator(s) PROVE Part(t)'
  BY <1>1, <1>2, <1>12 DEF ReadLocator
<1>13. ASSUME NEW s \in Slots, SendRequest(s) PROVE Part(t)'
  <2>1. outbox[s] = <<>> /\ locator[s] \in Locator
    BY <1>1, <1>13 DEF SendRequest, Types
  <2>2. Append(outbox[s], locator[s]) = <<locator[s]>>
        /\ Len(<<locator[s]>>) = 1 /\ <<locator[s]>> # <<>>
    BY <2>1
  <2>3. /\ pc' = [pc EXCEPT ![s] = "read"] /\ is_sync_node' = is_sync_node
        /\ outbox' = [outbox EXCEPT ![s] = <<locator[s]>>]
        /\ inbox' = inbox /\ saver' = saver /\ pc[s] = "send"
    BY <1>13, <2>2 DEF SendRequest
  <2>4. QED
    BY <1>1, <1>2, <2>2, <2>3
<1>14. ASSUME NEW s \in Slots, Answer(s) PROVE Part(t)'
  <2>1. conn[s] \in Peers /\ tip[conn[s]] \in 0 .. Len(ChainOf[conn[s]])
    <3>1. conn[s] \in Peers
      BY <1>14 DEF Answer, Control
    <3>2. QED
      BY <3>1, SyncAssumption, LenProperties DEF Types
  <2> DEFINE reply == Reply(conn[s], tip[conn[s]], Head(outbox[s]))
  <2>2. reply \in Message
    BY <2>1, ReplyType
  <2>3. /\ outbox' = [outbox EXCEPT ![s] = Tail(outbox[s])]
        /\ inbox' = [inbox EXCEPT ![s] = Append(inbox[s], reply)]
        /\ outbox[s] # <<>>
        /\ pc' = pc /\ is_sync_node' = is_sync_node /\ saver' = saver
    BY <1>14 DEF Answer
  <2> HIDE DEF reply
  <2>4. Len(outbox[s]) = 1 /\ NoReply(inbox[s])
    BY <1>1, <2>3
  <2>5. Tail(outbox[s]) = <<>>
    <3>1. outbox[s] \in Seq(Locator) /\ outbox[s] # <<>>
      BY <1>1, <2>3
    <3>2. Tail(outbox[s]) \in Seq(Locator) /\ Len(Tail(outbox[s])) = 0
      BY <2>4, <3>1, HeadTailProperties
    <3>3. QED
      BY <3>2, EmptySeq
  <2>6. OneReply(Append(inbox[s], reply))
    BY <1>1, <2>2, <2>4, AppendReplies
  <2>7. QED
    BY <1>1, <2>3, <2>5, <2>6
<1>15. ASSUME NEW p \in Peers, Mine(p) PROVE Part(t)'
  <2>1. /\ NoReply(inbox[t]) => NoReply(Append(inbox[t], Inv))
        /\ OneReply(inbox[t]) => OneReply(Append(inbox[t], Inv))
        /\ ~NoReply(inbox[t]) => ~NoReply(Append(inbox[t], Inv))
    BY <1>1, MessageTypes, AppendReplies
  <2>2. inbox'[t] \in {inbox[t], Append(inbox[t], Inv)}
    BY <1>15 DEF Mine
  <2>3. QED
    BY <1>1, <1>15, <2>1, <2>2 DEF Mine
<1>16. CASE Restart
  BY <1>1, <1>16, NoReplies DEF Restart, Forget, Reset
<1>17. CASE UNCHANGED vars
  BY <1>1, <1>17 DEF vars
<1>18. QED
  BY <1>3, <1>4, <1>6, <1>7, <1>8, <1>9, <1>10, <1>11, <1>12, <1>13, <1>14,
     <1>15, <1>16, <1>17 DEF Next, SlotStep

---------------------------------------------------------------------------
\* A save and a request in their halves.

\* While a save holds the lock, no other slot has anything to do with headers.
LEMMA SaveIsAlone ==
    ASSUME Types, Control, RoleHeld, OneRequest, Saving
    PROVE  /\ saver \in Slots /\ saver \in Holders /\ pc[saver] = "save"
           /\ \A s \in Slots : ~Asking(s) /\ outbox[s] = <<>> /\ NoReply(inbox[s])
<1>1. saver \in Slots
  BY DEF Types, Saving
<1>2. saver \in Holders /\ pc[saver] = "save" /\ outbox[saver] = <<>> /\ NoReply(inbox[saver])
  BY <1>1 DEF OneRequest, Control
<1>3. ASSUME NEW s \in Slots, s # saver
      PROVE  ~Asking(s) /\ outbox[s] = <<>> /\ NoReply(inbox[s])
  <2>1. s \notin Holders
    BY <1>2, <1>3 DEF RoleHeld
  <2>2. QED
    BY <2>1 DEF OneRequest
<1>4. QED
  BY <1>1, <1>2, <1>3 DEF Asking

\* The first headers of a log are the same after a header is appended.
LEMMA FirstOfAppended ==
    ASSUME NEW S, NEW c \in Seq(S), NEW h \in S, NEW n \in 0 .. Len(c)
    PROVE  SubSeq(Append(c, h), 1, n) = SubSeq(c, 1, n)
<1>1. /\ Len(c) \in Nat /\ Append(c, h) \in Seq(S)
      /\ \A i \in 1 .. Len(c) : Append(c, h)[i] = c[i] /\ c[i] \in S
  BY LenProperties, AppendProperties, ElementOfSeq
<1>2. QED
  BY <1>1

\* After one header more, the log is the log before the save and NewIn of the
\* headers gone through.
LEMMA SaveHeaderStep ==
    ASSUME Types, Control, RoleHeld, OneRequest, Halves, SaveHeader
    PROVE  LET next == NewIn(Settled, SubSeq(batch, 1, at))
           IN  /\ Settled \in Seq(Header) /\ batch[at] \in Header
               /\ SubSeq(log', 1, base) = Settled
               /\ log' = Settled \o next
<1> DEFINE new  == NewIn(Settled, SubSeq(batch, 1, at - 1))
           next == NewIn(Settled, SubSeq(batch, 1, at))
           h    == batch[at]
<1>1. /\ log \in Seq(Header) /\ batch \in Seq(Header) /\ base \in 0 .. Len(log)
      /\ Len(log) \in Nat /\ at \in 1 .. Len(batch) /\ at - 1 \in 0 .. Len(batch)
  BY LenProperties DEF Types, SaveHeader
<1>2. Settled = SubSeq(log, 1, base) /\ log = Settled \o new
  BY DEF SaveHeader, Halves, Settled
<1>3. \A i \in 1 .. Len(log) : log[i] \in Header
  BY <1>1, ElementOfSeq
<1>4. Settled \in Seq(Header) /\ h \in Header
  BY <1>1, <1>2, <1>3, SubSeqProperties, ElementOfSeq
<1>5. new \in Seq(Header) /\ next = WithNew(Settled, new, h)
  BY <1>1, <1>4, NewInSteps
<1> HIDE DEF new, next, h
<1>6. Range(log) = Range(Settled) \cup Range(new)
  BY <1>2, <1>4, <1>5, RangeConcatenation
<1>7. CASE h \in Range(log)
  <2>1. log' = log
    BY <1>7 DEF SaveHeader, h
  <2>2. QED
    BY <1>2, <1>4, <1>5, <1>6, <1>7, <2>1 DEF WithNew, next, h
<1>8. CASE h \notin Range(log)
  <2>1. log' = Append(log, h) /\ next = Append(new, h)
    BY <1>5, <1>6, <1>8 DEF SaveHeader, h, WithNew
  <2>2. Append(log, h) = log \o <<h>> /\ Append(new, h) = new \o <<h>> /\ <<h>> \in Seq(Header)
    BY <1>1, <1>4, <1>5, AppendIsConcat
  <2>3. log' = Settled \o next
    <3>1. (Settled \o new) \o <<h>> = Settled \o (new \o <<h>>)
      BY <1>4, <1>5, <2>2, ConcatAssociative
    <3>2. QED
      BY <1>2, <2>1, <2>2, <3>1
  <2>4. SubSeq(log', 1, base) = Settled
    BY <1>1, <1>2, <1>4, <2>1, FirstOfAppended
  <2>5. QED
    BY <1>4, <2>3, <2>4 DEF next, h
<1>9. QED
  BY <1>7, <1>8

\* Halves holds at the start.
LEMMA HalvesInit == Init => Halves
BY DEF Init, Halves, Saving

\* Every step keeps Halves.
LEMMA HalvesStep ==
    Types /\ Control /\ RoleHeld /\ OneRequest /\ Halves /\ [Next]_vars => Halves'
<1> SUFFICES ASSUME Types, Control, RoleHeld, OneRequest, Halves, [Next]_vars
             PROVE  Halves'
  OBVIOUS
<1> USE DEF role, wire, counts
<1> DEFINE Sends(s) == pc[s] = "send" => locator[s] = get_locator_hash(log)
<1>1. /\ \A s \in Slots : Sends(s)
      /\ pc \in [Slots -> PCs] /\ locator \in [Slots -> Locator]
      /\ log \in Seq(Header) /\ saver \in Slots \cup {Nobody} /\ Nobody \notin Slots
  BY SyncAssumption DEF Halves, Types
<1>2. ASSUME UNCHANGED store, NEW s \in Slots,
             \A t \in Slots \ {s} : pc'[t] = pc[t] /\ locator'[t] = locator[t], Sends(s)'
      PROVE  Halves'
  BY <1>1, <1>2 DEF Halves, store, Saving, Settled
<1>3. ASSUME NEW s \in Slots, NEW p \in Peers, Connect(s, p) PROVE Halves'
  BY <1>1, <1>2, <1>3 DEF Connect
<1>4. ASSUME NEW s \in Slots, Leave(s) PROVE Halves'
  BY <1>1, <1>2, <1>4 DEF Leave, Forget, Reset
<1>5. ASSUME NEW s \in Slots,
             \/ HandleVersion(s) \/ Swap(s) \/ TakeRole(s) \/ HandleOther(s)
             \/ ReadLocator(s) \/ SendRequest(s) \/ Answer(s)
      PROVE  Halves'
  <2>1. UNCHANGED store
    BY <1>5 DEF HandleVersion, Swap, TakeRole, HandleOther, ReadLocator, SendRequest, Answer
  <2>2. /\ \A t \in Slots \ {s} : pc'[t] = pc[t] /\ locator'[t] = locator[t]
        /\ log' = log
    BY <1>1, <1>5 DEF HandleVersion, Swap, TakeRole, HandleOther, ReadLocator,
                      SendRequest, Answer, store
  <2>3. Sends(s)'
    BY <1>1, <1>5, <2>2 DEF HandleVersion, Swap, TakeRole, HandleOther, ReadLocator,
                            SendRequest, Answer
  <2>4. QED
    BY <1>2, <2>1, <2>2, <2>3
<1>6. ASSUME NEW s \in Slots, SaveBegin(s) PROVE Halves'
  <2> DEFINE b == Head(inbox[s]).headers
  <2>1. b \in Seq(Header)
    BY <1>6, ReceiveType, MessageTypes DEF SaveBegin, Receive, IsReply
  <2>2. /\ saver' = s /\ batch' = b /\ at' = 1 /\ base' = Len(log) /\ log' = log
        /\ pc' = [pc EXCEPT ![s] = "save"] /\ locator' = locator
    BY <1>6 DEF SaveBegin
  <2> HIDE DEF b
  <2>3. SubSeq(log, 1, Len(log)) = log /\ log \o <<>> = log
    BY <1>1, SubSeqFull, ConcatEmptySeq
  <2>4. NewIn(log, SubSeq(b, 1, 0)) = <<>>
    BY <1>1, <2>1, NewInSteps
  <2>5. Settled' = log /\ at' - 1 = 0
    BY <1>1, <2>2, <2>3 DEF Settled, Saving
  <2>6. NewIn(Settled', SubSeq(batch', 1, at' - 1)) = <<>>
    BY <2>2, <2>4, <2>5
  <2>7. \A t \in Slots : Sends(t)'
    BY <1>1, <2>2
  <2>8. QED
    BY <2>2, <2>3, <2>5, <2>6, <2>7 DEF Halves
<1>7. CASE SaveHeader
  <2>1. \A s \in Slots : ~Asking(s)
    BY <1>7, SaveIsAlone DEF SaveHeader
  <2>2. /\ saver' = saver /\ batch' = batch /\ at' = at + 1 /\ base' = base
        /\ pc' = pc /\ Saving
    BY <1>7 DEF SaveHeader
  <2>3. /\ SubSeq(log', 1, base) = Settled
        /\ log' = Settled \o NewIn(Settled, SubSeq(batch, 1, at))
    BY <1>7, SaveHeaderStep
  <2>4. Settled' = Settled
    BY <2>2, <2>3 DEF Settled, Saving
  <2>5. at' - 1 = at
    BY <2>2 DEF Types
  <2>6. log' = Settled' \o NewIn(Settled', SubSeq(batch', 1, at' - 1))
    BY <2>2, <2>3, <2>4, <2>5
  <2>7. QED
    BY <2>1, <2>2, <2>6 DEF Halves, Asking
<1>8. CASE SaveEnd
  BY <1>1, <1>8 DEF Halves, SaveEnd, Release, Saving
<1>9. ASSUME NEW p \in Peers, Mine(p) PROVE Halves'
  BY <1>1, <1>9 DEF Mine, Halves, store, Saving, Settled
<1>10. CASE Restart
  BY <1>1, <1>10 DEF Halves, Restart, Forget, Reset, Saving
<1>11. CASE UNCHANGED vars
  BY <1>1, <1>11 DEF vars, Halves, store, Saving, Settled
<1>12. QED
  BY <1>3, <1>4, <1>5, <1>6, <1>7, <1>8, <1>9, <1>10, <1>11 DEF Next, SlotStep

\* The inductive invariant, for any number of slots and peers, any chains and
\* any size of a full reply.
THEOREM SyncInvariant == Spec => []SyncInv
<1>1. Init => SyncInv
  BY TypesInit, ControlInit, RoleInit, OneRequestInit, HalvesInit DEF SyncInv
<1>2. SyncInv /\ [Next]_vars => SyncInv'
  BY TypesStep, ControlStep, RoleStep, OneRequestStep, HalvesStep DEF SyncInv
<1>3. QED
  BY <1>1, <1>2, PTL DEF Spec

---------------------------------------------------------------------------
\* What HeaderSync sees.

\* The operators HeaderSync takes from the library are the same ones there.
LEMMA SameOperators ==
    ASSUME NEW S
    PROVE  HS!Range(S) = Range(S) /\ HS!Cardinality(S) = Cardinality(S)
<1>1. HS!Range(S) = Range(S)
  BY DEF HS!Range, Range
<1>2. HS!Cardinality(S) = Cardinality(S)
  BY Zenon DEF HS!Cardinality, Cardinality
<1>3. QED
  BY <1>1, <1>2

\* The owner of the role is the one slot that has it or is about to.
LEMMA OwnerHolds ==
    RoleHeld => /\ \A s \in Slots : Owner = s <=> s \in Holders
                /\ Owner \in Slots \cup {Nobody}
                /\ Owner = Nobody <=> Holders = {}
<1> SUFFICES ASSUME RoleHeld
             PROVE  /\ \A s \in Slots : Owner = s <=> s \in Holders
                    /\ Owner \in Slots \cup {Nobody}
                    /\ Owner = Nobody <=> Holders = {}
  OBVIOUS
<1>1. Holders \subseteq Slots /\ Nobody \notin Slots /\ \A s, t \in Holders : s = t
  BY SyncAssumption DEF Holders, RoleHeld
<1>2. CASE Holders = {}
  BY <1>1, <1>2 DEF Owner
<1>3. CASE Holders # {}
  <2>1. Owner \in Holders
    BY <1>3 DEF Owner
  <2> HIDE DEF Owner, Holders
  <2>2. QED
    BY <1>1, <1>3, <2>1
<1>4. QED
  BY <1>2, <1>3

\* The settled headers are a part of the log.
LEMMA SettledType ==
    ASSUME Types
    PROVE  Settled \in Seq(Header) /\ Range(Settled) \subseteq Range(log)
<1>1. /\ log \in Seq(Header) /\ Len(log) \in Nat /\ base \in 0 .. Len(log)
      /\ \A i \in 1 .. Len(log) : log[i] \in Header
  BY LenProperties, ElementOfSeq DEF Types
<1>2. CASE Saving
  <2>1. Settled = SubSeq(log, 1, base)
    BY <1>2 DEF Settled
  <2>2. /\ Settled \in Seq(Header) /\ Len(Settled) = base
        /\ \A i \in 1 .. base : Settled[i] = log[i]
    BY <1>1, <2>1
  <2>3. QED
    BY <1>1, <2>2, RangeOfSeq, LenProperties DEF Range
<1>3. CASE ~Saving
  BY <1>1, <1>3 DEF Settled
<1>4. QED
  BY <1>2, <1>3

\* The type invariant is a part of SyncInv.
LEMMA TypesShown == SyncInv => TypeOK
<1> SUFFICES ASSUME SyncInv PROVE TypeOK
  OBVIOUS
<1>1. Types /\ Control /\ RoleHeld
  BY DEF SyncInv
<1>2. Range(Settled) \subseteq Header
  <2>1. Settled \in Seq(Header)
    BY <1>1, SettledType
  <2>2. QED
    BY <2>1, RangeOfSeq
<1>3. /\ Owner \in Slots \cup {Nobody}
      /\ \A s \in Slots : Owner = s <=> s \in Holders
  BY <1>1, OwnerHolds
<1>4. \A p \in Peers : tip[p] \in 0 .. Len(ChainOf[p])
  BY <1>1, SyncAssumption, LenProperties DEF Types
<1>5. [s \in Slots |-> Asking(s)] \in [Slots -> BOOLEAN]
  BY DEF Asking
<1>6. ASSUME NEW s \in Slots, conn[s] = Nobody
      PROVE  Unread(s) = <<>> /\ outbox[s] = <<>> /\ ~Asking(s) /\ Owner # s
  <2>1. pc[s] = "closed" /\ s # saver /\ inbox[s] = <<>> /\ outbox[s] = <<>>
    BY <1>1, <1>6, SyncAssumption DEF Control
  <2>2. s \notin Holders
    BY <1>1, <2>1 DEF RoleHeld, Holders
  <2>3. Unread(s) = <<>>
    BY <2>1, ConcatEmptySeq, EmptySeq DEF Unread
  <2>4. QED
    BY <1>3, <2>1, <2>2, <2>3 DEF Asking
<1>7. HS!TypeOK
  <2> HIDE DEF Owner
  <2>1. Range(Settled) \subseteq UNION {Range(ChainOf[p]) : p \in Peers}
    BY <1>2 DEF Header
  <2>2. HS!Known \subseteq UNION {HS!Range(ChainOf[p]) : p \in Peers}
    BY <2>1, SameOperators DEF HS!Known
  <2>3. QED
    BY <1>1, <1>3, <1>4, <1>5, <1>6, <2>2 DEF HS!TypeOK, Types
<1>8. QED
  BY <1>1, <1>7 DEF TypeOK, Types, Control

\* TypeOK holds of every reachable state.
THEOREM SyncTypeOK == Spec => []TypeOK
BY SyncInvariant, TypesShown, PTL

\* In any pool at most one request is under way, and it is the sync node's.
LEMMA OneRequestShown == SyncInv => OneRequestInFlight
<1> SUFFICES ASSUME SyncInv, NEW s \in Slots
             PROVE  IF s = Owner THEN HS!Pending(s) <= 1 ELSE HS!Pending(s) = 0
  BY DEF OneRequestInFlight, HS!OneRequestInFlight
<1> DEFINE q       == Unread(s)
           replies == {i \in DOMAIN q : IsReply(q[i])}
<1>1. Types /\ RoleHeld /\ OneRequest /\ (s = Owner <=> s \in Holders)
  BY OwnerHolds DEF SyncInv
<1>2. /\ inbox[s] \in Seq(Message) /\ outbox[s] \in Seq(Locator) /\ batch \in Seq(Header)
      /\ Len(inbox[s]) \in Nat
  BY <1>1, LenProperties DEF Types
<1>3. HS!Pending(s) = Len(outbox[s]) + (IF Asking(s) THEN 1 ELSE 0) + Cardinality(replies)
  BY SameOperators DEF HS!Pending, IsReply
<1>4. CASE s = saver
  <2>1. ~Asking(s) /\ outbox[s] = <<>> /\ NoReply(inbox[s]) /\ s \in Holders
    BY <1>1, <1>4 DEF SyncInv, Control, OneRequest, Asking
  <2>2. q = <<HeadersMsg(batch)>> \o inbox[s] /\ HeadersMsg(batch) \in Message
    BY <1>2, <1>4 DEF Unread, HeadersMsg, Message
  <2>3. /\ DOMAIN q = 1 .. 1 + Len(inbox[s]) /\ q[1] = HeadersMsg(batch)
        /\ \A i \in 2 .. 1 + Len(inbox[s]) : q[i] = inbox[s][i - 1]
    BY <1>2, <2>2
  <2>4. replies = {1}
    BY <1>2, <2>1, <2>3 DEF NoReply, IsReply, HeadersMsg
  <2>5. Cardinality(replies) = 1
    BY <2>4, FS_Singleton
  <2>6. QED
    BY <1>1, <1>3, <2>1, <2>5
<1>5. CASE s # saver
  <2>1. q = inbox[s]
    BY <1>2, <1>5, ConcatEmptySeq DEF Unread
  <2>2. CASE NoReply(inbox[s])
    <3>1. replies = {}
      BY <2>1, <2>2 DEF NoReply
    <3>2. Cardinality(replies) = 0
      BY <3>1, FS_EmptySet
    <3>3. Len(outbox[s]) \in {0, 1} /\ (Asking(s) => Len(outbox[s]) = 0)
          /\ (s \notin Holders => ~Asking(s) /\ Len(outbox[s]) = 0)
      BY <1>1, <1>2 DEF OneRequest
    <3>4. HS!Pending(s) = Len(outbox[s]) + (IF Asking(s) THEN 1 ELSE 0)
      BY <1>3, <3>2, <3>3
    <3>5. HS!Pending(s) <= 1
      <4>1. CASE Asking(s)
        BY <3>3, <3>4, <4>1
      <4>2. CASE ~Asking(s)
        <5>1. Len(outbox[s]) \in {0, 1}
          BY <3>3
        <5>2. HS!Pending(s) = Len(outbox[s])
          BY <3>4, <4>2, <5>1
        <5>3. HS!Pending(s) = 0 \/ HS!Pending(s) = 1
          BY <5>1, <5>2
        <5>4. QED
          BY <5>3
      <4>3. QED
        BY <4>1, <4>2
    <3>6. ASSUME s \notin Holders PROVE HS!Pending(s) = 0
      <4>1. ~Asking(s) /\ Len(outbox[s]) = 0
        BY <3>3, <3>6
      <4>2. QED
        BY <3>4, <4>1
    <3>7. QED
      BY <1>1, <3>5, <3>6
  <2>3. CASE ~NoReply(inbox[s])
    <3>1. ~Asking(s) /\ outbox[s] = <<>> /\ s \in Holders /\ OneReply(inbox[s])
      BY <1>1, <2>3 DEF OneRequest
    <3>2. PICK i \in DOMAIN inbox[s] : replies = {i}
      BY <2>1, <2>3, <3>1 DEF NoReply, OneReply
    <3>3. Cardinality(replies) = 1
      BY <3>2, FS_Singleton
    <3>4. QED
      BY <1>1, <1>3, <3>1, <3>3
  <2>4. QED
    BY <2>2, <2>3
<1>6. QED
  BY <1>4, <1>5

\* Between a request and the end of the save of its reply the sync node makes
\* no other, and no other slot makes any: the awaits of handle_connection.
THEOREM SyncOneRequest == Spec => []OneRequestInFlight
BY SyncInvariant, OneRequestShown, PTL

---------------------------------------------------------------------------
\* The chain.

\* All replies in a buffer fit the headers c.
AllFit(c, q) == \A i \in DOMAIN q : IsReply(q[i]) => Fits(c, q[i].headers)

\* A buffer in which every reply fits: its rest, its first message, and one
\* message more.
LEMMA FitsInBuffers ==
    ASSUME NEW c, NEW q \in Seq(Message), AllFit(c, q)
    PROVE  /\ q # <<>> => AllFit(c, Tail(q)) /\ (IsReply(Head(q)) => Fits(c, Head(q).headers))
           /\ \A m \in Message : (IsReply(m) => Fits(c, m.headers)) => AllFit(c, Append(q, m))
<1>1. Len(q) \in Nat /\ DOMAIN q = 1 .. Len(q)
  BY LenProperties
<1>2. ASSUME q # <<>>
      PROVE  AllFit(c, Tail(q)) /\ (IsReply(Head(q)) => Fits(c, Head(q).headers))
  <2>1. /\ Len(q) > 0 /\ Head(q) = q[1] /\ DOMAIN Tail(q) = 1 .. Len(q) - 1
        /\ \A i \in 1 .. Len(q) - 1 : Tail(q)[i] = q[i + 1]
    BY <1>1, <1>2, LenProperties, HeadTailProperties
  <2>2. QED
    BY <1>1, <2>1 DEF AllFit
<1>3. ASSUME NEW m \in Message, IsReply(m) => Fits(c, m.headers)
      PROVE  AllFit(c, Append(q, m))
  <2>1. /\ DOMAIN Append(q, m) = 1 .. Len(q) + 1 /\ Append(q, m)[Len(q) + 1] = m
        /\ \A i \in 1 .. Len(q) : Append(q, m)[i] = q[i]
    BY <1>1, LenProperties, AppendProperties
  <2>2. QED
    BY <1>1, <1>3, <2>1 DEF AllFit
<1>4. QED
  BY <1>2, <1>3

\* In a buffer without replies every reply fits.
LEMMA NoReplyFits == ASSUME NEW c, NEW q, NoReply(q) PROVE AllFit(c, q)
BY DEF NoReply, AllFit

\* A chain holds headers, no header twice, and neither Genesis nor NoHash.
LEMMA ChainTypes ==
    ASSUME NEW p \in Peers
    PROVE  /\ ChainOf[p] \in Seq(Range(ChainOf[p])) /\ Len(ChainOf[p]) \in Nat
           /\ DOMAIN ChainOf[p] = 1 .. Len(ChainOf[p])
           /\ \A i \in 1 .. Len(ChainOf[p]) : /\ ChainOf[p][i] \in Range(ChainOf[p])
                                              /\ ChainOf[p][i] \in Header
                                              /\ ChainOf[p][i] # NoHash
                                              /\ ChainOf[p][i] # Genesis
           /\ \A i, j \in 1 .. Len(ChainOf[p]) : ChainOf[p][i] = ChainOf[p][j] => i = j
<1>1. ChainOf[p] \in Seq(Range(ChainOf[p])) /\ Injective(ChainOf[p])
  BY SyncAssumption
<1>2. Len(ChainOf[p]) \in Nat /\ DOMAIN ChainOf[p] = 1 .. Len(ChainOf[p])
  BY <1>1, LenProperties
<1>3. \A i \in 1 .. Len(ChainOf[p]) : ChainOf[p][i] \in Range(ChainOf[p])
  BY <1>1, ElementOfSeq
<1>4. NoHash \notin Range(ChainOf[p]) /\ Genesis \notin Range(ChainOf[p])
  BY SyncAssumption
<1>5. Range(ChainOf[p]) \subseteq Header
  BY DEF Header
<1>6. QED
  BY <1>1, <1>2, <1>3, <1>4, <1>5 DEF Injective

\* What any peer replies to a request made after the log either goes on where
\* the log ends or, from a peer that lags behind, is all known.
LEMMA ReplyFits ==
    ASSUME SharedChain, NEW c \in Seq(Header), NEW p \in Peers, OnChain(p, c),
           NEW q \in Peers, NEW n \in 0 .. Len(ChainOf[q])
    PROVE  Fits(c, Reply(q, n, get_locator_hash(c)).headers)
<1> DEFINE l == get_locator_hash(c)
<1>1. PICK from \in 1 .. n + 1, last \in 0 .. n :
          /\ Reply(q, n, l) = HeadersMsg(SubSeq(ChainOf[q], from, last))
          /\ from <= last + 1
          /\ \A i \in 1 .. n : ChainOf[q][i] = l => from = i + 1
          /\ (\A i \in 1 .. n : ChainOf[q][i] # l) => from = 1
  BY ReplyIs
<1> DEFINE hs == SubSeq(ChainOf[q], from, last)
<1>2. Reply(q, n, l).headers = hs
  BY <1>1 DEF HeadersMsg
<1>3. /\ Len(ChainOf[p]) \in Nat /\ Len(ChainOf[q]) \in Nat /\ Len(c) \in Nat
      /\ Len(c) <= Len(ChainOf[p])
      /\ \A i \in 1 .. Len(c) : c[i] = ChainOf[p][i]
      /\ DOMAIN c = 1 .. Len(c) /\ n <= Len(ChainOf[q])
  BY ChainTypes, LenProperties DEF OnChain
<1>4. /\ Len(hs) = last - from + 1
      /\ \A i \in 1 .. last - from + 1 : hs[i] = ChainOf[q][from + i - 1]
  BY <1>1, <1>3, ChainTypes, SubSeqProperties
<1>5. \A i \in 1 .. Len(ChainOf[q]) : i <= Len(ChainOf[p]) => ChainOf[q][i] = ChainOf[p][i]
  BY <1>3, ChainTypes DEF SharedChain
<1> HIDE DEF hs, l
<1>6. CASE c = <<>>
  <2>1. l = Genesis /\ Len(c) = 0
    BY <1>6 DEF l, get_locator_hash, Tip
  <2>2. from = 1
    BY <1>1, <1>3, <2>1, ChainTypes
  <2>3. OnChain(q, c) /\ GoesOn(q, 0, hs)
    BY <1>1, <1>3, <1>4, <2>1, <2>2 DEF OnChain, GoesOn
  <2>4. QED
    BY <1>2, <2>1, <2>3 DEF Fits, l
<1>7. CASE c # <<>> /\ Len(c) <= n
  <2>1. Len(c) \in 1 .. n
    BY <1>3, <1>7, LenProperties
  <2>2. c[Len(c)] = ChainOf[p][Len(c)] /\ ChainOf[p][Len(c)] # NoHash
    BY <1>3, <2>1, ChainTypes
  <2>3. l = ChainOf[q][Len(c)]
    BY <1>3, <1>5, <1>7, <2>1, <2>2 DEF l, get_locator_hash, Tip
  <2>4. from = Len(c) + 1
    BY <1>1, <2>1, <2>3
  <2>5. OnChain(q, c)
    BY <1>3, <1>5, <2>1 DEF OnChain
  <2>6. GoesOn(q, Len(c), hs)
    BY <1>1, <1>3, <1>4, <2>4 DEF GoesOn
  <2>7. QED
    BY <1>2, <2>5, <2>6 DEF Fits, l
<1>8. CASE c # <<>> /\ n < Len(c)
  <2>1. Len(c) \in 1 .. Len(ChainOf[p])
    BY <1>3, <1>8, LenProperties
  <2>2. c[Len(c)] = ChainOf[p][Len(c)] /\ ChainOf[p][Len(c)] # NoHash
    BY <1>3, <2>1, ChainTypes
  <2>3. l = ChainOf[p][Len(c)]
    BY <1>8, <2>2 DEF l, get_locator_hash, Tip
  <2>4. ASSUME NEW i \in 1 .. n PROVE ChainOf[q][i] = ChainOf[p][i] /\ ChainOf[q][i] # l
    <3>1. i \in 1 .. Len(ChainOf[p]) /\ i \in 1 .. Len(ChainOf[q]) /\ i # Len(c)
      BY <1>3, <1>8
    <3>2. ChainOf[q][i] = ChainOf[p][i]
      BY <1>5, <3>1
    <3>3. QED
      BY <2>1, <2>3, <3>1, <3>2, ChainTypes
  <2>5. from = 1
    BY <1>1, <2>4
  <2>6. \A i \in 1 .. Len(hs) : hs[i] = c[i] /\ i \in DOMAIN c
    BY <1>1, <1>3, <1>4, <1>8, <2>4, <2>5
  <2>7. DOMAIN hs = 1 .. Len(hs)
    BY <1>1, ChainTypes DEF hs
  <2>8. Range(hs) \subseteq Range(c)
    BY <2>6, <2>7 DEF Range
  <2>9. QED
    BY <1>2, <2>8 DEF Fits, l
<1>9. QED
  BY <1>3, <1>6, <1>7, <1>8

\* A save that follows the chain goes on following it.
LEMMA SaveFollows ==
    ASSUME Types, ChainInv, SaveHeader
    PROVE  /\ \E p \in Peers : OnChain(p, log')
           /\ \/ Range(batch) \subseteq Range(log')
              \/ \E p \in Peers : /\ OnChain(p, log') /\ GoesOn(p, base, batch)
                                  /\ Len(log') = base + at
<1>1. /\ log \in Seq(Header) /\ batch \in Seq(Header) /\ base \in Nat
      /\ Len(log) \in Nat /\ at \in 1 .. Len(batch) /\ Len(batch) \in Nat
      /\ DOMAIN log = 1 .. Len(log) /\ DOMAIN batch = 1 .. Len(batch) /\ Saving
  BY LenProperties DEF Types, SaveHeader
<1>2. CASE Range(batch) \subseteq Range(log)
  <2>1. batch[at] \in Range(log)
    BY <1>1, <1>2 DEF Range
  <2>2. log' = log
    BY <2>1 DEF SaveHeader
  <2>3. QED
    BY <1>2, <2>2 DEF ChainInv
<1>3. ASSUME NEW p \in Peers, OnChain(p, log), GoesOn(p, base, batch), Len(log) = base + at - 1
      PROVE  OnChain(p, log') /\ Len(log') = base + at
  <2>1. /\ base + at \in 1 .. Len(ChainOf[p]) /\ base + at = Len(log) + 1
        /\ batch[at] = ChainOf[p][Len(log) + 1]
    BY <1>1, <1>3, ChainTypes DEF GoesOn
  <2>2. ASSUME NEW i \in 1 .. Len(log) PROVE log[i] # batch[at]
    <3>1. log[i] = ChainOf[p][i] /\ i \in 1 .. Len(ChainOf[p]) /\ i # Len(log) + 1
      BY <1>1, <1>3, ChainTypes DEF OnChain
    <3>2. QED
      BY <1>1, <2>1, <3>1, ChainTypes
  <2>3. batch[at] \notin Range(log)
    BY <1>1, <2>2 DEF Range
  <2>4. log' = Append(log, batch[at]) /\ batch[at] \in Header
    BY <1>1, <2>3, ElementOfSeq DEF SaveHeader
  <2>5. /\ Len(log') = Len(log) + 1 /\ log'[Len(log) + 1] = batch[at]
        /\ \A i \in 1 .. Len(log) : log'[i] = log[i]
    BY <1>1, <2>4, AppendProperties
  <2>6. OnChain(p, log')
    <3>1. \A i \in 1 .. Len(log) : log[i] = ChainOf[p][i]
      BY <1>3 DEF OnChain
    <3>2. \A i \in 1 .. Len(log') : i \in 1 .. Len(log) \/ i = Len(log) + 1
      BY <1>1, <2>5
    <3>3. \A i \in 1 .. Len(log') : log'[i] = ChainOf[p][i]
      BY <2>1, <2>5, <3>1, <3>2
    <3>4. Len(log') <= Len(ChainOf[p])
      BY <2>1, <2>5, ChainTypes
    <3>5. QED
      BY <3>3, <3>4 DEF OnChain
  <2>7. QED
    BY <1>1, <1>3, <2>5, <2>6
<1>4. QED
  BY <1>1, <1>2, <1>3 DEF ChainInv

\* ChainInv holds at the start.
LEMMA ChainInit == SharedChain /\ Init => ChainInv
<1> SUFFICES ASSUME SharedChain, Init PROVE ChainInv
  OBVIOUS
<1>1. PICK p \in Peers : TRUE
  BY DEF SharedChain
<1>2. OnChain(p, log)
  BY ChainTypes DEF Init, OnChain
<1>3. \A s \in Slots : outbox[s] = <<>> /\ inbox[s] = <<>>
  BY DEF Init
<1>4. ~Saving
  BY DEF Init, Saving
<1>5. QED
  BY <1>2, <1>3, <1>4 DEF ChainInv

\* Every step keeps ChainInv: a request asks for what follows the log, and
\* while it is under way nobody else appends to the log.
LEMMA ChainStep == SharedChain /\ SyncInv /\ ChainInv /\ [Next]_vars => ChainInv'
<1> SUFFICES ASSUME SharedChain, SyncInv, ChainInv, [Next]_vars PROVE ChainInv'
  OBVIOUS
<1> USE DEF role, wire, counts
<1> DEFINE Fit(s) == /\ outbox[s] # <<>> => outbox[s][1] = get_locator_hash(log)
                     /\ AllFit(log, inbox[s])
<1>1. /\ Types /\ Control /\ RoleHeld /\ OneRequest /\ Halves
      /\ inbox \in [Slots -> Seq(Message)] /\ outbox \in [Slots -> Seq(Locator)]
      /\ saver \in Slots \cup {Nobody} /\ Nobody \notin Slots
  BY SyncAssumption DEF SyncInv, Types
<1>2. \A s \in Slots : Fit(s)
  BY DEF ChainInv, AllFit
<1>3. ASSUME UNCHANGED store, \A s \in Slots : Fit(s)' PROVE ChainInv'
  BY <1>3 DEF ChainInv, AllFit, store, Saving
<1>4. AllFit(log, <<>>)
  BY NoReplies, NoReplyFits
<1>5. ASSUME NEW s \in Slots, NEW type, Receive(s, type)
      PROVE  /\ inbox' = [inbox EXCEPT ![s] = Tail(inbox[s])]
             /\ inbox[s] \in Seq(Message) /\ inbox[s] # <<>>
             /\ AllFit(log, Tail(inbox[s]))
             /\ IsReply(Head(inbox[s])) => Fits(log, Head(inbox[s]).headers)
  BY <1>1, <1>2, <1>5, FitsInBuffers DEF Receive
<1>6. ASSUME NEW s \in Slots, NEW p \in Peers, Connect(s, p) PROVE ChainInv'
  <2>1. NoReply(<<Version(tip[p]), Verack>>)
    BY <1>1, MessageTypes DEF NoReply, Types
  <2>2. AllFit(log, <<Version(tip[p]), Verack>>)
    BY <2>1, NoReplyFits
  <2>3. /\ UNCHANGED <<store, outbox>> /\ log' = log
        /\ inbox' = [inbox EXCEPT ![s] = <<Version(tip[p]), Verack>>]
    BY <1>6 DEF Connect, store
  <2>4. QED
    BY <1>1, <1>2, <1>3, <2>2, <2>3
<1>7. ASSUME NEW s \in Slots, Leave(s) PROVE ChainInv'
  BY <1>1, <1>2, <1>3, <1>4, <1>7 DEF Leave, Forget, Reset, store
<1>8. ASSUME NEW s \in Slots, HandleVersion(s) \/ Swap(s) \/ HandleOther(s)
      PROVE  ChainInv'
  <2>1. /\ inbox' = [inbox EXCEPT ![s] = Tail(inbox[s])]
        /\ AllFit(log, Tail(inbox[s]))
    BY <1>5, <1>8 DEF HandleVersion, Swap, HandleOther
  <2>2. UNCHANGED <<store, outbox>> /\ log' = log
    BY <1>8 DEF HandleVersion, Swap, HandleOther, store
  <2>3. QED
    BY <1>1, <1>2, <1>3, <2>1, <2>2
<1>9. ASSUME NEW s \in Slots, TakeRole(s) \/ ReadLocator(s) PROVE ChainInv'
  BY <1>2, <1>3, <1>9 DEF TakeRole, ReadLocator, store
<1>10. ASSUME NEW s \in Slots, SaveBegin(s) PROVE ChainInv'
  <2> DEFINE b == Head(inbox[s]).headers
  <2>1. Receive(s, "headers") /\ IsReply(Head(inbox[s]))
    BY <1>10 DEF SaveBegin, Receive, IsReply
  <2>2. /\ inbox' = [inbox EXCEPT ![s] = Tail(inbox[s])]
        /\ AllFit(log, Tail(inbox[s])) /\ Fits(log, b)
    BY <1>5, <2>1
  <2>3. /\ saver' = s /\ batch' = b /\ at' = 1 /\ base' = Len(log) /\ log' = log
        /\ outbox' = outbox
    BY <1>10 DEF SaveBegin
  <2> HIDE DEF b
  <2>4. Len(log) \in Nat
    BY <1>1, LenProperties DEF Types
  <2>5. \A t \in Slots : Fit(t)'
    BY <1>1, <1>2, <2>2, <2>3
  <2>6. \/ Range(batch') \subseteq Range(log')
        \/ \E p \in Peers : /\ OnChain(p, log') /\ GoesOn(p, base', batch')
                            /\ Len(log') = base' + at' - 1
    BY <2>2, <2>3, <2>4 DEF Fits
  <2>7. QED
    BY <2>3, <2>5, <2>6 DEF ChainInv, AllFit
<1>11. CASE SaveHeader
  <2>1. /\ saver' = saver /\ batch' = batch /\ at' = at + 1 /\ base' = base
        /\ inbox' = inbox /\ outbox' = outbox /\ Saving
    BY <1>11 DEF SaveHeader
  <2>2. \A s \in Slots : outbox[s] = <<>> /\ NoReply(inbox[s])
    BY <1>1, <2>1, SaveIsAlone
  <2>3. \A s \in Slots : Fit(s)'
    BY <2>1, <2>2, NoReplyFits
  <2>4. /\ \E p \in Peers : OnChain(p, log')
        /\ \/ Range(batch) \subseteq Range(log')
           \/ \E p \in Peers : /\ OnChain(p, log') /\ GoesOn(p, base, batch)
                               /\ Len(log') = base + at
    BY <1>1, <1>11, SaveFollows
  <2>5. base' + at' - 1 = base + at
    BY <1>1, <2>1, LenProperties DEF Types
  <2>6. QED
    BY <2>1, <2>3, <2>4, <2>5 DEF ChainInv, AllFit
<1>12. CASE SaveEnd
  <2>1. log' = log /\ inbox' = inbox /\ outbox' = outbox /\ ~Saving'
    BY <1>12 DEF SaveEnd, Release, Saving
  <2>2. QED
    BY <2>1 DEF ChainInv
<1>13. ASSUME NEW s \in Slots, SendRequest(s) PROVE ChainInv'
  <2>1. pc[s] = "send" /\ locator[s] = get_locator_hash(log) /\ outbox[s] = <<>>
    BY <1>1, <1>13 DEF SendRequest, Halves, OneRequest, Asking
  <2>2. Append(outbox[s], locator[s])[1] = locator[s]
    BY <2>1
  <2>3. /\ outbox' = [outbox EXCEPT ![s] = Append(outbox[s], locator[s])]
        /\ inbox' = inbox /\ UNCHANGED store /\ log' = log
    BY <1>13 DEF SendRequest, store
  <2>4. QED
    BY <1>1, <1>2, <1>3, <2>1, <2>2, <2>3
<1>14. ASSUME NEW s \in Slots, Answer(s) PROVE ChainInv'
  <2> DEFINE l == Head(outbox[s])
             reply == Reply(conn[s], tip[conn[s]], l)
  <2>1. /\ outbox' = [outbox EXCEPT ![s] = Tail(outbox[s])]
        /\ inbox' = [inbox EXCEPT ![s] = Append(inbox[s], reply)]
        /\ outbox[s] # <<>> /\ UNCHANGED store /\ log' = log
    BY <1>14 DEF Answer, store
  <2>2. conn[s] \in Peers
    BY <1>1, <2>1 DEF Control
  <2>3. tip[conn[s]] \in 0 .. Len(ChainOf[conn[s]])
    BY <1>1, <2>2, ChainTypes DEF Types
  <2>4. l = get_locator_hash(log) /\ Tail(outbox[s]) = <<>>
    <3>1. outbox[s] \in Seq(Locator) /\ Len(outbox[s]) = 1
      BY <1>1, <2>1 DEF OneRequest
    <3>2. Head(outbox[s]) = outbox[s][1]
      BY <2>1, <3>1, HeadTailProperties
    <3>3. Tail(outbox[s]) \in Seq(Locator) /\ Len(Tail(outbox[s])) = 0
      BY <2>1, <3>1, HeadTailProperties
    <3>4. Tail(outbox[s]) = <<>>
      BY <3>3, EmptySeq
    <3>5. QED
      BY <1>2, <2>1, <3>2, <3>4
  <2>5. PICK p \in Peers : OnChain(p, log)
    BY DEF ChainInv
  <2>6. log \in Seq(Header)
    BY <1>1 DEF Types
  <2>7. Fits(log, reply.headers) /\ reply \in Message
    BY <2>2, <2>3, <2>4, <2>5, <2>6, ReplyFits, ReplyType
  <2> HIDE DEF reply
  <2>8. AllFit(log, Append(inbox[s], reply))
    BY <1>1, <1>2, <2>7, FitsInBuffers
  <2>9. QED
    BY <1>1, <1>2, <1>3, <2>1, <2>4, <2>8
<1>15. ASSUME NEW p \in Peers, Mine(p) PROVE ChainInv'
  <2>1. \A s \in Slots : AllFit(log, Append(inbox[s], Inv))
    BY <1>1, <1>2, MessageTypes, FitsInBuffers
  <2>2. /\ \A s \in Slots : inbox'[s] \in {inbox[s], Append(inbox[s], Inv)}
        /\ outbox' = outbox /\ UNCHANGED store /\ log' = log
    BY <1>15 DEF Mine, store
  <2>3. QED
    BY <1>2, <1>3, <2>1, <2>2
<1>16. CASE Restart
  <2>1. PICK n \in (IF Saving THEN base ELSE Len(log)) .. Len(log) : log' = SubSeq(log, 1, n)
    BY <1>16 DEF Restart
  <2>2. log \in Seq(Header) /\ n \in 0 .. Len(log) /\ Len(log) \in Nat
    BY <1>1, <2>1, LenProperties DEF Types
  <2>3. Len(log') = n /\ \A i \in 1 .. n : log'[i] = log[i]
    BY <2>1, <2>2
  <2>4. PICK p \in Peers : OnChain(p, log)
    BY DEF ChainInv
  <2>5. OnChain(p, log')
    BY <2>2, <2>3, <2>4, ChainTypes DEF OnChain
  <2>6. /\ ~Saving'
        /\ \A s \in Slots : outbox'[s] = <<>> /\ inbox'[s] = <<>>
    BY <1>16 DEF Restart, Forget, Reset, Saving
  <2>7. QED
    BY <2>5, <2>6 DEF ChainInv
<1>17. CASE UNCHANGED vars
  <2>1. UNCHANGED store /\ log' = log /\ inbox' = inbox /\ outbox' = outbox
    BY <1>17 DEF vars, store
  <2>2. QED
    BY <1>2, <1>3, <2>1
<1>18. QED
  BY <1>6, <1>7, <1>8, <1>9, <1>10, <1>11, <1>12, <1>13, <1>14, <1>15, <1>16,
     <1>17 DEF Next, SlotStep

\* ChainInv says of the log what LogIsChain says.
LEMMA ChainShown == Types /\ ChainInv => LogIsChain
<1> SUFFICES ASSUME Types, ChainInv PROVE LogIsChain
  OBVIOUS
<1>1. PICK p \in Peers : OnChain(p, log)
  BY DEF ChainInv
<1>2. log \in Seq(Header) /\ Len(log) \in Nat /\ Len(log) <= Len(ChainOf[p])
  BY <1>1, LenProperties DEF Types, OnChain
<1> DEFINE c == SubSeq(ChainOf[p], 1, Len(log))
<1>3. /\ c \in Seq(Range(ChainOf[p])) /\ Len(c) = Len(log)
      /\ \A i \in 1 .. Len(log) : c[i] = ChainOf[p][i]
  BY <1>2, ChainTypes, SubSeqProperties
<1> HIDE DEF c
<1>4. \A i \in 1 .. Len(log) : log[i] = c[i]
  BY <1>1, <1>3 DEF OnChain
<1>5. log = c
  BY <1>2, <1>3, <1>4, SeqEqual
<1>6. QED
  BY <1>2, <1>5 DEF LogIsChain, c

\* With peers on one chain, any number of them and of any lengths, the headers
\* in memory are at every moment the first ones of that chain.
THEOREM SyncLogIsChain == SharedChain => (Spec => []LogIsChain)
<1> SUFFICES ASSUME SharedChain PROVE Spec => []LogIsChain
  OBVIOUS
<1>1. Init => ChainInv
  BY ChainInit
<1>2. SyncInv /\ ChainInv /\ [Next]_vars => ChainInv'
  BY ChainStep
<1>3. SyncInv /\ ChainInv => LogIsChain
  BY ChainShown DEF SyncInv
<1>4. QED
  BY <1>1, <1>2, <1>3, SyncInvariant, PTL DEF Spec

---------------------------------------------------------------------------
\* SyncSystem implements HeaderSync: every step of the composed node is a
\* step of it or none.  What a save has put into the log before it ends has
\* not happened yet in HeaderSync, its message is still unread there, and the
\* role belongs to the slot that swapped the flag from the moment of the swap.
---------------------------------------------------------------------------
\* The operators of HeaderSync are those of this system.

\* What both modules build on HeaderView and SyncPeers is the same.
LEMMA SameDefinitions ==
    /\ \A h : HS!Version(h) = Version(h)
    /\ HS!Verack = Verack /\ HS!Inv = Inv
    /\ \A c : HS!get_locator_hash(c) = get_locator_hash(c)
    /\ \A c, b : HS!NewIn(c, b) = NewIn(c, b)
    /\ \A p, n, l : HS!Reply(p, n, l) = Reply(p, n, l)
<1>1. /\ \A h : HS!Version(h) = Version(h)
      /\ HS!Verack = Verack /\ HS!Inv = Inv
  BY DEF HS!Version, Version, HS!Verack, Verack, HS!Inv, Inv
<1>2. \A c : HS!get_locator_hash(c) = get_locator_hash(c)
  BY DEF HS!get_locator_hash, get_locator_hash, HS!Tip, Tip
<1>3. ASSUME NEW c, NEW b PROVE HS!NewIn(c, b) = NewIn(c, b)
  BY Zenon DEF HS!NewIn, NewIn, HS!WithNew, WithNew, HS!Range, Range
<1>4. ASSUME NEW p, NEW n, NEW l PROVE HS!Reply(p, n, l) = Reply(p, n, l)
  BY Zenon DEF HS!Reply, Reply, HS!HeadersMsg, HeadersMsg
<1>5. QED
  BY <1>1, <1>2, <1>3, <1>4

---------------------------------------------------------------------------
\* What HeaderSync sees of a slot.

\* What the refinement mapping shows: the inbox with the batch being saved in
\* front, the one holder of the role, and the log as of the last whole save.
LEMMA Seen ==
    SyncInv =>
        /\ \A s \in Slots : s # saver => Unread(s) = inbox[s]
        /\ \A s \in Slots : s = saver =>
               /\ Unread(s) # <<>> /\ Head(Unread(s)) = HeadersMsg(batch)
               /\ Tail(Unread(s)) = inbox[s]
        /\ \A s \in Slots : Owner = s <=> s \in Holders
        /\ Owner \in Slots \cup {Nobody} /\ (Owner = Nobody <=> Holders = {})
        /\ ~Saving => Settled = log
<1> SUFFICES ASSUME SyncInv
             PROVE  /\ \A s \in Slots : s # saver => Unread(s) = inbox[s]
                    /\ \A s \in Slots : s = saver =>
                           /\ Unread(s) # <<>> /\ Head(Unread(s)) = HeadersMsg(batch)
                           /\ Tail(Unread(s)) = inbox[s]
                    /\ \A s \in Slots : Owner = s <=> s \in Holders
                    /\ Owner \in Slots \cup {Nobody} /\ (Owner = Nobody <=> Holders = {})
                    /\ ~Saving => Settled = log
  OBVIOUS
<1>1. Types /\ RoleHeld
  BY DEF SyncInv
<1>2. ASSUME NEW s \in Slots PROVE inbox[s] \in Seq(Message) /\ HeadersMsg(batch) \in Message
  BY <1>1 DEF Types, HeadersMsg, Message
<1>3. ASSUME NEW s \in Slots, s # saver PROVE Unread(s) = inbox[s]
  BY <1>2, <1>3, ConcatEmptySeq DEF Unread
<1>4. ASSUME NEW s \in Slots, s = saver
      PROVE  /\ Unread(s) # <<>> /\ Head(Unread(s)) = HeadersMsg(batch)
             /\ Tail(Unread(s)) = inbox[s]
  <2> DEFINE m == HeadersMsg(batch)
             q == <<m>> \o inbox[s]
  <2>1. Unread(s) = q /\ inbox[s] \in Seq(Message) /\ m \in Message
    BY <1>2, <1>4 DEF Unread
  <2> HIDE DEF m
  <2>2. /\ Len(q) = 1 + Len(inbox[s]) /\ q \in Seq(Message) /\ q[1] = m
        /\ \A i \in 1 .. Len(inbox[s]) : q[i + 1] = inbox[s][i]
        /\ Len(inbox[s]) \in Nat
    BY <2>1, LenProperties
  <2>3. q # <<>> /\ Head(q) = m
    BY <2>2
  <2>4. Tail(q) \in Seq(Message) /\ Len(Tail(q)) = Len(inbox[s])
        /\ \A i \in 1 .. Len(inbox[s]) : Tail(q)[i] = inbox[s][i]
    BY <2>2, <2>3, HeadTailProperties
  <2>5. Tail(q) = inbox[s]
    BY <2>1, <2>4, SeqEqual
  <2>6. QED
    BY <2>1, <2>3, <2>5 DEF m
<1>5. ~Saving => Settled = log
  BY DEF Settled
<1>6. QED
  BY <1>1, <1>3, <1>4, <1>5, OwnerHolds

\* The same of the next state, and who owns the role there if nobody else
\* holds it.
LEMMA SeenNext ==
    ASSUME SyncInv, SyncInv'
    PROVE  /\ \A s \in Slots : s # saver' => Unread(s)' = inbox'[s]
           /\ \A s \in Slots : Owner' = s <=> s \in Holders'
           /\ Owner' \in Slots \cup {Nobody} /\ (Owner' = Nobody <=> Holders' = {})
           /\ ~Saving' => Settled' = log'
           /\ (\A s \in Slots : s \in Holders' <=> s \in Holders) => Owner' = Owner
<1>1. (SyncInv =>
        /\ \A s \in Slots : s # saver => Unread(s) = inbox[s]
        /\ \A s \in Slots : s = saver =>
               /\ Unread(s) # <<>> /\ Head(Unread(s)) = HeadersMsg(batch)
               /\ Tail(Unread(s)) = inbox[s]
        /\ \A s \in Slots : Owner = s <=> s \in Holders
        /\ Owner \in Slots \cup {Nobody} /\ (Owner = Nobody <=> Holders = {})
        /\ ~Saving => Settled = log)'
  BY Seen, PTL
<1>2. /\ \A s \in Slots : s # saver' => Unread(s)' = inbox'[s]
      /\ \A s \in Slots : Owner' = s <=> s \in Holders'
      /\ Owner' \in Slots \cup {Nobody} /\ (Owner' = Nobody <=> Holders' = {})
      /\ ~Saving' => Settled' = log'
  BY <1>1
<1>3. ASSUME \A s \in Slots : s \in Holders' <=> s \in Holders PROVE Owner' = Owner
  <2>1. \A s \in Slots : Owner' = s <=> Owner = s
    BY <1>2, <1>3, Seen
  <2>2. Owner \in Slots \cup {Nobody} /\ Owner' \in Slots \cup {Nobody}
    BY <1>2, Seen
  <2>3. QED
    BY <2>1, <2>2
<1>4. QED
  BY <1>2, <1>3

---------------------------------------------------------------------------
\* Every step is a step of HeaderSync, or none of its variables change.

\* Who is about to ask, after a step that sets s to b and leaves the others.
LEMMA AskingNext ==
    ASSUME NEW s \in Slots, NEW b \in BOOLEAN,
           \A t \in Slots : t # s => (Asking(t)' <=> Asking(t)),
           Asking(s)' <=> b
    PROVE  [t \in Slots |-> Asking(t)'] = [[t \in Slots |-> Asking(t)] EXCEPT ![s] = b]
<1>1. \A t \in Slots : Asking(t) \in BOOLEAN /\ Asking(t)' \in BOOLEAN
  BY DEF Asking
<1>2. Asking(s)' = b
  BY <1>1
<1>3. ASSUME NEW t \in Slots, t # s PROVE Asking(t)' = Asking(t)
  BY <1>1, <1>3
<1>4. QED
  BY <1>2, <1>3

\* Connect is Connect of HeaderSync.
LEMMA ConnectStep ==
    ASSUME SyncInv, SyncInv', NEW s \in Slots, NEW p \in Peers, Connect(s, p)
    PROVE  HS!Connect(s, p)
<1> USE DEF store, role, wire, counts
<1>1. Types /\ Control /\ RoleHeld /\ Nobody \notin Slots
  BY SyncAssumption DEF SyncInv
<1>2. /\ pc \in [Slots -> PCs] /\ inbox \in [Slots -> Seq(Message)]
      /\ conn[s] = Nobody /\ s # saver /\ pc[s] = "closed"
  BY <1>1 DEF Connect, Control, Types
<1>3. Settled' = Settled /\ Owner' = Owner
  <2>1. \A t \in Slots : t \in Holders' <=> t \in Holders
    BY <1>2 DEF Holders, Connect
  <2>2. Settled' = Settled
    BY DEF Settled, Saving, Connect
  <2>3. QED
    BY <2>1, <2>2, SeenNext
<1>4. [t \in Slots |-> Asking(t)'] = [t \in Slots |-> Asking(t)]
  BY <1>2 DEF Asking, Connect
<1>5. [t \in Slots |-> Unread(t)']
          = [[t \in Slots |-> Unread(t)] EXCEPT ![s] = <<Version(tip[p]), Verack>>]
  <2>1. Unread(s)' = <<Version(tip[p]), Verack>>
    BY <1>2, SeenNext DEF Connect
  <2>2. \A t \in Slots : t # s => Unread(t)' = Unread(t)
    BY <1>2 DEF Connect, Unread
  <2>3. QED
    BY <2>1, <2>2
<1>6. QED
  BY <1>2, <1>3, <1>4, <1>5, SameDefinitions DEF Connect, HS!Connect

\* A connection that ends, with or without the role, is Disconnect.
LEMMA LeaveStep ==
    ASSUME SyncInv, SyncInv', NEW s \in Slots, Leave(s)
    PROVE  HS!Disconnect(s)
<1> USE DEF store, role, wire, counts
<1>1. Types /\ Control /\ RoleHeld /\ Nobody \notin Slots \cup Peers
  BY SyncAssumption DEF SyncInv
<1>2. /\ pc \in [Slots -> PCs] /\ inbox \in [Slots -> Seq(Message)]
      /\ is_sync_node \in [Slots -> BOOLEAN]
      /\ conn \in [Slots -> Peers \cup {Nobody}] /\ outbox \in [Slots -> Seq(Locator)]
      /\ conn[s] # Nobody /\ s # saver /\ pc[s] \in {"read", "send"}
  BY <1>1 DEF Leave, Control, Types
<1>3. Settled' = Settled /\ saver' = saver
  BY DEF Settled, Saving, Leave
<1>4. Owner' = IF Owner = s THEN Nobody ELSE Owner
  <2>1. \A t \in Slots : t \in Holders' <=> t \in Holders /\ t # s
    BY <1>2 DEF Holders, Leave, Forget, Reset
  <2>2. CASE Owner = s
    BY <2>1, <2>2, <1>1, Seen, SeenNext
  <2>3. CASE Owner # s
    <3>1. \A t \in Slots : t \in Holders' <=> t \in Holders
      BY <2>1, <2>3, Seen
    <3>2. QED
      BY <2>3, <3>1, SeenNext
  <2>4. QED
    BY <2>2, <2>3
<1>5. [t \in Slots |-> Asking(t)'] = [[t \in Slots |-> Asking(t)] EXCEPT ![s] = FALSE]
  <2>1. /\ \A t \in Slots : t # s => (Asking(t)' <=> Asking(t))
        /\ Asking(s)' <=> FALSE
    BY <1>2 DEF Asking, Leave, Forget, Reset
  <2>2. QED
    BY <2>1, AskingNext
<1>6. [t \in Slots |-> Unread(t)'] = [[t \in Slots |-> Unread(t)] EXCEPT ![s] = <<>>]
  <2>1. Unread(s)' = <<>>
    BY <1>2, <1>3, SeenNext DEF Leave, Forget, Reset
  <2>2. \A t \in Slots : t # s => Unread(t)' = Unread(t)
    BY DEF Leave, Forget, Reset, Unread
  <2>3. QED
    BY <2>1, <2>2
<1>7. /\ conn' = [conn EXCEPT ![s] = Nobody] /\ outbox' = [outbox EXCEPT ![s] = <<>>]
  BY <1>2 DEF Leave, Forget, Reset
<1>8. QED
  BY <1>2, <1>3, <1>4, <1>5, <1>6, <1>7 DEF Leave, HS!Disconnect

\* A message taken from a slot's buffer is the first that HeaderSync has there.
LEMMA ReceiveStep ==
    ASSUME SyncInv, SyncInv', NEW s \in Slots, NEW type, Receive(s, type),
           UNCHANGED <<saver, batch>>
    PROVE  /\ HS!Receive(s, type)
           /\ [t \in Slots |-> Unread(t)][s] = inbox[s]
           /\ ~Asking(s) /\ pc[s] = "read"
<1>1. Types /\ Control
  BY DEF SyncInv
<1>2. pc[s] = "read" /\ s # saver /\ ~Asking(s) /\ inbox \in [Slots -> Seq(Message)]
  BY <1>1 DEF Receive, Control, Types, Asking
<1>3. Unread(s) = inbox[s] /\ Unread(s)' = Tail(inbox[s])
  BY <1>2, Seen, SeenNext DEF Receive
<1>4. \A t \in Slots : t # s => Unread(t)' = Unread(t)
  BY <1>2 DEF Receive, Unread
<1>5. [t \in Slots |-> Unread(t)']
          = [[t \in Slots |-> Unread(t)] EXCEPT ![s] = Tail(inbox[s])]
  BY <1>3, <1>4
<1>6. QED
  BY <1>2, <1>3, <1>5 DEF HS!Receive, Receive

\* The handler of version is HandleVersion.
LEMMA HandleVersionStep ==
    ASSUME SyncInv, SyncInv', NEW s \in Slots, HandleVersion(s)
    PROVE  HS!HandleVersion(s)
<1> USE DEF store, role, wire, counts
<1>1. /\ HS!Receive(s, "version") /\ [t \in Slots |-> Unread(t)][s] = inbox[s]
  BY ReceiveStep DEF HandleVersion
<1>2. Settled' = Settled /\ Owner' = Owner
  <2>1. \A t \in Slots : t \in Holders' <=> t \in Holders
    BY DEF Holders, HandleVersion
  <2>2. Settled' = Settled
    BY DEF Settled, Saving, HandleVersion
  <2>3. QED
    BY <2>1, <2>2, SeenNext
<1>3. [t \in Slots |-> Asking(t)'] = [t \in Slots |-> Asking(t)]
  BY DEF Asking, HandleVersion
<1>4. QED
  BY <1>1, <1>2, <1>3 DEF HandleVersion, HS!HandleVersion

\* The swap on the flag, won or lost, is the whole of HandleVerack.
LEMMA SwapStep ==
    ASSUME SyncInv, SyncInv', NEW s \in Slots, Swap(s)
    PROVE  HS!HandleVerack(s)
<1> USE DEF store, role, wire, counts
<1>1. Types /\ RoleHeld /\ pc \in [Slots -> PCs]
  BY DEF SyncInv, Types
<1>2. HS!Receive(s, "verack") /\ ~Asking(s) /\ pc[s] = "read"
  BY ReceiveStep DEF Swap
<1>3. Settled' = Settled
  BY DEF Settled, Saving, Swap
<1>4. Owner = Nobody <=> ~has_sync_node
  BY <1>1, Seen DEF RoleHeld
<1>5. CASE has_sync_node
  <2>1. \A t \in Slots : t \in Holders' <=> t \in Holders
    BY <1>5 DEF Holders, Swap
  <2>2. Owner' = Owner
    BY <2>1, SeenNext
  <2>3. [t \in Slots |-> Asking(t)'] = [t \in Slots |-> Asking(t)]
    BY <1>5 DEF Asking, Swap
  <2>4. QED
    BY <1>2, <1>3, <1>4, <1>5, <2>2, <2>3 DEF Swap, HS!HandleVerack
<1>6. CASE ~has_sync_node
  <2>1. pc' = [pc EXCEPT ![s] = "claimed"]
    BY <1>6 DEF Swap
  <2>2. Owner' = s
    <3>1. s \in Holders'
      BY <1>1, <2>1 DEF Holders
    <3>2. QED
      BY <3>1, SeenNext
  <2>3. [t \in Slots |-> Asking(t)'] = [[t \in Slots |-> Asking(t)] EXCEPT ![s] = TRUE]
    BY <1>1, <2>1 DEF Asking
  <2>4. QED
    BY <1>2, <1>3, <1>4, <1>6, <2>2, <2>3 DEF Swap, HS!HandleVerack
<1>7. QED
  BY <1>5, <1>6

\* A batch that adds nothing.
LEMMA EmptyBatch == ASSUME Types PROVE NewIn(Settled, <<>>) = <<>>
<1>1. Settled \in Seq(Header) /\ <<>> \in Seq(Header) /\ SubSeq(<<>>, 1, 0) = <<>>
  BY SettledType, EmptySeq
<1>2. NewIn(Settled, SubSeq(<<>>, 1, 0)) = <<>>
  BY <1>1, NewInSteps
<1>3. QED
  BY <1>1, <1>2

\* The handlers of inv and of a reply without headers are HandleInv and
\* HandleHeaders.
LEMMA HandleOtherStep ==
    ASSUME SyncInv, SyncInv', NEW s \in Slots, HandleOther(s)
    PROVE  HS!HandleInv(s) \/ HS!HandleHeaders(s)
<1> USE DEF store, role, wire, counts
<1>1. Types
  BY DEF SyncInv
<1>2. Settled' = Settled /\ Owner' = Owner
  <2>1. \A t \in Slots : t \in Holders' <=> t \in Holders
    BY DEF Holders, HandleOther
  <2>2. Settled' = Settled
    BY DEF Settled, Saving, HandleOther
  <2>3. QED
    BY <2>1, <2>2, SeenNext
<1>3. [t \in Slots |-> Asking(t)'] = [t \in Slots |-> Asking(t)]
  BY DEF Asking, HandleOther
<1>4. CASE Receive(s, "inv")
  <2>1. HS!Receive(s, "inv")
    BY <1>4, ReceiveStep DEF HandleOther
  <2>2. QED
    BY <1>2, <1>3, <2>1 DEF HandleOther, HS!HandleInv
<1>5. CASE Receive(s, "headers") /\ Head(inbox[s]).headers = <<>>
  <2>1. /\ HS!Receive(s, "headers") /\ ~Asking(s)
        /\ [t \in Slots |-> Unread(t)][s] = inbox[s]
    BY <1>5, ReceiveStep DEF HandleOther
  <2>2. HS!NewIn(Settled, <<>>) = <<>> /\ Settled \o <<>> = Settled
    BY <1>1, SameDefinitions, EmptyBatch, SettledType, ConcatEmptySeq
  <2>3. [t \in Slots |-> Asking(t)'] = [[t \in Slots |-> Asking(t)] EXCEPT ![s] = FALSE]
    <3>1. /\ \A t \in Slots : t # s => (Asking(t)' <=> Asking(t))
          /\ Asking(s)' <=> FALSE
      BY <2>1 DEF Asking, HandleOther
    <3>2. QED
      BY <3>1, AskingNext
  <2>4. QED
    BY <1>2, <1>5, <2>1, <2>2, <2>3 DEF HandleOther, HS!HandleHeaders
<1>6. QED
  BY <1>4, <1>5 DEF HandleOther

\* A step that leaves what HeaderSync sees of the slots and the log.
LEMMA Stutter ==
    ASSUME SyncInv, SyncInv', Settled' = Settled,
           \A t \in Slots : t \in Holders' <=> t \in Holders,
           \A t \in Slots : Unread(t)' = Unread(t) /\ (Asking(t)' <=> Asking(t)),
           UNCHANGED <<target_height, conn, outbox, announced, tip, breaks, crashes>>
    PROVE  UNCHANGED HS!vars
<1>1. Owner' = Owner
  BY SeenNext
<1>2. [t \in Slots |-> Unread(t)'] = [t \in Slots |-> Unread(t)]
  OBVIOUS
<1>3. \A t \in Slots : Asking(t)' = Asking(t)
  BY DEF Asking
<1>4. [t \in Slots |-> Asking(t)'] = [t \in Slots |-> Asking(t)]
  BY <1>3
<1>5. QED
  BY <1>1, <1>2, <1>4 DEF HS!vars, HS!slots

\* Taking the role after a swap that was won stutters.
LEMMA TakeRoleStep ==
    ASSUME SyncInv, SyncInv', NEW s \in Slots, TakeRole(s)
    PROVE  UNCHANGED HS!vars
<1> USE DEF store, role, wire, counts
<1>1. /\ pc \in [Slots -> PCs] /\ is_sync_node \in [Slots -> BOOLEAN]
  BY DEF SyncInv, Types
<1>2. \A t \in Slots : t \in Holders' <=> t \in Holders
  BY <1>1 DEF Holders, TakeRole
<1>3. \A t \in Slots : Unread(t)' = Unread(t) /\ (Asking(t)' <=> Asking(t))
  BY <1>1 DEF Unread, Asking, TakeRole
<1>4. Settled' = Settled
  BY DEF Settled, Saving, TakeRole
<1>5. QED
  BY <1>2, <1>3, <1>4, Stutter DEF TakeRole

\* While a save is under way its message is still unread.
LEMMA SaveBeginStep ==
    ASSUME SyncInv, SyncInv', NEW s \in Slots, SaveBegin(s)
    PROVE  UNCHANGED HS!vars
<1> USE DEF store, role, wire, counts
<1>1. Types /\ Control
  BY DEF SyncInv
<1>2. /\ pc \in [Slots -> PCs] /\ inbox \in [Slots -> Seq(Message)] /\ log \in Seq(Header)
      /\ pc[s] = "read" /\ saver = Nobody /\ Nobody \notin Slots /\ saver' = s
      /\ inbox[s] # <<>> /\ IsReply(Head(inbox[s]))
      /\ inbox' = [inbox EXCEPT ![s] = Tail(inbox[s])]
      /\ batch' = Head(inbox[s]).headers /\ base' = Len(log) /\ log' = log
      /\ pc' = [pc EXCEPT ![s] = "save"] /\ is_sync_node' = is_sync_node
  BY <1>1, SyncAssumption DEF SaveBegin, Receive, Types, Saving, IsReply
<1>3. \A t \in Slots : t \in Holders' <=> t \in Holders
  BY <1>2 DEF Holders
<1>4. Unread(s)' = inbox[s]
  <2>1. /\ inbox[s] \in Seq(Message) /\ Head(inbox[s]) \in Message
        /\ Head(inbox[s]) = HeadersMsg(batch')
    <3>1. inbox[s] \in Seq(Message) /\ Head(inbox[s]) \in Message
      BY <1>2, HeadTailProperties
    <3>2. QED
      BY <1>2, <3>1, MessageTypes
  <2>2. inbox[s] = <<Head(inbox[s])>> \o Tail(inbox[s])
    BY <1>2, <2>1
  <2>3. Unread(s)' = <<HeadersMsg(batch')>> \o Tail(inbox[s])
    BY <1>2 DEF Unread, HeadersMsg
  <2>4. QED
    BY <2>1, <2>2, <2>3
<1>5. ASSUME NEW t \in Slots
      PROVE  Unread(t)' = Unread(t) /\ (Asking(t)' <=> Asking(t))
  <2>1. t # saver /\ Unread(t) = inbox[t]
    BY <1>2, Seen
  <2>2. CASE t = s
    BY <1>2, <1>4, <2>1, <2>2 DEF Asking
  <2>3. CASE t # s
    <3>1. Unread(t)' = inbox'[t]
      BY <1>2, <2>3, SeenNext
    <3>2. QED
      BY <1>2, <2>1, <2>3, <3>1 DEF Asking
  <2>4. QED
    BY <2>2, <2>3
<1>6. Settled' = Settled
  <2>1. Settled = log /\ Settled' = SubSeq(log, 1, Len(log))
    BY <1>2 DEF Settled, Saving
  <2>2. QED
    BY <1>2, <2>1, SubSeqFull
<1>7. QED
  BY <1>3, <1>5, <1>6, Stutter DEF SaveBegin

\* One header of a save stutters.
LEMMA SaveHeaderShown ==
    ASSUME SyncInv, SyncInv', SaveHeader
    PROVE  UNCHANGED HS!vars
<1> USE DEF store, role, wire, counts
<1>1. SubSeq(log', 1, base) = Settled
  BY SaveHeaderStep DEF SyncInv
<1>2. Settled' = Settled
  BY <1>1 DEF Settled, Saving, SaveHeader
<1>3. \A t \in Slots : t \in Holders' <=> t \in Holders
  BY DEF Holders, SaveHeader
<1>4. \A t \in Slots : Unread(t)' = Unread(t) /\ (Asking(t)' <=> Asking(t))
  BY DEF Unread, Asking, SaveHeader
<1>5. QED
  BY <1>2, <1>3, <1>4, Stutter DEF SaveHeader

\* When the save ends it has added what its batch adds, and the slot asks
\* again exactly if HeaderSync's does.
LEMMA SaveEndStep ==
    ASSUME SyncInv, SyncInv', NEW s \in Slots, s = saver, SaveEnd
    PROVE  HS!HandleHeaders(s)
<1> USE DEF store, role, wire, counts
<1> DEFINE new == NewIn(Settled, batch)
<1>1. Types /\ Control /\ RoleHeld /\ OneRequest /\ Halves /\ Saving
  BY DEF SyncInv, SaveEnd, Release
<1>2. /\ s \in Holders /\ pc[s] = "save"
      /\ ~Asking(s) /\ Nobody \notin Slots
  BY <1>1, SyncAssumption, SaveIsAlone
<1>3. /\ log \in Seq(Header) /\ batch \in Seq(Header) /\ Settled \in Seq(Header)
      /\ Len(batch) \in Nat /\ at = Len(batch) + 1 /\ base \in 0 .. Len(log)
      /\ Len(log) \in Nat
      /\ pc \in [Slots -> PCs] /\ is_sync_node \in [Slots -> BOOLEAN]
  <2>1. /\ log \in Seq(Header) /\ batch \in Seq(Header) /\ Settled \in Seq(Header)
        /\ Len(batch) \in Nat /\ base \in 0 .. Len(log) /\ Len(log) \in Nat
        /\ pc \in [Slots -> PCs] /\ is_sync_node \in [Slots -> BOOLEAN]
    BY <1>1, SettledType, LenProperties DEF Types
  <2>2. at = Len(batch) + 1
    BY <1>1, <2>1 DEF Types, SaveEnd, Release
  <2>3. QED
    BY <2>1, <2>2
<1>4. /\ saver' = Nobody /\ log' = log /\ inbox' = inbox /\ is_sync_node' = is_sync_node
      /\ pc' = [pc EXCEPT ![s] =
                    IF is_sync_node[s] /\ Len(log) > base /\ Len(batch) = MaxHeaders
                    THEN "request" ELSE "read"]
  BY <1>1 DEF SaveEnd, Release
<1>5. log = Settled \o new /\ new \in Seq(Header)
  <2>1. SubSeq(batch, 1, at - 1) = batch /\ Len(batch) \in 0 .. Len(batch)
    BY <1>3, SubSeqFull
  <2>2. NewIn(Settled, SubSeq(batch, 1, Len(batch))) \in Seq(Header)
    BY <1>3, <2>1, NewInSteps
  <2>3. at - 1 = Len(batch)
    BY <1>3
  <2>4. log = Settled \o NewIn(Settled, SubSeq(batch, 1, at - 1))
    BY <1>1 DEF Halves
  <2>5. QED
    BY <2>1, <2>2, <2>3, <2>4
<1>6. Settled' = Settled \o new
  BY <1>4, <1>5 DEF Settled, Saving
<1>7. Owner = s /\ Owner' = Owner /\ is_sync_node[s]
  <2>1. \A t \in Slots : t \in Holders' <=> t \in Holders
    BY <1>2, <1>3, <1>4 DEF Holders
  <2>2. Owner' = Owner
    BY <2>1, SeenNext
  <2>3. QED
    BY <1>2, <2>2, Seen DEF Holders
<1>8. /\ [t \in Slots |-> Unread(t)][s] # <<>>
      /\ Head([t \in Slots |-> Unread(t)][s]) = HeadersMsg(batch)
      /\ Tail([t \in Slots |-> Unread(t)][s]) = inbox[s]
  BY <1>2, Seen
<1>9. [t \in Slots |-> Unread(t)'] = [[t \in Slots |-> Unread(t)] EXCEPT ![s] = inbox[s]]
  <2>1. Unread(s)' = inbox[s]
    BY <1>2, <1>4, SeenNext
  <2>2. \A t \in Slots : t # s => Unread(t)' = Unread(t)
    BY <1>2, <1>4, Seen, SeenNext
  <2>3. QED
    BY <2>1, <2>2
<1>10. new # <<>> <=> Len(log) > base
  <2>1. Len(Settled) = base
    BY <1>1, <1>3 DEF Settled
  <2>2. Len(log) = base + Len(new) /\ Len(new) \in Nat
    BY <1>5, <1>3, <2>1, ConcatProperties, LenProperties
  <2>3. Len(new) = 0 <=> new = <<>>
    BY <1>5, EmptySeq
  <2> HIDE DEF new
  <2>4. QED
    BY <1>3, <2>2, <2>3
<1> DEFINE asks == new # <<>> /\ Len(batch) = MaxHeaders
<1>11. [t \in Slots |-> Asking(t)'] = [[t \in Slots |-> Asking(t)] EXCEPT ![s] = asks]
  <2> HIDE DEF new
  <2>1. /\ \A t \in Slots : t # s => (Asking(t)' <=> Asking(t))
        /\ Asking(s)' <=> asks
    BY <1>2, <1>3, <1>4, <1>7, <1>10 DEF Asking
  <2> HIDE DEF asks
  <2>2. asks \in BOOLEAN
    BY DEF asks
  <2>3. QED
    BY <1>2, <2>1, <2>2, AskingNext
<1>12. HS!Receive(s, "headers")
  <2>1. HeadersMsg(batch).type = "headers"
    BY DEF HeadersMsg
  <2>2. ~[t \in Slots |-> Asking(t)][s]
    BY <1>2
  <2>3. QED
    BY <1>8, <1>9, <2>1, <2>2 DEF HS!Receive
<1>13. Head([t \in Slots |-> Unread(t)][s]).headers = batch
  BY <1>8 DEF HeadersMsg
<1>14. QED
  BY <1>6, <1>7, <1>11, <1>12, <1>13, SameDefinitions DEF SaveEnd, Release, HS!HandleHeaders

\* Reading the locator stutters.
LEMMA ReadLocatorStep ==
    ASSUME SyncInv, SyncInv', NEW s \in Slots, ReadLocator(s)
    PROVE  UNCHANGED HS!vars
<1> USE DEF store, role, wire, counts
<1>1. pc \in [Slots -> PCs]
  BY DEF SyncInv, Types
<1>2. \A t \in Slots : t \in Holders' <=> t \in Holders
  BY <1>1 DEF Holders, ReadLocator
<1>3. \A t \in Slots : Unread(t)' = Unread(t) /\ (Asking(t)' <=> Asking(t))
  BY <1>1 DEF Unread, Asking, ReadLocator
<1>4. Settled' = Settled
  BY DEF Settled, Saving, ReadLocator
<1>5. QED
  BY <1>2, <1>3, <1>4, Stutter DEF ReadLocator

\* The locator sent is the best hash of the moment it is sent, although the
\* lock was released in between.
LEMMA SendRequestStep ==
    ASSUME SyncInv, SyncInv', NEW s \in Slots, SendRequest(s)
    PROVE  HS!RequestHeaders(s)
<1> USE DEF store, role, wire, counts
<1>1. /\ pc \in [Slots -> PCs] /\ is_sync_node \in [Slots -> BOOLEAN]
      /\ Types /\ Control /\ RoleHeld /\ OneRequest /\ Halves
  BY DEF SyncInv, Types
<1>2. Asking(s)
  BY DEF SendRequest, Asking
<1>3. ~Saving /\ Settled = log /\ Settled' = Settled
  <2>1. ~Saving
    BY <1>1, <1>2, SaveIsAlone
  <2>2. QED
    BY <2>1 DEF Settled, Saving, SendRequest
<1>4. outbox' = [outbox EXCEPT ![s] = Append(outbox[s], HS!get_locator_hash(Settled))]
  <2>1. locator[s] = get_locator_hash(log)
    BY <1>1 DEF Halves, SendRequest
  <2>2. QED
    BY <1>3, <2>1, SameDefinitions DEF SendRequest
<1>5. Owner' = Owner
  <2>1. \A t \in Slots : t \in Holders' <=> t \in Holders
    BY <1>1 DEF Holders, SendRequest
  <2>2. QED
    BY <2>1, SeenNext
<1>6. [t \in Slots |-> Unread(t)'] = [t \in Slots |-> Unread(t)]
  BY DEF Unread, SendRequest
<1>7. [t \in Slots |-> Asking(t)'] = [[t \in Slots |-> Asking(t)] EXCEPT ![s] = FALSE]
  <2>1. /\ \A t \in Slots : t # s => (Asking(t)' <=> Asking(t))
        /\ Asking(s)' <=> FALSE
    BY <1>1 DEF Asking, SendRequest
  <2>2. QED
    BY <2>1, AskingNext
<1>8. [t \in Slots |-> Asking(t)][s]
  BY <1>2
<1>9. QED
  BY <1>3, <1>4, <1>5, <1>6, <1>7, <1>8 DEF SendRequest, HS!RequestHeaders

\* A peer that answers a request is Answer.
LEMMA AnswerStep ==
    ASSUME SyncInv, SyncInv', NEW s \in Slots, Answer(s)
    PROVE  HS!Answer(s)
<1> USE DEF store, role, wire, counts
<1> DEFINE reply == Reply(conn[s], tip[conn[s]], Head(outbox[s]))
<1>1. /\ Types /\ Control /\ RoleHeld /\ OneRequest
      /\ inbox \in [Slots -> Seq(Message)] /\ Nobody \notin Slots \cup Peers
      /\ saver \in Slots \cup {Nobody}
  BY SyncAssumption DEF SyncInv, Types
<1>2. conn[s] # Nobody
  BY <1>1 DEF Control, Answer
<1>3. saver = Nobody /\ saver' = Nobody
  <2>1. ~Saving
    BY <1>1, SaveIsAlone DEF Answer
  <2>2. QED
    BY <2>1 DEF Saving, Answer
<1>4. Settled' = Settled /\ Owner' = Owner
  <2>1. \A t \in Slots : t \in Holders' <=> t \in Holders
    BY DEF Holders, Answer
  <2>2. Settled' = Settled
    BY DEF Settled, Saving, Answer
  <2>3. QED
    BY <2>1, <2>2, SeenNext
<1>5. [t \in Slots |-> Asking(t)'] = [t \in Slots |-> Asking(t)]
  BY DEF Asking, Answer
<1>6. \A t \in Slots : Unread(t) = inbox[t] /\ Unread(t)' = inbox'[t]
  BY <1>1, <1>3, Seen, SeenNext
<1>7. inbox' = [inbox EXCEPT ![s] = Append(inbox[s], reply)]
  BY DEF Answer
<1>8. [t \in Slots |-> Unread(t)']
          = [[t \in Slots |-> Unread(t)] EXCEPT ![s] = Append(Unread(s), reply)]
  <2> HIDE DEF reply
  <2> QED
    BY <1>1, <1>6, <1>7
<1>9. HS!Reply(conn[s], tip[conn[s]], Head(outbox[s])) = reply
  BY SameDefinitions
<1> HIDE DEF reply
<1>10. QED
  BY <1>2, <1>4, <1>5, <1>8, <1>9 DEF Answer, HS!Answer

\* A block more on the chain of a peer is Mine.
LEMMA MineStep ==
    ASSUME SyncInv, SyncInv', NEW p \in Peers, Mine(p)
    PROVE  HS!Mine(p)
<1> USE DEF store, role, wire, counts
<1>1. inbox \in [Slots -> Seq(Message)] /\ batch \in Seq(Header)
  BY DEF SyncInv, Types
<1>2. Settled' = Settled /\ Owner' = Owner
  <2>1. \A t \in Slots : t \in Holders' <=> t \in Holders
    BY DEF Holders, Mine
  <2>2. Settled' = Settled
    BY DEF Settled, Saving, Mine
  <2>3. QED
    BY <2>1, <2>2, SeenNext
<1>3. [t \in Slots |-> Asking(t)'] = [t \in Slots |-> Asking(t)]
  BY DEF Asking, Mine
<1>4. ASSUME NEW t \in Slots
      PROVE  Unread(t)' = IF conn[t] = p THEN Append(Unread(t), Inv) ELSE Unread(t)
  <2>1. saver' = saver /\ batch' = batch
        /\ inbox'[t] = IF conn[t] = p THEN Append(inbox[t], Inv) ELSE inbox[t]
    BY DEF Mine
  <2> DEFINE first == IF t = saver THEN <<HeadersMsg(batch)>> ELSE <<>>
  <2>2. Unread(t) = first \o inbox[t] /\ Unread(t)' = first \o inbox'[t]
    BY <2>1 DEF Unread
  <2>3. first \in Seq(Message) /\ inbox[t] \in Seq(Message) /\ Inv \in Message
    <3>1. HeadersMsg(batch) \in Message
      BY <1>1 DEF HeadersMsg, Message
    <3>2. <<HeadersMsg(batch)>> \in Seq(Message) /\ <<>> \in Seq(Message)
      BY <3>1, EmptySeq
    <3>3. QED
      BY <1>1, <3>2, MessageTypes
  <2> HIDE DEF first
  <2>4. first \o Append(inbox[t], Inv) = Append(first \o inbox[t], Inv)
    BY <2>3, ConcatAppend
  <2>5. QED
    BY <2>1, <2>2, <2>4
<1>5. [t \in Slots |-> Unread(t)']
          = [t \in Slots |-> IF conn[t] = p THEN Append(Unread(t), Inv) ELSE Unread(t)]
  BY <1>4
<1>6. QED
  BY <1>2, <1>3, <1>5, SameDefinitions DEF Mine, HS!Mine

\* What is on disk when the process is killed in a save is what some of the
\* headers of its batch have added.
LEMMA RestartStep ==
    ASSUME SyncInv, SyncInv', Restart
    PROVE  HS!Restart
<1> USE DEF store, role, wire, counts
<1>1. /\ Types /\ Control /\ RoleHeld /\ OneRequest /\ Halves
      /\ log \in Seq(Header) /\ batch \in Seq(Header) /\ Settled \in Seq(Header)
      /\ base \in 0 .. Len(log) /\ Len(log) \in Nat /\ Len(batch) \in Nat
      /\ at \in 1 .. Len(batch) + 1
  BY SettledType, LenProperties DEF SyncInv, Types
<1>2. /\ saver' = Nobody /\ Settled' = log' /\ Nobody \notin Slots
      /\ \A s \in Slots : /\ ~is_sync_node'[s] /\ pc'[s] = "closed"
                          /\ inbox'[s] = <<>>
      /\ conn' = [s \in Slots |-> Nobody] /\ outbox' = [s \in Slots |-> <<>>]
  BY SyncAssumption DEF Restart, Forget, Reset, Settled, Saving
<1>3. Owner' = Nobody
  <2>1. Holders' = {}
    BY <1>2 DEF Holders
  <2>2. QED
    BY <2>1, SeenNext
<1>4. [s \in Slots |-> Asking(s)'] = [s \in Slots |-> FALSE]
  <2>1. \A s \in Slots : Asking(s)' = FALSE
    BY <1>2 DEF Asking
  <2>2. QED
    BY <2>1
<1>5. [s \in Slots |-> Unread(s)'] = [s \in Slots |-> <<>>]
  <2>1. \A s \in Slots : Unread(s)' = <<>>
    BY <1>2, SeenNext
  <2>2. QED
    BY <2>1
<1>6. PICK n \in (IF Saving THEN base ELSE Len(log)) .. Len(log) : log' = SubSeq(log, 1, n)
  BY DEF Restart
<1> DEFINE U == [s \in Slots |-> Unread(s)]
           A == [s \in Slots |-> Asking(s)]
           N(s) == NewIn(Settled, Head(U[s]).headers)
<1>7. \/ log' = Settled
      \/ \E s \in Slots :
             /\ U[s] # <<>> /\ Head(U[s]).type = "headers" /\ ~A[s]
             /\ \E k \in 1 .. Len(N(s)) : log' = Settled \o SubSeq(N(s), 1, k)
  <2>1. CASE ~Saving
    <3>1. Settled = log /\ n = Len(log)
      BY <1>1, <1>6, <2>1 DEF Settled
    <3>2. log' = log
      BY <1>1, <1>6, <3>1, SubSeqFull
    <3>3. QED
      BY <3>1, <3>2
  <2>2. CASE Saving
    <3> DEFINE new  == NewIn(Settled, batch)
               done == NewIn(Settled, SubSeq(batch, 1, at - 1))
    <3>1. /\ saver \in Slots /\ ~Asking(saver)
          /\ Unread(saver) # <<>> /\ Head(Unread(saver)) = HeadersMsg(batch)
      BY <1>1, <2>2, SaveIsAlone, Seen
    <3>2. /\ U[saver] # <<>> /\ Head(U[saver]).type = "headers" /\ ~A[saver]
          /\ N(saver) = new
      BY <3>1 DEF HeadersMsg
    <3>3. at - 1 \in 0 .. Len(batch)
      BY <1>1
    <3>4. done \in Seq(Header) /\ new \in Seq(Header)
      <4>1. \A k \in 0 .. Len(batch) : NewIn(Settled, SubSeq(batch, 1, k)) \in Seq(Header)
        BY <1>1, NewInSteps
      <4>2. NewIn(Settled, SubSeq(batch, 1, Len(batch))) = new
        BY <1>1, NewInSteps
      <4>3. Len(batch) \in 0 .. Len(batch)
        BY <1>1
      <4>4. QED
        BY <3>3, <4>1, <4>2, <4>3
    <3>5. PICK j \in 0 .. Len(new) : done = SubSeq(new, 1, j)
      BY <1>1, <3>3, NewInPrefix
    <3>6. log = Settled \o done
      BY <1>1, <2>2 DEF Halves
    <3>7. Len(Settled) = base /\ n \in base .. Len(log)
      BY <1>1, <1>6, <2>2 DEF Settled
    <3> HIDE DEF new, done, U, A, N
    <3>8. /\ Len(new) \in Nat /\ Len(done) = j /\ Len(log) = base + j
          /\ \A i \in 1 .. j : done[i] = new[i]
          /\ \A i \in 1 .. base : log[i] = Settled[i]
          /\ \A i \in 1 .. j : log[base + i] = done[i]
      <4>1. /\ Len(new) \in Nat /\ Len(done) = j
            /\ \A i \in 1 .. j : done[i] = new[i]
        BY <3>4, <3>5, LenProperties
      <4>2. /\ Len(log) = base + j
            /\ \A i \in 1 .. base : log[i] = Settled[i]
            /\ \A i \in 1 .. j : log[base + i] = done[i]
        <5>1. /\ Len(Settled \o done) = Len(Settled) + Len(done)
              /\ \A i \in 1 .. Len(Settled) : (Settled \o done)[i] = Settled[i]
              /\ \A i \in 1 .. Len(done) : (Settled \o done)[Len(Settled) + i] = done[i]
          BY <1>1, <3>4, ConcatParts
        <5>2. QED
          BY <3>6, <3>7, <4>1, <5>1
      <4>3. QED
        BY <4>1, <4>2
    <3>9. CASE n = base
      <4>1. log' = SubSeq(log, 1, base) /\ Settled = SubSeq(log, 1, base)
        BY <1>6, <2>2, <3>9 DEF Settled
      <4>2. QED
        BY <4>1
    <3>10. CASE n # base
      <4> DEFINE k == n - base
      <4>1. k \in 1 .. j /\ k \in 1 .. Len(new)
        BY <1>1, <3>5, <3>7, <3>8, <3>10
      <4>2. log' \in Seq(Header) /\ Len(log') = n
            /\ \A i \in 1 .. n : log'[i] = log[i]
        BY <1>1, <1>6, <3>7
      <4> DEFINE part == SubSeq(new, 1, k)
      <4>3. part \in Seq(Header) /\ Len(part) = k /\ \A i \in 1 .. k : part[i] = new[i]
        BY <3>4, <3>8, <4>1
      <4> HIDE DEF part
      <4>4. /\ Settled \o part \in Seq(Header) /\ Len(Settled \o part) = base + k
            /\ \A i \in 1 .. base : (Settled \o part)[i] = Settled[i]
            /\ \A i \in 1 .. k : (Settled \o part)[base + i] = part[i]
        <5>1. /\ Settled \o part \in Seq(Header)
              /\ Len(Settled \o part) = Len(Settled) + Len(part)
              /\ \A i \in 1 .. Len(Settled) : (Settled \o part)[i] = Settled[i]
              /\ \A i \in 1 .. Len(part) : (Settled \o part)[Len(Settled) + i] = part[i]
          <6>1. Settled \in Seq(Header) /\ part \in Seq(Header)
            BY <1>1, <4>3
          <6>2. QED
            BY <6>1, ConcatParts
        <5>2. QED
          BY <3>7, <4>3, <5>1
      <4>5. \A i \in 1 .. n : log'[i] = (Settled \o part)[i]
        <5>1. \A i \in 1 .. n : \/ i \in 1 .. base
                                \/ i - base \in 1 .. k /\ i = base + (i - base)
          BY <1>1, <3>7, <4>1
        <5>2. \A i \in 1 .. k : part[i] = new[i] /\ i \in 1 .. j
          BY <4>1, <4>3
        <5>3. \A i \in 1 .. k : log[base + i] = (Settled \o part)[base + i]
          BY <3>8, <4>4, <5>2
        <5>4. ASSUME NEW i \in 1 .. n, i \in 1 .. base PROVE log'[i] = (Settled \o part)[i]
          BY <3>8, <4>2, <4>4, <5>4
        <5>5. ASSUME NEW i \in 1 .. n, i - base \in 1 .. k, i = base + (i - base)
              PROVE  log'[i] = (Settled \o part)[i]
          <6> DEFINE m == i - base
          <6>1. log[base + m] = (Settled \o part)[base + m]
            BY <5>3, <5>5
          <6>2. QED
            BY <4>2, <5>5, <6>1
        <5>6. QED
          BY <5>1, <5>4, <5>5
      <4>6. log' = Settled \o part
        <5>1. base + k = n
          BY <1>1, <3>7
        <5>2. /\ Settled \o part \in Seq(Header) /\ Len(Settled \o part) = n
              /\ \A i \in 1 .. Len(log') : log'[i] = (Settled \o part)[i]
          BY <4>2, <4>4, <4>5, <5>1
        <5>3. QED
          BY <4>2, <5>2, SeqEqual
      <4>7. \E i \in 1 .. Len(new) : log' = Settled \o SubSeq(new, 1, i)
        BY <4>1, <4>6 DEF part
      <4>8. QED
        BY <3>1, <3>2, <4>7
    <3>11. QED
      BY <3>9, <3>10
  <2>3. QED
    BY <2>1, <2>2
<1>8. QED
  <2>1. \A s \in Slots : HS!NewIn(Settled, Head(U[s]).headers) = N(s)
    BY SameDefinitions
  <2> HIDE DEF N
  <2>2. \/ Settled' = Settled
        \/ \E s \in Slots :
               /\ U[s] # <<>> /\ Head(U[s]).type = "headers" /\ ~A[s]
               /\ \E k \in 1 .. Len(HS!NewIn(Settled, Head(U[s]).headers)) :
                      Settled' = Settled \o SubSeq(HS!NewIn(Settled, Head(U[s]).headers), 1, k)
    <3> HIDE DEF U, A
    <3> QED
      BY <1>2, <1>7, <2>1
  <2>3. QED
    BY <1>2, <1>3, <1>4, <1>5, <2>2 DEF Restart, HS!Restart

\* The initial states map to initial states.
LEMMA InitStep == Init => HS!Init
<1> SUFFICES ASSUME Init PROVE HS!Init
  OBVIOUS
<1>1. Settled = <<>>
  BY DEF Init, Settled, Saving
<1>2. Owner = Nobody
  <2>1. Holders = {}
    BY DEF Init, Holders
  <2>2. QED
    BY <2>1 DEF Owner
<1>3. [s \in Slots |-> Unread(s)] = [s \in Slots |-> <<>>]
  <2>1. \A s \in Slots : s # saver /\ inbox[s] = <<>>
    BY SyncAssumption DEF Init
  <2>2. \A s \in Slots : Unread(s) = <<>>
    BY <2>1, EmptySeq, ConcatEmptySeq DEF Unread
  <2>3. QED
    BY <2>2
<1>4. [s \in Slots |-> Asking(s)] = [s \in Slots |-> FALSE]
  <2>1. \A s \in Slots : Asking(s) = FALSE
    BY DEF Init, Asking
  <2>2. QED
    BY <2>1
<1>5. QED
  BY <1>1, <1>2, <1>3, <1>4 DEF Init, HS!Init

\* Every step maps to a step of HeaderSync or a stutter.
LEMMA NextStep == SyncInv /\ SyncInv' /\ [Next]_vars => [HS!Next]_(HS!vars)
<1> SUFFICES ASSUME SyncInv, SyncInv', [Next]_vars PROVE HS!Next \/ UNCHANGED HS!vars
  OBVIOUS
<1>1. ASSUME NEW s \in Slots, NEW p \in Peers, Connect(s, p) PROVE HS!Next
  BY <1>1, ConnectStep DEF HS!Next
<1>2. ASSUME NEW s \in Slots, Leave(s) PROVE HS!Next
  BY <1>2, LeaveStep DEF HS!Next
<1>3. ASSUME NEW s \in Slots, HandleVersion(s) PROVE HS!Next
  BY <1>3, HandleVersionStep DEF HS!Next
<1>4. ASSUME NEW s \in Slots, Swap(s) PROVE HS!Next
  BY <1>4, SwapStep DEF HS!Next
<1>5. ASSUME NEW s \in Slots, TakeRole(s) PROVE UNCHANGED HS!vars
  BY <1>5, TakeRoleStep
<1>6. ASSUME NEW s \in Slots, HandleOther(s) PROVE HS!Next
  BY <1>6, HandleOtherStep DEF HS!Next
<1>7. ASSUME NEW s \in Slots, SaveBegin(s) PROVE UNCHANGED HS!vars
  BY <1>7, SaveBeginStep
<1>8. CASE SaveHeader
  BY <1>8, SaveHeaderShown
<1>9. CASE SaveEnd
  <2>1. PICK s \in Slots : s = saver
    BY <1>9 DEF SyncInv, Types, SaveEnd, Release, Saving
  <2>2. HS!HandleHeaders(s)
    BY <1>9, <2>1, SaveEndStep
  <2>3. QED
    BY <2>2 DEF HS!Next
<1>10. ASSUME NEW s \in Slots, ReadLocator(s) PROVE UNCHANGED HS!vars
  BY <1>10, ReadLocatorStep
<1>11. ASSUME NEW s \in Slots, SendRequest(s) PROVE HS!Next
  BY <1>11, SendRequestStep DEF HS!Next
<1>12. ASSUME NEW s \in Slots, Answer(s) PROVE HS!Next
  BY <1>12, AnswerStep DEF HS!Next
<1>13. ASSUME NEW p \in Peers, Mine(p) PROVE HS!Next
  BY <1>13, MineStep DEF HS!Next
<1>14. CASE Restart
  BY <1>14, RestartStep DEF HS!Next
<1>15. CASE UNCHANGED vars
  <2>1. UNCHANGED <<log, saver, batch, base, pc, is_sync_node, inbox>>
    BY <1>15 DEF vars, store, role, wire
  <2>2. /\ Settled' = Settled /\ \A t \in Slots : t \in Holders' <=> t \in Holders
        /\ \A t \in Slots : Unread(t)' = Unread(t) /\ (Asking(t)' <=> Asking(t))
    BY <2>1 DEF Settled, Saving, Holders, Unread, Asking
  <2>3. QED
    BY <1>15, <2>2, Stutter DEF vars, wire, counts
<1>16. QED
  BY <1>1, <1>2, <1>3, <1>4, <1>5, <1>6, <1>7, <1>8, <1>9, <1>10, <1>11, <1>12,
     <1>13, <1>14, <1>15 DEF Next, SlotStep

\* The flag, the guards, the lock of the store and the two halves of a request
\* do what HeaderSync says, for any number of slots and peers and any chains,
\* over broken connections and restarts in the middle of a save.
THEOREM SyncImplements == Spec => RefinesHeaderSync
<1>1. Init => HS!Init
  BY InitStep
<1>2. SyncInv /\ SyncInv' /\ [Next]_vars => [HS!Next]_(HS!vars)
  BY NextStep
<1>3. QED
  BY <1>1, <1>2, SyncInvariant, PTL DEF Spec, RefinesHeaderSync, HS!Spec

====
