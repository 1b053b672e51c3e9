---- MODULE SyncPeers ----
(***************************************************************************)
(* The remote peers header synchronisation talks to (external), and the      *)
(* messages that pass between them and the node.  A peer follows the         *)
(* getheaders rule of the Bitcoin protocol on its own chain, and sends valid  *)
(* headers only; what a refused header does is the subject of HeaderStore.    *)
(***************************************************************************)
EXTENDS HeaderView, FiniteSets

CONSTANTS
    Slots,       \* the connection slots of the pool
    Peers,       \* the peers behind the addresses
    ChainOf,     \* the headers each peer will ever have, after genesis
    FirstTip,    \* how many of them it has at the start
    MaxHeaders,  \* headers in a full reply: 2000
    Genesis,     \* the genesis hash of the network
    Nobody,      \* the owner of a free role, the peer of a closed slot
    MaxBreaks,   \* bound: connections broken in a behaviour
    MaxCrashes   \* bound: restarts in a behaviour

ASSUME SyncAssumption ==
    /\ MaxHeaders \in Nat \ {0}
    /\ MaxBreaks \in Nat /\ MaxCrashes \in Nat
    /\ Nobody \notin Slots \cup Peers
    /\ FirstTip \in [Peers -> Nat]
    /\ \A p \in Peers :
           /\ ChainOf[p] \in Seq(Range(ChainOf[p])) /\ Injective(ChainOf[p])
           /\ FirstTip[p] <= Len(ChainOf[p])
           /\ NoHash \notin Range(ChainOf[p]) /\ Genesis \notin Range(ChainOf[p])

\* Peers on one chain: where two of them have a header, it is the same one.
SharedChain ==
    /\ Peers # {}
    /\ \A p, q \in Peers : \A i \in DOMAIN ChainOf[p] \cap DOMAIN ChainOf[q] :
           ChainOf[p][i] = ChainOf[q][i]

Version(h) == [type |-> "version", start_height |-> h]
Verack     == [type |-> "verack"]
Inv        == [type |-> "inv"]
HeadersMsg(hs) == [type |-> "headers", headers |-> hs]

\* The reply to a getheaders of peer p while it has n headers: those after
\* the locator if it has it, else from genesis on.
Reply(p, n, locator) ==
    LET at == {i \in 1 .. n : ChainOf[p][i] = locator}
        from == IF at = {} THEN 1 ELSE (CHOOSE i \in at : TRUE) + 1
        last == IF from + MaxHeaders - 1 < n THEN from + MaxHeaders - 1 ELSE n
    IN  HeadersMsg(SubSeq(ChainOf[p], from, last))

\* The best hash, or genesis for a node without headers.
get_locator_hash(log) == IF Tip(log) = NoHash THEN Genesis ELSE Tip(log)
====
