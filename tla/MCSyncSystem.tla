---- MODULE MCSyncSystem ----
\* Instances of SyncSystem for TLC: two slots, two peers on one chain; q is
\* behind p and catches up.
EXTENDS SyncSystem, TLC

CONSTANTS s1, s2, p, q, h1, h2, h3, h4, h5

TwoSlots == {s1, s2}
TwoPeers == {p, q}

MainChain == <<h1, h2, h3, h4, h5>>
OneChain  == (p :> MainChain) @@ (q :> SubSeq(MainChain, 1, 3))
OneTip    == (p :> 5) @@ (q :> 2)

ASSUME OneChainIsShared == SharedChain
====
