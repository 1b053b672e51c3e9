---- MODULE MCPeerPool ----
\* Instance of PeerPool for TLC: two slots, and one address of each kind.
EXTENDS PeerPool, TLC

CONSTANTS s1, s2

TwoSlots  == {s1, s2}
EachKind  == (0 :> "dead") @@ (1 :> "honest") @@ (2 :> "silent")
====
