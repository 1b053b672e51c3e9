---- MODULE MCHeaderSync ----
\* Instances of HeaderSync for TLC.
EXTENDS HeaderSync, TLC

CONSTANTS s1, p, q, h1, h2, h3, f3, f4

OneSlot  == {s1}
TwoPeers == {p, q}

\* A fork above the first full reply: q has the longer branch.
TwoChains == (p :> <<h1, h2, h3>>) @@ (q :> <<h1, h2, f3, f4>>)
TwoTips   == (p :> 3) @@ (q :> 4)
====
