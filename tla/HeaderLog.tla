---- MODULE HeaderLog ----
(***************************************************************************)
(* What the header store promises its callers: one log of distinct, valid   *)
(* headers.  What the node answers from is always the view of that log; a    *)
(* prefix of the log, `durable` records long, is on disk; a crash may cut    *)
(* the log back, but never into that prefix.                                 *)
(***************************************************************************)
EXTENDS HeaderView

CONSTANT Valid    \* the headers whose proof of work is right

VARIABLES
    log,      \* the accepted headers, oldest first
    durable,  \* how many of them are on disk
    view      \* what the node answers from

vars == <<log, durable, view>>

Init ==
    /\ log = <<>>
    /\ durable = 0
    /\ view = View(<<>>)

\* A new valid header is accepted; older ones may reach the disk on the way.
Accept(h) ==
    /\ h \notin Range(log)
    /\ log' = Append(log, h)
    /\ durable' \in durable .. Len(log)
    /\ view' = View(log')

\* Every accepted header reaches the disk.
Sync ==
    /\ durable' = Len(log)
    /\ UNCHANGED <<log, view>>

\* The process stops and the next one starts from what is on disk.
Crash ==
    \E d \in durable .. Len(log) :
        /\ log' = SubSeq(log, 1, d)
        /\ durable' = d
        /\ view' = View(log')

Next == (\E h \in Valid : Accept(h)) \/ Sync \/ Crash

Spec == Init /\ [][Next]_vars
====
