---- MODULE MCMessageStream ----
\* Instances of MessageStream for TLC.  A frame is two to four bytes and a
\* read takes at most three, so that a read ends inside a header, inside a
\* payload, at the end of a frame, or in the next frame.
EXTENDS MessageStream

Msg(c, d, n) == [command |-> c, data |-> d, payload |-> n, flaw |-> "none"]

Sound == {Msg("version", 7, 2), Msg("verack", 0, 0), Msg("ping", 1, 1),
          Msg("ping", 2, 1), Msg("inv", 0, 1), Msg("headers", 1, 2), Msg("tx", 0, 1)}

\* A version message that ends before its relay byte.
Flawed == {Msg("verack", 0, 0), [Msg("version", 7, 1) EXCEPT !.flaw = "payload"]}
====
