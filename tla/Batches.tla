---- MODULE Batches ----
(***************************************************************************)
(* What a batch of headers adds to a log (the loop of save_new_headers).     *)
(***************************************************************************)
EXTENDS Integers, Sequences, Functions

\* c, what a batch has added to s so far, after its next header h.
WithNew(s, c, h) == IF h \in Range(s) \cup Range(c) THEN c ELSE Append(c, h)

\* The headers a batch b adds to s, in their order: those s does not have,
\* each at its first place in the batch.
NewIn(s, b) ==
    LET new[n \in 0 .. Len(b)] ==
            IF n = 0 THEN <<>> ELSE WithNew(s, new[n - 1], b[n])
    IN  new[Len(b)]
====
