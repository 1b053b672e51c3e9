---- MODULE HeaderView ----
(***************************************************************************)
(* What a node that holds the headers s, in the order it accepted them,      *)
(* answers from: the set it knows, its tip and its count.                    *)
(***************************************************************************)
EXTENDS Batches

CONSTANT NoHash    \* [0u8; 32], the tip of a node without headers

Tip(s) == IF s = <<>> THEN NoHash ELSE s[Len(s)]

View(s) == [known |-> Range(s), tip |-> Tip(s), count |-> Len(s)]

Injective(s) == \A i, j \in 1 .. Len(s) : s[i] = s[j] => i = j
====
