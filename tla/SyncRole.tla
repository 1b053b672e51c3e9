---- MODULE SyncRole ----
(***************************************************************************)
(* What the Sync Node role promises: it is free or one slot's, it goes to a  *)
(* slot only while it is free, and so never from one slot to another at once. *)
(***************************************************************************)
CONSTANTS Slots, Nobody

VARIABLE owner

Init == owner = Nobody

Acquire(s) == owner = Nobody /\ owner' = s

GiveBack == owner # Nobody /\ owner' = Nobody

Next == (\E s \in Slots : Acquire(s)) \/ GiveBack

Spec == Init /\ [][Next]_owner
====
