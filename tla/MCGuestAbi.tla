----------------------------- MODULE MCGuestAbi -----------------------------
(* GuestAbi on small instances: tasks and ids are interchangeable.         *)
EXTENDS GuestAbi, TLC

GuestSymmetry == Permutations(Tasks) \cup Permutations(Ids)
=============================================================================
