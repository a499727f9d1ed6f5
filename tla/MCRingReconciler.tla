-------------------------- MODULE MCRingReconciler --------------------------
(***************************************************************************)
(* Model checking of RingReconciler: a Go controller, then a Rust one.     *)
(***************************************************************************)
EXTENDS RingReconciler

MCKind == [c \in Nodes |-> IF c = 0 THEN "go" ELSE "rust"]
=============================================================================
