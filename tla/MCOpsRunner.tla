---------------------------- MODULE MCOpsRunner ----------------------------
(* OpsRunner on small instances: request ids are interchangeable.          *)
EXTENDS OpsRunner, TLC

IdSymmetry == Permutations(Ids)
============================================================================
