--------------------------- MODULE MCWasmRuntime ---------------------------
(* WasmRuntime on small instances: the modules of a run are interchangeable. *)
EXTENDS WasmRuntime, TLC

ModuleSymmetry == Permutations(Modules)
============================================================================
