--------------------------- MODULE MCRuntimeStart ---------------------------
(***************************************************************************)
(* Model checking of RuntimeStart: three modules, two versions of code     *)
(* and one that does not compile, and a channel for one command.           *)
(***************************************************************************)
EXTENDS RuntimeStart

CONSTANTS m1, m2, m3

MCModules == <<m1, m2, m3>>
=============================================================================
