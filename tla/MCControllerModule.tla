------------------------- MODULE MCControllerModule -------------------------
(* ControllerModule on small instances.                                    *)
EXTENDS ControllerModule, TLC

\* The server's answers: a time that has passed, and one far enough ahead for
\* the module to be swapped out until shortly before it.
PastOrAhead == {-1, 3}
=============================================================================
