---------------------------- MODULE MCDelayQueue ----------------------------
(***************************************************************************)
(* Model checking of DelayQueue with a wheel of three levels of two slots, *)
(* and of the level computation with the code's 64 slots for each level.   *)
(***************************************************************************)
EXTENDS DelayQueue, Integers, Bitwise

W == INSTANCE TimerWheel WITH Radix <- 64, NumLevels <- 4

\* level_for as the code computes it: mask in the bits of the lowest level, and
\* divide the position of the highest bit by the bits of a level.
HighestBit(n) == CHOOSE i \in 0..29 : 2^i <= n /\ n < 2^(i + 1)
BitLevelFor(elapsed, when) == HighestBit((elapsed ^^ when) | 63) \div 6

\* Times around the boundaries of the levels.
Boundaries == UNION {{(c * 64^l + d) : d \in {-1, 0, 1}} : c \in {1, 2, 63, 64}, l \in 0..3} \cap Nat

ASSUME LevelForIsHighestBit ==
    \A e, w \in Boundaries : W!LevelFor(e, w) = BitLevelFor(e, w)
=============================================================================
