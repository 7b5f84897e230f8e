------------------------------- MODULE Millis -------------------------------
(***************************************************************************)
(* The millisecond clock every component of the library is driven by: the  *)
(* uint32_t the application reads with millis() and passes as "nowMs".     *)
(* It wraps: ClockMod is 2^32 in the code and a small number in the runs.  *)
(***************************************************************************)
EXTENDS Naturals

CONSTANT ClockMod       \* number of values of the clock

ASSUME ClockModAssumption == ClockMod \in Nat \ {0}

Time == 0 .. ClockMod - 1

(* uint32_t subtraction and addition.  The operands of Plus are below     *)
(* ClockMod, so one conditional wrap is the whole of the modulus.          *)
Minus(a, b) == IF a >= b THEN a - b ELSE a + ClockMod - b
Plus(a, d)  == IF a + d < ClockMod THEN a + d ELSE a + d - ClockMod

(* History counters (never read by the modelled code) stop at a limit.    *)
Saturate(n, limit) == IF n < limit THEN n + 1 ELSE limit
=============================================================================
