-------------------------------- MODULE Clock --------------------------------
(***************************************************************************)
(* The clock that a limiter reads once in each call.                       *)
(***************************************************************************)
EXTENDS Integers

CONSTANT MaxTime    \* bound on the clock

ASSUME ClockAssumption == MaxTime \in Nat

VARIABLE now

Time == 0 .. MaxTime

Advance == now < MaxTime /\ now' = now + 1
=============================================================================
