----------------------------- MODULE MCCharging -----------------------------
(* Model checking of Charging: symmetric coroutine slots and EVs.           *)
EXTENDS ChargingLedger, TLC

Symmetry == Permutations(Tasks) \cup Permutations(Evs)
=============================================================================
