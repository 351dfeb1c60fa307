------------------------- MODULE MCTimerTransaction -------------------------
(* Small instances of TimerTransaction for TLC. *)
EXTENDS TimerTransaction, TLC

CONSTANTS a1, a2, i1, i2, f1

\* One action, on the second tick: due at once or not, depending on when it is asked for.
SingleId == a1 :> i1
SingleKey == a1 :> f1
OnSecondTick == a1 :> 2

\* Processes are interchangeable: no definition tells them apart.
ProcSymmetry == Permutations(Procs)
=============================================================================
