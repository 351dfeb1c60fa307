--------------------------- MODULE MCTimerService ---------------------------
(* Small instances of TimerService for TLC. *)
EXTENDS TimerService, TLC

CONSTANTS a1, a2, i1, i2, f1

\* Two actions of one key, both due on the first cron tick.
OneIdEach == a1 :> i1 @@ a2 :> i2
OneKeyForBoth == a1 :> f1 @@ a2 :> f1
BothOnTick == a1 :> 1 @@ a2 :> 1
\* Swapping the two actions with their ids changes no definition.
PairSymmetry == {a1 :> a2 @@ a2 :> a1 @@ i1 :> i2 @@ i2 :> i1,
                 a1 :> a1 @@ a2 :> a2 @@ i1 :> i1 @@ i2 :> i2}

\* One action, on the second tick.
SingleId == a1 :> i1
SingleKey == a1 :> f1
OnSecondTick == a1 :> 4
=============================================================================
