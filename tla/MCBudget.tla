------------------------------- MODULE MCBudget -------------------------------
(* Instances of Budget for TLC. *)
EXTENDS Budget, TLC

CONSTANTS r1, r2, r3

\* A heavy request and two light ones, and three light ones.
Mixed == r1 :> 2 @@ r2 :> 1 @@ r3 :> 1
Light == r1 :> 1 @@ r2 :> 1 @@ r3 :> 1

\* A burst ceiling, with a window of one tick, after a ceiling of two ticks.
TwoWindows  == <<2, 1>>
TwoRequests == <<2, 2>>
TwoUnits    == <<3, 2>>

\* One ceiling that admits one request per tick.
OneWindow == <<1>>
OneEach   == <<1>>

LightSymmetry == Permutations({r2, r3})
===============================================================================
