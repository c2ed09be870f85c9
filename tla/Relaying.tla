-------------------------------- MODULE Relaying --------------------------------
(***************************************************************************)
(* The client's pool and the rangers it dials.                             *)
(***************************************************************************)
EXTENDS Pool

relayingVars == <<poolVars, rangerVars>>

RelayingInit == PoolInit /\ RangerInit

RelayingNext == PoolStep \/ (RangerStep /\ UNCHANGED poolVars)

RelayingSpec == RelayingInit /\ [][RelayingNext]_relayingVars
===============================================================================
