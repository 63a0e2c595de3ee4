-------------------------- MODULE MCEventDelivery --------------------------
(***************************************************************************)
(* EventDelivery for TLC: dispatchers are interchangeable.                 *)
(***************************************************************************)
EXTENDS EventDelivery, TLC

DispatcherSymmetry == Permutations(Dispatchers)
=============================================================================
