----------------------------- MODULE MCStateData -----------------------------
(* A small instance of StateData: three deployments, two states, and a     *)
(* count that runs out after three stores.                                 *)
EXTENDS StateData
==============================================================================
