------------------------------ MODULE StoreCount -----------------------------
(* The count of stores and loads that breaks endless loops of states       *)
(* (datastore/datastore.go): both StoreStateDataAndTransaction and         *)
(* LoadStateData count up, and restart the count when it has run out.      *)
EXTENDS Naturals

CONSTANT MaximumStateDataStoreCount

ASSUME StoreCountAssumption == MaximumStateDataStoreCount \in Nat \ {0}

\* Mutant: noticed one call too late.
ExceededLate(count) == count > MaximumStateDataStoreCount

\* The count has run out: the caller gets MaximumStateDataStoreCountExceeded.
Exceeded(count) == count >= MaximumStateDataStoreCount

\* Mutant: the count is never restarted.
NextCountNoRestart(count) == count + 1

\* The count written back: restarted when it has run out, then counted up.
NextCount(count) == (IF Exceeded(count) THEN 0 ELSE count) + 1
==============================================================================
