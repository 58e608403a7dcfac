-------------------------- MODULE UpdateRefinement ---------------------------
(* The daemon of UpdateDaemon implements the promise of UpdatePromise.     *)
EXTENDS UpdateProperties

Kept == INSTANCE UpdatePromise
    WITH Ops <- Operations, Reports <- Statuses,
         begun <- called, done <- finished, name <- artifactName, told <- server

\* Through every interleaving of handlers, answers, power cuts, restarts,
\* retries and signals the daemon asks a payload only for what UpdatePromise
\* allows, takes the new name only after ArtifactCommit succeeded, and tells
\* the server success only of a committed and cleaned-up payload (all Handle
\* methods of app/state.go, initState, transitionState).
KeepsPromise == Kept!Promise
==============================================================================
