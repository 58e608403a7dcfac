---------------------------- MODULE UpdatePromise ----------------------------
(***************************************************************************)
(* What an update promises to a payload, to the operator and to the        *)
(* server, without states, retries, scripts, database or restarts: which   *)
(* operations a payload may be asked for, when the device may take the new *)
(* artifact's name, and what the server may be told.  UpdateRefinement     *)
(* shows that the daemon of UpdateDaemon keeps the promise.                *)
(***************************************************************************)
CONSTANTS
    Ops,            \* the operations of a payload
    Reports         \* the final statuses the server may be told

VARIABLES
    begun,          \* operations begun in this deployment
    done,           \* operations that succeeded in this deployment
    name,           \* the artifact's name on the device: old, new or broken
    told            \* what the server was last told

promise == <<begun, done, name, told>>

PromiseInit ==
    /\ begun = {}
    /\ done = {}
    /\ name = "prev"
    /\ told = "none"

\* A new deployment begins; everything is relative to it.
Deploy == PromiseInit'

\* The way forward is open until the rollback begins.
Forward == "ArtifactRollback" \notin begun

May(op) ==
    /\ op = "SupportsRollback" => "Download" \in done
    /\ op = "ArtifactInstall" => Forward /\ "Download" \in done
    /\ op \in {"NeedsArtifactReboot", "ArtifactReboot", "ArtifactVerifyReboot", "ArtifactCommit"} =>
           Forward /\ {"Download", "ArtifactInstall"} \subseteq done
    /\ op \in {"ArtifactRollbackReboot", "ArtifactVerifyRollbackReboot"} =>
           "ArtifactRollback" \in done

Begin(op) ==
    /\ May(op)
    /\ begun' = begun \union {op}
    /\ UNCHANGED <<done, name, told>>

Succeed(op) ==
    /\ op \in begun
    /\ done' = done \union {op}
    /\ UNCHANGED <<begun, name, told>>

\* The new artifact's name is taken only for a committed payload.
TakeName ==
    /\ "ArtifactCommit" \in done
    /\ name' = "next"
    /\ UNCHANGED <<begun, done, told>>

\* The artifact is marked as broken, which may happen at any time.
MarkBroken ==
    /\ name' = "broken"
    /\ UNCHANGED <<begun, done, told>>

\* Success is told only of a payload that is committed and cleaned up on a
\* device that has dropped the old name, and "already installed" only of a
\* deployment in which nothing was begun.
Tell(status) ==
    /\ status = "success" => {"ArtifactCommit", "Cleanup"} \subseteq done /\ name # "prev"
    /\ status = "already" => begun = {}
    /\ told' = status
    /\ UNCHANGED <<begun, done, name>>

PromiseNext ==
    \/ Deploy
    \/ \E op \in Ops : Begin(op) \/ Succeed(op)
    \/ TakeName
    \/ MarkBroken
    \/ \E status \in Reports : Tell(status)

Promise == PromiseInit /\ [][PromiseNext]_promise
==============================================================================
