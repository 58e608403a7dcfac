-------------------------- MODULE UpdateProperties ---------------------------
(* What the daemon of UpdateDaemon promises about an update.               *)
EXTENDS UpdateDaemon

\* No update is in progress: the deployment, if there was one, is over.
AtRest == cur.id \in {"Idle", "CheckWait", "UpdateCheck", "InventoryUpdate"}

\* The point of no return is reached only by an update that was downloaded,
\* installed, not rolled back, and verified after the reboot it asked for -
\* whatever the order of power cuts and restarts in between (the switch in
\* initState.getNextState and the order of Install, Reboot and Commit).
CommitVerified ==
    call = "ArtifactCommit" =>
        /\ {"Download", "ArtifactInstall"} \subseteq finished
        /\ "ArtifactRollback" \notin called
        /\ upd.reboot # "no reboot" => "ArtifactVerifyReboot" \in finished

\* Success is reported only when the payload is committed and cleaned up and
\* the database has left the old artifact's name behind (updateCommitState,
\* updateCleanupState, updateStatusReportState).
SuccessIsTrue ==
    cur.id = "StatusReport" /\ cur.status = "success" =>
        /\ {"ArtifactCommit", "Cleanup"} \subseteq finished
        /\ artifactName # "prev"

\* A device that began to install and ends up with its old artifact name has
\* rolled the payload back and has run ArtifactFailure; otherwise its name
\* says that it is the new artifact or a broken one (HandleError of every
\* update state, initState).
OutcomeRecorded ==
    AtRest /\ "ArtifactInstall" \in called /\ artifactName = "prev" =>
        /\ "ArtifactRollback" \in finished
        /\ "ArtifactFailure" \in called

\* A download that began is cleaned up before the daemon is idle again, also
\* if the rollback failed and the artifact is marked as broken, except when
\* the loop detection cut the update short (updateCleanupState,
\* handleStateDataError).
CleanedUp ==
    AtRest /\ "Download" \in called /\ ~cut => "Cleanup" \in called

\* Before the payload is touched, the disk has what a restart needs to
\* recover: which payload it is and whether it can be rolled back; and before
\* the machine is rebooted, how to reboot it back (the extra stores in
\* updateStoreState.Handle, handleSupportsRollback and handleRebootType).
RecoveryInfoOnDisk ==
    /\ call \in Operations \ {"ReadHeaders", "ArtifactFailure", "Cleanup"} =>
           stateData.info.payload
    /\ call \in {"ArtifactInstall", "ArtifactCommit"} =>
           stateData.info.rollback # "unknown"
    /\ call \in RebootOps => stateData.info.reboot \in {"custom", "automatic"}

\* An Error_Enter or Error_Leave script fails.
ErrorScriptFails ==
    Transition(cur) = "ToError" /\ (LeaveFails \/ (pc = "enter" /\ pc' # "handle"))

\* Every deployment comes to an end as long as the database can be written:
\* retries are limited, and the loop detection breaks the loops between
\* states.  There are three exceptions: a payload that never answers, a
\* script that never returns, and scripts of the Error transition that fail
\* again and again: HandleError of Error, and of Cleanup after a failure,
\* leads back there, also on the way to the report that the loop detection
\* asks for (transitionState in app/mender.go returns from.HandleError).
DeploymentEnds ==
    \/ <>[]AwaitsPayload
    \/ <>[]RunsScripts
    \/ []<><<ErrorScriptFails>>_vars
    \/ (cur.id \in UpdateStates ~> cur.id = "Idle")
==============================================================================
