---------------------------- MODULE RootfsUpdate -----------------------------
(***************************************************************************)
(* The daemon of UpdateDaemon updating a root filesystem: its payload is   *)
(* the dual rootfs device (installer/dual_rootfs_device.go), which writes  *)
(* the partition that is not running and switches partitions through the   *)
(* environment of the boot loader.                                         *)
(*                                                                         *)
(* The boot loader is external: it counts boots while upgrade_available is *)
(* set, and goes back to the other partition, clearing the flag, when the  *)
(* new one does not come up or is booted a second time uncommitted.        *)
(***************************************************************************)
EXTENDS UpdateProperties

CONSTANT
    NewImages          \* what a complete new image may be: "new", "bad"

ASSUME RootfsAssumption == NewImages \subseteq {"new", "bad"}

VARIABLES
    env,        \* boot loader environment: partition to boot, flag, count
    image,      \* what is on each partition
    running,    \* the partition that is mounted, or "none": nothing boots
    hit         \* history: the windows in which the update was interrupted

rootfs == <<env, image, running>>
rootfsVars == <<vars, rootfs, hit>>

Partitions == {"A", "B"}
Other(p) == IF p = "A" THEN "B" ELSE "A"

\* An image is "old", the artifact before the deployment; "spare", an earlier
\* one; "new"; "bad", complete and does not boot; or "partial", half written.
Boots(p) == image[p] \notin {"bad", "partial"}

RootfsInit ==
    /\ Init
    /\ env = [bootPart |-> "A", upgradeAvailable |-> FALSE, bootcount |-> 0]
    /\ image = [A |-> "old", B |-> "spare"]
    /\ running = "A"
    /\ hit = {}

------------------------------------------------------------------------------
(* The operations of the dual rootfs device.                               *)

HasUpdate == env.upgradeAvailable

\* StoreUpdate: the inactive partition is overwritten, and is complete only
\* at the end.
StoreBegins ==
    /\ call = "Download"
    /\ ret = "none"
    /\ image[Other(running)] # "partial"
    /\ image' = [image EXCEPT ![Other(running)] = "partial"]
    /\ UNCHANGED <<vars, env, running, hit>>

StoreEnds ==
    /\ call = "Download"
    /\ image[Other(running)] = "partial"
    /\ \/ AnswerWith("ok") /\ \E i \in NewImages : image' = [image EXCEPT ![Other(running)] = i]
       \/ "Download" \in FailingOps /\ AnswerWith("err") /\ UNCHANGED image
    /\ UNCHANGED <<env, running, hit>>

\* InstallUpdate: one write of the environment makes the new image the boot
\* candidate.
InstallUpdate ==
    /\ call = "ArtifactInstall"
    /\ AnswerWith("ok")
    /\ env' = [bootPart |-> Other(running), upgradeAvailable |-> TRUE, bootcount |-> 0]
    /\ UNCHANGED <<image, running, hit>>

\* CommitUpdate: an error unless there is an update to commit.
CommitUpdate ==
    /\ call = "ArtifactCommit"
    /\ AnswerWith(IF HasUpdate THEN "ok" ELSE "err")
    /\ env' = [env EXCEPT !.upgradeAvailable = FALSE]
    /\ UNCHANGED <<image, running, hit>>

\* Mutant: a rollback before the reboot switches, too.
RollbackUpdateToOther ==
    /\ call = "ArtifactRollback"
    /\ AnswerWith("ok")
    /\ env' = IF ~HasUpdate THEN env
              ELSE [env EXCEPT !.upgradeAvailable = FALSE, !.bootPart = Other(running)]
    /\ UNCHANGED <<image, running, hit>>

\* Rollback: back to the running partition if the new one was not booted
\* yet, and to the other one if it was; nothing without an update.
RollbackUpdate ==
    /\ call = "ArtifactRollback"
    /\ AnswerWith("ok")
    /\ env' = IF ~HasUpdate THEN env
              ELSE [env EXCEPT !.upgradeAvailable = FALSE,
                       !.bootPart = IF env.bootPart # running THEN running ELSE Other(running)]
    /\ UNCHANGED <<image, running, hit>>

\* The operations that only look: the headers, SupportsRollback, NeedsReboot,
\* VerifyReboot, VerifyRollbackReboot, Failure and Cleanup.
Query ==
    /\ \/ call \in {"ReadHeaders", "ArtifactFailure", "Cleanup"} /\ AnswerWith("ok")
       \/ call = "SupportsRollback" /\ AnswerWith("supported")
       \/ call = "NeedsArtifactReboot" /\ AnswerWith("custom")
       \/ /\ call = "ArtifactVerifyReboot"
          /\ AnswerWith(IF HasUpdate THEN "ok" ELSE "err")
       \/ /\ call = "ArtifactVerifyRollbackReboot"
          /\ AnswerWith(IF HasUpdate THEN "err" ELSE "ok")
    /\ UNCHANGED <<rootfs, hit>>

\* Reading or writing the environment fails, or the reboot command does.
DeviceFails ==
    /\ call \in FailingOps \ {"Download"}
    /\ AnswerWith("err")
    /\ UNCHANGED <<rootfs, hit>>

------------------------------------------------------------------------------
(* The machine.                                                            *)

\* What the boot loader boots.
Boot ==
    IF env.upgradeAvailable /\ (env.bootcount = 1 \/ ~Boots(env.bootPart))
    THEN /\ env' = [bootPart |-> Other(env.bootPart), upgradeAvailable |-> FALSE,
                    bootcount |-> env.bootcount]
         /\ running' = IF Boots(Other(env.bootPart)) THEN Other(env.bootPart) ELSE "none"
    ELSE /\ env' = IF env.upgradeAvailable THEN [env EXCEPT !.bootcount = 1] ELSE env
         /\ running' = IF Boots(env.bootPart) THEN env.bootPart ELSE "none"

\* The reboot that the update asked for.
RootfsReboots ==
    /\ Reboots
    /\ Boot
    /\ UNCHANGED <<image, hit>>

\* The times when the environment is ahead of the database.  install: the boot
\* candidate is set, and the database does not know yet that a reboot belongs
\* to it.  commit: the candidate is permanent, and the database has not its
\* name.  reboot: what runs is not what will be booted.
Windows ==
    {w \in {"install", "commit", "reboot"} :
        \/ w = "install" /\ HasUpdate /\ stateData.info.reboot = "unset"
        \/ w = "commit" /\ "ArtifactCommit" \in finished /\ artifactName = "prev"
        \/ w = "reboot" /\ env.bootPart # running /\ stateData.name \in {"Reboot", "RollbackReboot"}}

PowerCut ==
    /\ Crash
    /\ Boot
    /\ hit' = hit \union {<<"cut", w>> : w \in Windows}
    /\ UNCHANGED image

\* Only the service is restarted.
DaemonRestart ==
    /\ Crash
    /\ hit' = hit \union {<<"restart", w>> : w \in Windows}
    /\ UNCHANGED rootfs

\* A step of the daemon; the images are renamed when a deployment begins.
DaemonStep ==
    /\ Daemon
    /\ image' = IF deployments' = deployments THEN image
                ELSE [p \in Partitions |->
                        IF p = running THEN "old"
                        ELSE IF image[p] = "partial" THEN "partial" ELSE "spare"]
    /\ UNCHANGED <<env, running, hit>>

\* Nothing boots any more.
Dead == running = "none" /\ UNCHANGED rootfsVars

RootfsNext ==
    \/ /\ running # "none"
       /\ \/ DaemonStep
          \/ StoreBegins \/ StoreEnds \/ InstallUpdate \/ CommitUpdate \/ RollbackUpdate
          \/ Query \/ DeviceFails
          \/ RootfsReboots \/ PowerCut \/ DaemonRestart
    \/ Dead

RootfsSpec == RootfsInit /\ [][RootfsNext]_rootfsVars

------------------------------------------------------------------------------
(* Properties.  Each says which interruptions, if any, it does not survive. *)

\* The device never loses its way back: whenever the boot loader would boot
\* without the safety net of upgrade_available, the partition it would boot
\* is complete and good (StoreUpdate, InstallUpdate, CommitUpdate, Rollback),
\* unless power was lost before the database knew of the reboot, or the
\* service was restarted while a reboot was due.
AlwaysBootable ==
    hit \intersect {<<"cut", "install">>, <<"restart", "reboot">>} = {} =>
        env.upgradeAvailable \/ Boots(env.bootPart)

\* When no update is in progress, the name in the database is the name of
\* what runs and of what will be booted, unless it says the device is broken.
\* Losing power when a reboot is due does no harm, nor does a restart of the
\* service before the reboot type is stored.
NameMatchesImage ==
    /\ hit \subseteq {<<"cut", "reboot">>, <<"restart", "install">>}
    /\ AtRest /\ deployments > 0 /\ artifactName # "broken"
    =>  /\ env.bootPart = running
        /\ image[running] = IF artifactName = "next" THEN "new" ELSE "old"

\* What is committed is what runs: the new image was booted before it is made
\* permanent (the state after a restart in the Reboot state, VerifyReboot),
\* unless the service was restarted while the reboot was due.
CommitsWhatRuns ==
    call = "ArtifactCommit" /\ ret = "none" /\ HasUpdate /\ <<"restart", "reboot">> \notin hit =>
        running = env.bootPart /\ image[running] = "new"
==============================================================================
