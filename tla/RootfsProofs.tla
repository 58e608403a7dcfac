---------------------------- MODULE RootfsProofs -----------------------------
(***************************************************************************)
(* The dual rootfs update keeps the device bootable, commits what runs and *)
(* names what is installed, for every bound, for every number of           *)
(* deployments, whatever scripts, server and images do, and however often  *)
(* the machine or the daemon is interrupted.                               *)
(***************************************************************************)
EXTENDS OutcomeProofs, RootfsUpdate

------------------------------------------------------------------------------
(* The inductive invariants.                                               *)

DeviceOK ==
    /\ env \in [bootPart : Partitions, upgradeAvailable : BOOLEAN, bootcount : {0, 1}]
    /\ image \in [Partitions -> {"old", "spare", "new", "bad", "partial"}]
    /\ running \in Partitions \union {"none"}

\* A complete image is the boot candidate, and was not booted yet.
Candidate ==
    /\ HasUpdate
    /\ env.bootPart = Other(running)
    /\ env.bootcount = 0
    /\ image[Other(running)] \in {"new", "bad"}

\* If there is an update to commit, it runs.
Genuine == HasUpdate => env.bootPart = running /\ image[running] = "new"

GenuineInv ==
    /\ HasStored \/ to.id \in {"AfterStore", "Install"} => image[Other(running)] \in {"new", "bad"}
    /\ HasInstalled \/ to.id = "Reboot" => Candidate
    /\ <<"restart", "reboot">> \notin hit =>
        /\ to.id \in Verifying => Genuine
        /\ stateData.name = "Reboot" => Genuine \/ (Candidate /\ to.id # "Init")

\* Where the device is on its way from one partition to the other: it runs
\* what it will boot; the new image waits to be booted; it was booted once;
\* it was rolled back and waits for the reboot into the old one.
Settled == ~HasUpdate /\ env.bootPart = running /\ Boots(running)
Pending == Candidate /\ Boots(running)
Booted ==
    /\ HasUpdate
    /\ env.bootPart = running
    /\ env.bootcount = 1
    /\ image[running] = "new"
    /\ Boots(Other(running))
Reverting ==
    /\ ~HasUpdate
    /\ env.bootPart = Other(running)
    /\ Boots(running)
    /\ Boots(Other(running))

\* The only states in which the device need not be settled.
SwitchOver == {"Install", "Reboot", "Rollback", "RollbackReboot"} \union Verifying

StageInv ==
    /\ running \in Partitions
    /\ Settled \/ Pending \/ Booted \/ Reverting
    /\ to.id = "Reboot" => Pending
    /\ to.id \in Verifying => Settled \/ Booted
    /\ to.id = "RollbackReboot" => Settled \/ Reverting
    /\ to.id = "RollbackReboot" /\ Reverting /\ call # "none" =>
           call = "ArtifactRollbackReboot" /\ ret = "none"
    /\ to.id = "Rollback" /\ call = "ArtifactRollback" /\ ret # "none" =>
           ret # "err" /\ (Settled \/ Reverting)
    /\ call = "ArtifactCommit" /\ ret \notin {"none", "err"} => Settled
    /\ to.id = "Install" => IF HasInstalled THEN Pending ELSE Settled
    /\ to.id \notin SwitchOver \union {"Init"} => Settled
    /\ cur.id \notin SwitchOver \union {"Init"} => Settled

\* The same of the entry in the database, from which a new process goes on.
StoredStageInv ==
    /\ stateData.name = "Reboot" => Settled \/ Booted \/ (Pending /\ to.id # "Init")
    /\ stateData.name \in {"AfterReboot", "Commit"} => Settled \/ Booted
    /\ stateData.name = "RollbackReboot" => Settled \/ (Reverting /\ to.id # "Init")
    /\ stateData.name = "Install" => ~Reverting
    /\ stateData.name \notin SwitchOver => Settled
    /\ ~Settled =>
        /\ stateData.info.rollback = "supported"
        /\ to.id # "Init" => upd.rollback = "supported" /\ inst # "none"
    /\ Booted \/ Reverting =>
        /\ stateData.info.reboot = "custom"
        /\ to.id # "Init" => upd.reboot = "custom"

SafeInv ==
    hit \intersect {<<"cut", "install">>, <<"restart", "reboot">>} = {} => StageInv /\ StoredStageInv

\* Which image the name in the database means.
NamingInv ==
    /\ call = "ArtifactCommit" /\ ret = "ok" => Settled /\ image[running] = "new"
    /\ artifactName = "next" => Settled /\ image[running] = "new"
    /\ artifactName = "prev" /\ "ArtifactCommit" \in finished =>
           \/ call = "ArtifactCommit" /\ ret = "ok"
           \/ pc = "flag" /\ cur.id = "Commit"
    /\ artifactName = "prev" /\ "ArtifactCommit" \notin finished =>
           /\ Settled \/ Pending => image[running] = "old"
           /\ Booted \/ Reverting => image[Other(running)] = "old"

NameInv == hit \subseteq {<<"cut", "reboot">>, <<"restart", "install">>} => NamingInv

\* The count of stores is not used up while the device switches partitions.
CountSuffices == Exceeded(stateData.count) => ~HasUpdate /\ env.bootPart = running

------------------------------------------------------------------------------
(* What is committed runs.                                                 *)

\* There are two partitions.
LEMMA TwoPartitions ==
    ASSUME NEW p \in Partitions
    PROVE  Other(p) \in Partitions /\ Other(p) # p /\ Other(Other(p)) = p
BY Zenon DEF Other, Partitions

\* A deployment begins in UpdateCheck only.
LEMMA NewDeployments ==
    ASSUME Inv, OutcomeInv, Daemon, deployments' # deployments
    PROVE  /\ UpdateCheck /\ to = cur /\ cur.id = "UpdateCheck" /\ NewDeployment
           /\ call' = "none" /\ to'.id \in {"UpdateFetch", "StatusReport"}
<1>1. UpdateCheck
  BY Zenon DEF Daemon, Handle, Exit, LeaveFails, Transit, StoreState, Enter, SetBrokenArtifactFlag,
     InitIdle,
     InitLoadFails, InitResume, Idle, AuthorizeWait, Authorize, CheckWait, InventoryUpdate, Error,
     UpdateFetch, FetchStoreRetry, UpdateStore, UpdateStoreHeaders, UpdateStorePayloads,
     UpdateStoreRollback, AfterStore, Install, InstallInstalled, InstallRebootType, Reboot,
     RebootReturns, VerifyReboot, AfterReboot, Commit, PreCommitRetry, CommitStore, AfterFirstCommit,
     AfterCommit, Rollback, RollbackReboot, VerifyRollbackReboot, AfterRollbackReboot, UpdateError,
     Cleanup, StatusReport, StatusReportRetry, ReportError, world
<1>2. /\ NewDeployment /\ to = cur /\ cur.id = "UpdateCheck" /\ call' = "none"
      /\ to' \in {Plain("UpdateFetch"), Make("StatusReport", "already")}
  BY <1>1, InHandler, Zenon DEF UpdateCheck, world, Handling, NewDeployment
<1>3. Plain("UpdateFetch").id = "UpdateFetch" /\ Make("StatusReport", "already").id = "StatusReport"
  BY PlainShape, MakeShape DEF StateIds, UpdateStates, Statuses
<1> QED BY <1>1, <1>2, <1>3, Zenon

\* The operations of the device are answers that the daemon knows.
LEMMA DeviceAnswers ==
    ASSUME StoreEnds \/ InstallUpdate \/ CommitUpdate \/ RollbackUpdate \/ Query \/ DeviceFails
    PROVE  \E r \in {"ok", "err", "supported", "custom"} :
               /\ AnswerWith(r)
               /\ call = "SupportsRollback" => r \in {"err", "supported"}
               /\ call = "NeedsArtifactReboot" => r \in {"err", "custom"}
               /\ call \in RebootOps => r = "err"
<1>1. CASE StoreEnds
  BY <1>1, Zenon DEF StoreEnds, RebootOps
<1>2. CASE InstallUpdate \/ RollbackUpdate
  BY <1>2, Zenon DEF InstallUpdate, RollbackUpdate, RebootOps
<1>3. CASE CommitUpdate
  BY <1>3, Zenon DEF CommitUpdate, RebootOps
<1>4. CASE Query
  BY <1>4, Zenon DEF Query, RebootOps
<1>5. CASE DeviceFails
  BY <1>5, Zenon DEF DeviceFails
<1> QED BY <1>1, <1>2, <1>3, <1>4, <1>5, Zenon

\* They keep what is known of the daemon.
LEMMA DeviceAnswerRoute ==
    ASSUME Inv, OutcomeInv, RouteInv,
           StoreEnds \/ InstallUpdate \/ CommitUpdate \/ RollbackUpdate \/ Query \/ DeviceFails
    PROVE  /\ Inv' /\ OutcomeInv' /\ RouteInv'
           /\ to = cur /\ call \in Calls(cur.id) /\ pc = "handle" /\ ret = "none" /\ ret' # "none"
           /\ UNCHANGED <<cur, to, pc, call, upd, inst, stateData, artifactName, deployments>>
           /\ cur.id \in UpdateStates =>
                  stateData.name = StoredName(cur.id) /\ stateData.info = upd
<1>1. PICK r \in {"ok", "err", "supported", "custom"} :
               /\ AnswerWith(r)
               /\ call = "SupportsRollback" => r \in {"err", "supported"}
               /\ call = "NeedsArtifactReboot" => r \in {"err", "custom"}
               /\ call \in RebootOps => r = "err"
  BY DeviceAnswers, Zenon
<1>2. Inv' /\ OutcomeInv'
  BY <1>1, AnswerWithInv, AnswerOutcome, Zenon
<1>3. /\ call # "none" /\ pc = "handle" /\ ret = "none" /\ ret' = r
      /\ finished' \subseteq finished \union {call}
      /\ UNCHANGED <<cur, to, pc, call, upd, inst, stateData, artifactName, deployments>>
  BY <1>1, Zenon DEF AnswerWith, memory, disk, Inv, CallInv
<1>4. RouteInv'
  <2>1. to.id \in Before => call # "ArtifactCommit"
    BY <1>3, InHandler, Zenon DEF Inv, CallInv, Before
  <2> QED BY <1>1, <1>3, <2>1, Zenon DEF RouteInv
<1> QED BY <1>2, <1>3, <1>4, InHandler, Zenon

\* So does a new process.
LEMMA RestartRoute ==
    ASSUME Inv, OutcomeInv, RouteInv, Reboots \/ Crash
    PROVE  /\ Inv' /\ OutcomeInv' /\ RouteInv'
           /\ to'.id = "Init" /\ cur'.id = "Init" /\ call' = "none" /\ ret' = "none" /\ pc' = "handle"
           /\ UNCHANGED <<stateData, artifactName, deployments>>
<1>1. Inv' /\ OutcomeInv'
  BY MachineInv, MachineOutcome, Zenon DEF Machine
<1>2. /\ to' = Plain("Init") /\ cur' = Plain("Init") /\ pc' = "handle" /\ call' = "none" /\ ret' = "none"
      /\ upd' = NoInfo /\ UNCHANGED <<stateData, artifactName, deployments>>
  BY Zenon DEF Reboots, Crash, Restart, disk
<1>3. Plain("Init").id = "Init"
  BY PlainShape, Zenon DEF StateIds
<1>4. RouteInv'
  BY <1>2, <1>3, Zenon DEF RouteInv, Dual, NoInfo, Before, RebootOps
<1> QED BY <1>1, <1>2, <1>3, <1>4, Zenon

\* What holds whatever fails.
DeviceInv == Inv /\ OutcomeInv /\ RouteInv /\ DeviceOK /\ GenuineInv

\* The first start of the device satisfies the invariant.
LEMMA DeviceInit == RootfsInit => DeviceInv
<1> SUFFICES ASSUME RootfsInit PROVE DeviceInv
  OBVIOUS
<1>1. Inv /\ OutcomeInv
  BY InitInv, OutcomeInit, Zenon DEF RootfsInit
<1>2. /\ cur = Plain("Init") /\ to = Plain("Init") /\ pc = "handle" /\ call = "none" /\ ret = "none"
      /\ upd = NoInfo /\ stateData = NoEntry
  BY Zenon DEF RootfsInit, Init
<1>3. Plain("Init").id = "Init"
  BY PlainShape, Zenon DEF StateIds
<1>4. NoEntry.name = "none" /\ Dual(NoEntry.info) /\ Dual(NoInfo)
  BY Zenon DEF NoEntry, NoInfo, Dual
<1>5. RouteInv
  BY <1>2, <1>3, <1>4, Zenon DEF RouteInv, Before, RebootOps
<1>6. DeviceOK
  <2>1. image \in [Partitions -> {"old", "spare", "new", "bad", "partial"}]
    BY DEF RootfsInit, Partitions
  <2>2. env \in [bootPart : Partitions, upgradeAvailable : BOOLEAN, bootcount : {0, 1}]
    BY Zenon DEF RootfsInit, Partitions
  <2> QED BY <2>1, <2>2, Zenon DEF RootfsInit, DeviceOK, Partitions
<1>7. GenuineInv
  BY <1>2, <1>3, <1>4, Zenon DEF GenuineInv, HasStored, HasInstalled, Verifying
<1> QED BY <1>1, <1>5, <1>6, <1>7, Zenon DEF DeviceInv

\* Every step keeps the invariant.
LEMMA DeviceNext == DeviceInv /\ [RootfsNext]_rootfsVars => DeviceInv'

\* A step of the daemon.
<1>DaemonGenuine.
    ASSUME Inv, OutcomeInv, RouteInv, DeviceOK, GenuineInv, DaemonStep
    PROVE  DeviceOK' /\ GenuineInv'
  <2> USE <1>DaemonGenuine
  <2>1. UNCHANGED <<env, running, hit>> /\ Daemon
    BY Zenon DEF DaemonStep
  <2>2. RouteInv' /\ Onward
    BY <2>1, DaemonOnward, Zenon
  <2>3. (HasStored' => call' = "SupportsRollback") /\ (HasInstalled' => call' = "NeedsArtifactReboot")
    BY <2>2, Zenon DEF Onward, HasStored, HasInstalled
  <2>4. CASE deployments' = deployments
    <3>1. image' = image
      BY <2>4, Zenon DEF DaemonStep
    <3>2. Candidate' = Candidate /\ Genuine' = Genuine
      BY <2>1, <3>1, Zenon DEF Candidate, Genuine, HasUpdate
    <3> QED BY <2>1, <2>2, <2>3, <3>1, <3>2, Zenon DEF GenuineInv, Onward, DeviceOK
  <2>5. CASE deployments' # deployments
    <3>1. /\ cur.id = "UpdateCheck" /\ NewDeployment /\ call' = "none"
          /\ to'.id \in {"UpdateFetch", "StatusReport"}
      BY <2>1, <2>5, NewDeployments, Zenon
    <3>2. stateData'.name # "Reboot"
      BY <3>1, Zenon DEF NewDeployment, Inv, StoredInv, Quiet
    <3>3. image' \in [Partitions -> {"old", "spare", "new", "bad", "partial"}]
      BY <2>5, Zenon DEF DaemonStep
    <3> QED BY <2>1, <2>3, <3>1, <3>2, <3>3, Zenon DEF GenuineInv, DeviceOK, Verifying, HasStored, HasInstalled
  <2> QED BY <2>4, <2>5, Zenon

\* The image is written.
<1>StoreGenuine.
    ASSUME Inv, OutcomeInv, RouteInv, DeviceOK, GenuineInv, running # "none", StoreBegins \/ StoreEnds
    PROVE  DeviceOK' /\ GenuineInv'
  <2> USE <1>StoreGenuine
  <2>1. /\ call = "Download" /\ pc = "handle"
        /\ UNCHANGED <<cur, to, pc, call, stateData, env, running, hit>>
    BY Zenon DEF StoreBegins, StoreEnds, vars, AnswerWith, disk, Inv, CallInv
  <2>2. to.id = "UpdateStore" /\ stateData.name = "UpdateStore"
    BY <2>1, InHandler, Zenon DEF Calls, StoredName, UpdateStates
  <2>3. PICK i \in {"partial"} \union {"new", "bad"} :
            /\ image' = [image EXCEPT ![Other(running)] = i] \/ image' = image
            /\ ret' \notin {"none", "err"} => image' = [image EXCEPT ![Other(running)] = i] /\ i # "partial"
    <3>1. CASE StoreBegins
      <4>1. ret' = "none"
        BY <3>1, Zenon DEF StoreBegins, vars
      <4> QED BY <3>1, <4>1, Zenon DEF StoreBegins
    <3>2. CASE StoreEnds
      BY <3>2, RootfsAssumption, Zenon DEF StoreEnds, AnswerWith
    <3> QED BY <3>1, <3>2, Zenon
  <2>4. running \in Partitions /\ Other(running) \in Partitions
    BY TwoPartitions, Zenon DEF DeviceOK
  <2>5. DeviceOK' /\ (ret' \notin {"none", "err"} => image'[Other(running)] \in {"new", "bad"})
    BY <2>1, <2>3, <2>4 DEF DeviceOK
  <2> QED BY <2>1, <2>2, <2>5, Zenon DEF GenuineInv, HasStored, HasInstalled, Verifying

\* The environment is written for the new image, the commit or the rollback.
<1>WriteGenuine.
    ASSUME Inv, OutcomeInv, RouteInv, DeviceOK, GenuineInv, running # "none",
           InstallUpdate \/ CommitUpdate \/ RollbackUpdate
    PROVE  DeviceOK' /\ GenuineInv'
  <2> USE <1>WriteGenuine
  <2>1. /\ cur.id \in UpdateStates => stateData.name = StoredName(cur.id)
        /\ UNCHANGED <<to, call, stateData, image, running, hit>>
    BY DeviceAnswerRoute, Zenon DEF InstallUpdate, CommitUpdate, RollbackUpdate
  <2>2. to = cur /\ cur.id \in StateIds /\ call \in Calls(cur.id)
    BY DeviceAnswerRoute, StateShape, Zenon DEF Inv, TypeOK
  <2>3. running \in Partitions /\ Other(running) \in Partitions /\ Other(running) # running
    BY TwoPartitions, Zenon DEF DeviceOK
  <2>4. CASE InstallUpdate
    <3>1. call = "ArtifactInstall" /\ cur.id = "Install" /\ stateData.name = "Install"
      BY <2>1, <2>2, <2>4, Zenon DEF InstallUpdate, Calls, UpdateStates, StoredName
    <3>2. env' = [bootPart |-> Other(running), upgradeAvailable |-> TRUE, bootcount |-> 0]
      BY <2>4, Zenon DEF InstallUpdate
    <3>3. DeviceOK'
      BY <2>1, <2>3, <3>2, Zenon DEF DeviceOK
    <3>4. Candidate'
      BY <2>1, <2>2, <2>3, <3>1, <3>2, Zenon DEF Candidate, HasUpdate, GenuineInv
    <3> QED BY <2>1, <2>2, <3>1, <3>3, <3>4, Zenon DEF GenuineInv, HasStored, Verifying
  <2>5. CASE CommitUpdate \/ RollbackUpdate
    <3>1. /\ call \in {"ArtifactCommit", "ArtifactRollback"} /\ cur.id \in {"Commit", "Rollback"}
      BY <2>1, <2>2, <2>5, Zenon DEF CommitUpdate, RollbackUpdate, Calls, UpdateStates
    <3>2. /\ env' \in [bootPart : Partitions, upgradeAvailable : BOOLEAN, bootcount : {0, 1}]
          /\ env'.upgradeAvailable = FALSE
      BY <2>3, <2>5, Zenon DEF CommitUpdate, RollbackUpdate, DeviceOK, HasUpdate
    <3>3. DeviceOK' /\ Genuine'
      BY <2>1, <3>2, Zenon DEF DeviceOK, Genuine, HasUpdate
    <3> QED BY <2>1, <2>2, <3>1, <3>3, Zenon DEF GenuineInv, HasStored, HasInstalled
  <2> QED BY <2>4, <2>5, Zenon

\* The device answers without changing anything.
<1>QueryGenuine.
    ASSUME Inv, OutcomeInv, RouteInv, DeviceOK, GenuineInv, Query \/ DeviceFails
    PROVE  DeviceOK' /\ GenuineInv'
  <2> USE <1>QueryGenuine
  <2>1. UNCHANGED <<env, image, running, hit, to, call, stateData>>
    BY DeviceAnswerRoute, Zenon DEF Query, DeviceFails, rootfs
  <2>2. call \in {"Download", "ArtifactInstall"} => ret' = "err"
    BY Zenon DEF Query, DeviceFails, AnswerWith
  <2>3. (HasStored' => HasStored) /\ (HasInstalled' => HasInstalled)
    BY <2>1, <2>2, Zenon DEF HasStored, HasInstalled
  <2>4. Candidate' = Candidate /\ Genuine' = Genuine /\ DeviceOK'
    BY <2>1, Zenon DEF Candidate, Genuine, HasUpdate, DeviceOK
  <2> QED BY <2>1, <2>3, <2>4, Zenon DEF GenuineInv

\* The boot loader boots what is to be committed, or gives the update up.
<1>BootGenuine.
    ASSUME DeviceOK, running # "none", Boot, UNCHANGED image
    PROVE  DeviceOK' /\ (Genuine \/ Candidate => Genuine')
  <2> USE <1>BootGenuine
  <2>1. /\ running \in Partitions /\ Other(running) \in Partitions
        /\ env.bootPart \in Partitions /\ Other(env.bootPart) \in Partitions
    BY TwoPartitions, Zenon DEF DeviceOK
  <2>2. CASE env.upgradeAvailable /\ (env.bootcount = 1 \/ ~Boots(env.bootPart))
    <3>1. /\ env' = [bootPart |-> Other(env.bootPart), upgradeAvailable |-> FALSE,
                     bootcount |-> env.bootcount]
          /\ running' \in Partitions \union {"none"}
      BY <2>1, <2>2, Zenon DEF Boot
    <3> QED BY <2>1, <3>1, Zenon DEF DeviceOK, Genuine, HasUpdate
  <2>3. CASE ~(env.upgradeAvailable /\ (env.bootcount = 1 \/ ~Boots(env.bootPart)))
    <3>1. /\ env' = IF env.upgradeAvailable THEN [env EXCEPT !.bootcount = 1] ELSE env
          /\ running' = IF Boots(env.bootPart) THEN env.bootPart ELSE "none"
      BY <2>3, Zenon DEF Boot
    <3>2. /\ env' \in [bootPart : Partitions, upgradeAvailable : BOOLEAN, bootcount : {0, 1}]
          /\ env'.upgradeAvailable = env.upgradeAvailable /\ env'.bootPart = env.bootPart
      BY <3>1, Zenon DEF DeviceOK
    <3>3. DeviceOK'
      BY <2>1, <3>1, <3>2, Zenon DEF DeviceOK
    <3>4. ASSUME Genuine \/ Candidate, env.upgradeAvailable
          PROVE  running' = env.bootPart /\ image[env.bootPart] = "new"
      BY <2>1, <2>3, <3>1, <3>4, Zenon DEF Genuine, Candidate, HasUpdate, Boots
    <3> QED BY <3>2, <3>3, <3>4, Zenon DEF Genuine, HasUpdate
  <2> QED BY <2>2, <2>3, Zenon

\* A new process: the machine rebooted, lost power, or the service restarted.
<1>RestartGenuine.
    ASSUME Inv, OutcomeInv, RouteInv, DeviceOK, GenuineInv, running # "none",
           RootfsReboots \/ PowerCut \/ DaemonRestart
    PROVE  DeviceOK' /\ GenuineInv'
  <2> USE <1>RestartGenuine
  <2>1. to'.id = "Init" /\ call' = "none" /\ UNCHANGED stateData
    BY RestartRoute, Zenon DEF RootfsReboots, PowerCut, DaemonRestart
  <2>2. ~HasStored' /\ ~HasInstalled'
    BY <2>1, Zenon DEF HasStored, HasInstalled
  <2>3. hit \subseteq hit'
    BY Zenon DEF RootfsReboots, PowerCut, DaemonRestart
  <2>4. CASE RootfsReboots \/ PowerCut
    <3>1. DeviceOK' /\ (Genuine \/ Candidate => Genuine')
      BY <2>4, <1>BootGenuine, Zenon DEF RootfsReboots, PowerCut
    <3> QED BY <2>1, <2>2, <2>3, <3>1, Zenon DEF GenuineInv, Verifying
  <2>5. CASE DaemonRestart
    <3>1. UNCHANGED <<env, image, running>> /\ running \in Partitions
      BY <2>5, Zenon DEF DaemonRestart, rootfs, DeviceOK
    <3>2. DeviceOK' /\ Genuine' = Genuine
      BY <3>1, Zenon DEF DeviceOK, Genuine, HasUpdate
    <3>3. stateData.name = "Reboot" /\ Candidate => <<"restart", "reboot">> \in hit'
      <4>1. Candidate => env.bootPart # running
        BY <3>1, TwoPartitions, Zenon DEF Candidate
      <4> QED BY <2>5, <4>1, Zenon DEF DaemonRestart, Windows
    <3> QED BY <2>1, <2>2, <2>3, <3>2, <3>3, Zenon DEF GenuineInv, Verifying
  <2> QED BY <2>4, <2>5, Zenon

\* A step that changes nothing keeps it.
<1>DeviceStill.
    ASSUME DeviceInv, UNCHANGED rootfsVars
    PROVE  DeviceInv'
  <2> USE <1>DeviceStill
  <2>1. /\ UNCHANGED vars /\ UNCHANGED <<env, image, running, hit>>
        /\ UNCHANGED <<cur, to, pc, call, ret, upd, inst, stateData>>
        /\ UNCHANGED <<artifactName, finished>>
    BY Zenon DEF rootfsVars, rootfs, vars
  <2>2. Inv' /\ OutcomeInv'
    BY <2>1, NextInv, OutcomeNext, Zenon DEF DeviceInv
  <2>3. RouteInv' /\ DeviceOK'
    BY <2>1, Zenon DEF DeviceInv, RouteInv, DeviceOK
  <2>4. Candidate' = Candidate /\ Genuine' = Genuine
    BY <2>1, Zenon DEF Candidate, Genuine, HasUpdate
  <2>5. GenuineInv'
    BY <2>1, <2>4, Zenon DEF DeviceInv, GenuineInv, HasStored, HasInstalled
  <2> QED BY <2>2, <2>3, <2>5, Zenon DEF DeviceInv

<1> SUFFICES ASSUME DeviceInv, [RootfsNext]_rootfsVars PROVE DeviceInv'
  OBVIOUS
<1> USE DEF DeviceInv
<1>1. CASE DaemonStep
  <2>1. Daemon
    BY <1>1, Zenon DEF DaemonStep
  <2>2. Inv' /\ OutcomeInv' /\ RouteInv'
    BY <2>1, NextInv, OutcomeNext, DaemonOnward, Zenon DEF Next
  <2> QED BY <1>1, <2>2, <1>DaemonGenuine, Zenon
<1>2. CASE running # "none" /\ StoreBegins
  <2>1. UNCHANGED vars /\ UNCHANGED <<cur, to, pc, call, ret, upd, stateData, artifactName, finished>>
    BY <1>2, Zenon DEF StoreBegins, vars
  <2>2. Inv' /\ OutcomeInv' /\ RouteInv'
    BY <2>1, NextInv, OutcomeNext, Zenon DEF RouteInv
  <2> QED BY <1>2, <2>2, <1>StoreGenuine, Zenon
<1>3. CASE running # "none" /\ StoreEnds
  BY <1>3, <1>StoreGenuine, DeviceAnswerRoute, Zenon
<1>4. CASE running # "none" /\ (InstallUpdate \/ CommitUpdate \/ RollbackUpdate)
  BY <1>4, <1>WriteGenuine, DeviceAnswerRoute, Zenon
<1>5. CASE Query \/ DeviceFails
  BY <1>5, <1>QueryGenuine, DeviceAnswerRoute, Zenon
<1>6. CASE running # "none" /\ (RootfsReboots \/ PowerCut \/ DaemonRestart)
  BY <1>6, <1>RestartGenuine, RestartRoute, Zenon DEF RootfsReboots, PowerCut, DaemonRestart
<1>7. CASE Dead \/ UNCHANGED rootfsVars
  BY <1>7, <1>DeviceStill, Zenon DEF Dead
<1> QED BY <1>1, <1>2, <1>3, <1>4, <1>5, <1>6, <1>7, Zenon DEF RootfsNext

\* The invariant holds in every state of every behaviour.
LEMMA SpecDevice == RootfsSpec => []DeviceInv
BY DeviceInit, DeviceNext, PTL DEF RootfsSpec

\* What CommitUpdate makes permanent is the new image, booted and running,
\* whatever fails and whenever power is lost: only a service that was
\* restarted while the reboot was due can take the old partition for the new
\* one (the states Reboot and VerifyReboot, and initState between them).
THEOREM CommitIsWhatRuns == RootfsSpec => []CommitsWhatRuns
<1>1. DeviceInv => CommitsWhatRuns
  <2> SUFFICES ASSUME DeviceInv, call = "ArtifactCommit" PROVE CommitsWhatRuns
    BY Zenon DEF CommitsWhatRuns
  <2>1. to.id = "Commit"
    BY Zenon DEF DeviceInv, Inv, CallInv, PositionInv
  <2> QED BY <2>1, Zenon DEF DeviceInv, GenuineInv, Genuine, Verifying, CommitsWhatRuns
<1> QED BY <1>1, SpecDevice, PTL

------------------------------------------------------------------------------
(* The device stays bootable: the steps of the daemon.                     *)

\* What AlwaysBootable needs of the environment of the daemon.
Dependable == "db" \notin Faults /\ FailingOps \intersect {"ArtifactRollback", "ArtifactRollbackReboot"} = {}

\* The four stages exclude each other.
LEMMA OneStage ==
    ASSUME running \in Partitions
    PROVE  /\ Settled => ~Pending /\ ~Booted /\ ~Reverting
           /\ Pending => ~Booted /\ ~Reverting
           /\ Booted => ~Reverting
BY TwoPartitions, Zenon DEF Settled, Pending, Candidate, Booted, Reverting

\* They depend on the device only.
LEMMA SameStage ==
    ASSUME UNCHANGED <<env, image, running>>
    PROVE  /\ Settled' = Settled /\ Pending' = Pending /\ Booted' = Booted /\ Reverting' = Reverting
BY Zenon DEF Settled, Pending, Candidate, Booted, Reverting, Boots, HasUpdate

\* A settled device is where it must be, unless it is about to be rebooted.
LEMMA SettledStage ==
    ASSUME running' \in Partitions, Settled', to'.id # "Reboot", ~HasInstalled',
           call' = "ArtifactRollback" => ret' # "err"
    PROVE  StageInv' /\ StoredStageInv'
<1>1. ~Pending' /\ ~Booted' /\ ~Reverting'
  BY TwoPartitions, Zenon DEF Settled, Pending, Candidate, Booted, Reverting
<1> QED BY <1>1, Zenon DEF StageInv, StoredStageInv

------------------------------------------------------------------------------
(* The device stays bootable: the device and the machine.                  *)

\* The new image is made permanent.
LEMMA CommitStage ==
    ASSUME DeviceInv, StageInv, StoredStageInv, CommitUpdate
    PROVE  /\ StageInv' /\ StoredStageInv'
           /\ Settled' /\ (HasUpdate => Booted) /\ (~HasUpdate => Settled)
<1>1. /\ to = cur /\ call = "ArtifactCommit" /\ cur.id = "Commit"
      /\ UNCHANGED <<cur, to, call, stateData, image, running>>
  BY DeviceAnswerRoute, Zenon DEF CommitUpdate, DeviceInv, Inv, CallInv
<1>2. Settled \/ Booted
  BY <1>1, Zenon DEF StageInv, Verifying
<1>3. env'.upgradeAvailable = FALSE /\ env'.bootPart = env.bootPart
  BY Zenon DEF CommitUpdate, DeviceInv, DeviceOK
<1>4. Settled'
  BY <1>1, <1>2, <1>3, Zenon DEF Settled, Booted, Boots, HasUpdate
<1>5. StageInv' /\ StoredStageInv'
  BY <1>1, <1>4, SettledStage, Zenon DEF StageInv, HasInstalled
<1> QED BY <1>2, <1>4, <1>5, Zenon DEF Settled, Booted

\* The update is rolled back.
LEMMA RollbackStage ==
    ASSUME DeviceInv, StageInv, StoredStageInv, RollbackUpdate
    PROVE  /\ StageInv' /\ StoredStageInv'
           /\ Settled \/ Pending => Settled'
           /\ Booted \/ Reverting => Reverting'
<1>1. /\ to = cur /\ call \in Calls(cur.id) /\ call = "ArtifactRollback" /\ ret = "none" /\ ret' = "ok"
      /\ UNCHANGED <<cur, to, call, upd, inst, stateData, image, running>>
      /\ cur.id \in UpdateStates => stateData.name = StoredName(cur.id)
      /\ cur \in State
  BY DeviceAnswerRoute, Zenon DEF RollbackUpdate, DeviceInv, AnswerWith, Inv, TypeOK
<1>2. cur.id = "Rollback" /\ stateData.name = "Rollback"
  BY <1>1, StateShape, Zenon DEF Calls, StateIds, UpdateStates, StoredName
<1>3. running \in Partitions /\ Other(running) # running
  BY TwoPartitions, Zenon DEF StageInv
<1>4. \/ ~HasUpdate /\ env' = env
      \/ /\ HasUpdate /\ env'.upgradeAvailable = FALSE
         /\ env'.bootPart = IF env.bootPart # running THEN running ELSE Other(running)
  BY Zenon DEF RollbackUpdate, DeviceInv, DeviceOK
<1>5. Settled \/ Pending => Settled'
  BY <1>1, <1>3, <1>4, Zenon DEF Settled, Pending, Candidate, Boots, HasUpdate
<1>6. Booted \/ Reverting => Reverting'
  BY <1>1, <1>3, <1>4, Zenon DEF Booted, Reverting, Boots, HasUpdate
<1>7. CASE Settled \/ Pending
  BY <1>1, <1>2, <1>3, <1>5, <1>6, <1>7, SettledStage, OneStage, Zenon DEF HasInstalled
<1>8. CASE Booted \/ Reverting
  <2>1. Reverting' /\ ~Settled' /\ ~Pending' /\ ~Booted'
    BY <1>1, <1>3, <1>6, <1>8, Zenon DEF Settled, Pending, Candidate, Booted, Reverting
  <2>2. ~Settled
    BY <1>3, <1>8, OneStage, Zenon
  <2>3. StageInv'
    BY <1>1, <1>2, <1>3, <2>1, Zenon DEF StageInv, SwitchOver, Verifying
  <2>4. StoredStageInv'
    BY <1>1, <1>2, <1>8, <2>1, <2>2, Zenon DEF StoredStageInv, SwitchOver, Verifying
  <2> QED BY <1>3, <1>5, <1>6, <1>8, <2>3, <2>4, OneStage, Zenon
<1> QED BY <1>5, <1>6, <1>7, <1>8, Zenon DEF StageInv

\* A boot settles the device, or boots the new image for the first time.
LEMMA BootStage ==
    ASSUME DeviceOK, StageInv, Boot, UNCHANGED image
    PROVE  /\ running' \in Partitions
           /\ Settled' \/ (Pending /\ Booted')
           /\ Settled => Settled' /\ running' = running
           /\ Pending => IF Settled' THEN running' = running ELSE running' = Other(running)
           /\ Booted \/ Reverting => Settled' /\ running' = Other(running)
<1>1. /\ running \in Partitions /\ Other(running) \in Partitions /\ Other(running) # running
      /\ Other(Other(running)) = running
  BY TwoPartitions, Zenon DEF StageInv
<1>2. CASE Settled
  <2>1. env' = env /\ running' = running
    BY <1>2, Zenon DEF Boot, Settled, HasUpdate
  <2> QED BY <1>1, <1>2, <2>1, OneStage, Zenon DEF Settled, HasUpdate, Boots
<1>3. CASE Pending
  <2>1. CASE Boots(env.bootPart)
    <3>1. env' = [env EXCEPT !.bootcount = 1] /\ running' = Other(running)
      BY <1>3, <2>1 DEF Boot, Pending, Candidate, HasUpdate
    <3>2. env'.bootcount = 1 /\ env'.upgradeAvailable /\ env'.bootPart = running'
      BY <1>3, <3>1, Zenon DEF DeviceOK, Pending, Candidate, HasUpdate
    <3>3. Booted' /\ ~Settled'
      BY <1>1, <1>3, <2>1, <3>1, <3>2, Zenon DEF Pending, Candidate, Booted, Settled, HasUpdate, Boots
    <3> QED BY <1>1, <1>3, <3>1, <3>3, OneStage, Zenon
  <2>2. CASE ~Boots(env.bootPart)
    <3>1. /\ env' = [bootPart |-> running, upgradeAvailable |-> FALSE, bootcount |-> env.bootcount]
          /\ running' = running
      BY <1>1, <1>3, <2>2, Zenon DEF Boot, Pending, Candidate, HasUpdate
    <3>2. Settled'
      BY <1>3, <3>1, Zenon DEF Pending, Candidate, Settled, HasUpdate, Boots
    <3> QED BY <1>1, <1>3, <3>1, <3>2, OneStage, Zenon
  <2> QED BY <2>1, <2>2, Zenon
<1>4. CASE Booted
  <2>1. /\ env' = [bootPart |-> Other(running), upgradeAvailable |-> FALSE, bootcount |-> env.bootcount]
        /\ running' = Other(running)
    BY <1>4, Zenon DEF Boot, Booted, HasUpdate
  <2>2. Settled'
    BY <1>4, <2>1, Zenon DEF Booted, Settled, HasUpdate, Boots
  <2> QED BY <1>1, <1>4, <2>1, <2>2, OneStage, Zenon
<1>5. CASE Reverting
  <2>1. env' = env /\ running' = Other(running)
    BY <1>5, Zenon DEF Boot, Reverting, HasUpdate
  <2>2. Settled'
    BY <1>5, <2>1, Zenon DEF Reverting, Settled, HasUpdate, Boots
  <2> QED BY <1>1, <1>5, <2>1, <2>2, OneStage, Zenon
<1> QED BY <1>2, <1>3, <1>4, <1>5, Zenon DEF StageInv

\* The interrupted windows are remembered.
LEMMA HitGrows ==
    ASSUME RootfsNext \/ UNCHANGED rootfsVars
    PROVE  hit \subseteq hit'
BY Zenon DEF RootfsNext, DaemonStep, StoreBegins, StoreEnds, InstallUpdate, CommitUpdate, RollbackUpdate,
   Query, DeviceFails, RootfsReboots, PowerCut, DaemonRestart, Dead, rootfsVars

\* A step of the device's daemon, of the device or of the machine keeps what
\* is owed.
LEMMA RootfsAccount ==
    ASSUME "db" \notin Faults
    PROVE  DeviceInv /\ AccountInv /\ [RootfsNext]_rootfsVars => AccountInv'
<1> SUFFICES ASSUME DeviceInv, AccountInv, [RootfsNext]_rootfsVars PROVE AccountInv'
  OBVIOUS
<1>1. CASE DaemonStep
  BY <1>1, DaemonAccount, Zenon DEF DaemonStep, DeviceInv
<1>2. CASE StoreEnds \/ InstallUpdate \/ CommitUpdate \/ RollbackUpdate \/ Query \/ DeviceFails
  BY <1>2, DeviceAnswers, AnswerAccount, Zenon DEF DeviceInv
<1>3. CASE RootfsReboots \/ PowerCut \/ DaemonRestart
  BY <1>3, MachineAccount, Zenon DEF RootfsReboots, PowerCut, DaemonRestart, Machine, DeviceInv
<1>4. CASE StoreBegins \/ Dead \/ UNCHANGED rootfsVars
  BY <1>4, StillAccount, Zenon DEF StoreBegins, Dead, rootfsVars
<1> QED BY <1>1, <1>2, <1>3, <1>4, Zenon DEF RootfsNext

\* Every step keeps the device on its way.
LEMMA StageNext ==
    /\ Dependable /\ DeviceInv /\ AccountInv /\ StageInv /\ StoredStageInv /\ CountSuffices
    /\ [RootfsNext]_rootfsVars
    /\ hit' \intersect {<<"cut", "install">>, <<"restart", "reboot">>} = {}
    => StageInv' /\ StoredStageInv'
(* The device stays bootable: the steps of the daemon.                     *)

\* A device that is not settled goes on along its way.
<1>UnsettledStage.
    ASSUME StageInv, StoredStageInv, ~Settled, UNCHANGED <<env, image, running>>,
           cur' \in {cur, to}, to'.id \in SwitchOver,
           to'.id = "Reboot" => Pending,
           to'.id \in Verifying => Booted,
           to'.id = "RollbackReboot" => Reverting,
           to'.id = "RollbackReboot" /\ call' # "none" => call' = "ArtifactRollbackReboot",
           to'.id = "Install" => HasInstalled' /\ Pending,
           call' # "none" => ret' = "none",
           stateData'.name \in {stateData.name, StoredName(to'.id)},
           stateData'.info.rollback = "supported", upd'.rollback = "supported", inst' # "none",
           Booted \/ Reverting => stateData'.info.reboot = "custom" /\ upd'.reboot = "custom"
    PROVE  StageInv' /\ StoredStageInv'
  <2> USE <1>UnsettledStage
  <2>1. Settled' = Settled /\ Pending' = Pending /\ Booted' = Booted /\ Reverting' = Reverting
    BY SameStage, Zenon
  <2>2. /\ Pending => ~Booted /\ ~Reverting
        /\ Booted => ~Reverting
    BY OneStage, Zenon DEF StageInv
  <2>3. StageInv'
    BY <2>1, <2>2, Zenon DEF StageInv, SwitchOver, Verifying
  <2>4. /\ stateData'.name = stateData.name => StoredStageInv'
    BY <2>1, <2>2, Zenon DEF StoredStageInv, SwitchOver, Verifying
  <2>5. stateData'.name = StoredName(to'.id) => StoredStageInv'
    BY <2>1, <2>2, Zenon DEF StoredStageInv, StoredName, SwitchOver, Verifying
  <2> QED BY <2>3, <2>4, <2>5, Zenon

\* The count is not used up on the way.
<1>NotExceeded.
    ASSUME StageInv, ~Settled, CountSuffices
    PROVE  ~Exceeded(stateData.count)
  BY <1>NotExceeded, TwoPartitions, Zenon DEF StageInv, CountSuffices, Pending, Candidate, Booted, Reverting

\* An error on the way leads to the rollback.
<1>ErrorUnsettled.
    ASSUME StageInv, StoredStageInv, ~Settled, UNCHANGED <<env, image, running>>, to.id # "Init",
           NEW s, NEW severity, HandleError(s, severity),
           s.id \in {"Install", "Reboot", "VerifyReboot", "AfterReboot", "Commit"},
           UNCHANGED <<upd, inst, stateData>>
    PROVE  StageInv' /\ StoredStageInv'
  <2> USE <1>ErrorUnsettled
  <2>1. /\ upd.rollback = "supported" /\ inst # "none" /\ stateData.info.rollback = "supported"
        /\ Booted \/ Reverting => upd.reboot = "custom" /\ stateData.info.reboot = "custom"
    BY Zenon DEF StoredStageInv
  <2>2. to' = Plain("Rollback") /\ cur' = cur /\ call' = "none"
    BY <2>1, Zenon DEF HandleError, RollbackOrFail, Goto
  <2>3. to'.id = "Rollback"
    BY <2>2, PlainShape, Zenon DEF StateIds, UpdateStates
  <2> QED BY <2>1, <2>2, <2>3, <1>UnsettledStage, Zenon DEF SwitchOver, Verifying

\* The steps of Run on the way.
<1>RunUnsettled.
    ASSUME DeviceInv, AccountInv, StageInv, StoredStageInv, CountSuffices, ~Settled,
           UNCHANGED <<env, image, running>>, "db" \notin Faults,
           Exit \/ Transit \/ Enter \/ SetBrokenArtifactFlag \/ StoreState \/ LeaveFails
    PROVE  StageInv' /\ StoredStageInv'
  <2> USE <1>RunUnsettled
  <2>1. /\ pc # "handle" /\ UNCHANGED <<upd, inst>> /\ call = "none"
        /\ cur.id \in SwitchOver \union {"Init"} /\ cur \in State
    BY Zenon DEF Exit, Transit, Enter, SetBrokenArtifactFlag, StoreState, LeaveFails, memory,
       DeviceInv, Inv,
       CallInv, StageInv, TypeOK
  <2>2. to.id \in SwitchOver \ {"Install"}
    BY <2>1, Zenon DEF StageInv, DeviceInv, RouteInv, HasInstalled
  <2>3. /\ upd.rollback = "supported" /\ inst # "none" /\ stateData.info.rollback = "supported"
        /\ Booted \/ Reverting => upd.reboot = "custom" /\ stateData.info.reboot = "custom"
    BY <2>2, Zenon DEF StoredStageInv, SwitchOver, Verifying
  <2>4. /\ to.id = "Reboot" => Pending
        /\ to.id \in Verifying => Booted
        /\ to.id = "RollbackReboot" => Reverting
    BY Zenon DEF StageInv
  <2>5. ASSUME cur' \in {cur, to}, UNCHANGED <<to, call>>,
               stateData' = stateData \/ (stateData'.name = StoredName(to.id) /\ stateData'.info = upd)
        PROVE  StageInv' /\ StoredStageInv'
    BY <2>1, <2>2, <2>3, <2>4, <2>5, <1>UnsettledStage, Zenon
  <2>6. CASE Exit \/ Transit
    BY <2>5, <2>6, Zenon DEF Exit, Transit, disk
  <2>7. CASE Enter
    <3>1. UNCHANGED stateData /\ to = cur
      BY <2>7, Zenon DEF Enter, disk, DeviceInv, Inv, PositionInv
    <3>2. CASE Transition(cur) \in EnterCanFail /\ HandleError(cur, "transient")
      <4>1. cur.id \in {"Reboot", "Commit", "VerifyReboot", "AfterReboot"}
        BY <2>1, <2>2, <2>7, <3>1, <3>2, Zenon DEF Transition, EnterCanFail, SwitchOver, Verifying, Enter,
           AccountInv, PathInv
      <4> QED BY <2>1, <3>1, <3>2, <4>1, <1>ErrorUnsettled, Zenon
    <3> QED BY <2>5, <2>7, <3>1, <3>2, Zenon DEF Enter
  <2>8. CASE SetBrokenArtifactFlag
    BY <2>2, <2>8, Zenon DEF SetBrokenArtifactFlag, DeviceInv, RouteInv, GivenUp, SwitchOver, Verifying
  <2>9. CASE StoreState
    <3>1. to = cur
      BY <2>9, Zenon DEF StoreState, DeviceInv, Inv, PositionInv
    <3>2. Stored(cur.id, upd) /\ UNCHANGED <<cur, to, call>>
      BY <2>9, <1>NotExceeded, Zenon DEF StoreState, StoreFailed, StoreExceeded
    <3> QED BY <2>5, <3>1, <3>2, Zenon DEF Stored, WriteState
  <2>10. CASE LeaveFails
    <3>1. cur.id \in {"Install", "VerifyReboot", "AfterReboot"}
      BY <2>1, <2>10, Zenon DEF LeaveFails, Transition, LeaveCanFail, SwitchOver, Verifying
    <3> QED BY <2>2, <2>10, <3>1, <1>ErrorUnsettled, Zenon DEF LeaveFails, memory, disk, SwitchOver, Verifying
  <2> QED BY <2>6, <2>7, <2>8, <2>9, <2>10, Zenon

\* A restarted daemon finds a device on its way: it verifies the reboot, or
\* rolls back.
<1>ResumeUnsettled.
    ASSUME DeviceInv, StageInv, StoredStageInv, CountSuffices, ~Settled,
           UNCHANGED <<env, image, running>>, "db" \notin Faults,
           InitIdle \/ InitLoadFails \/ InitResume
    PROVE  StageInv' /\ StoredStageInv'
  <2> USE <1>ResumeUnsettled
  <2>1. /\ to = cur /\ cur.id = "Init" /\ stateData \in Entry
    BY InHandler, Zenon DEF InitIdle, InitLoadFails, InitResume, Handling, DeviceInv
  <2>2. /\ stateData.name \in SwitchOver /\ stateData.info.rollback = "supported"
        /\ stateData.name = "Reboot" => Booted
        /\ stateData.name # "RollbackReboot"
        /\ Booted \/ Reverting => stateData.info.reboot = "custom"
    BY <2>1, Zenon DEF StoredStageInv
  <2>3. InitResume
    BY <2>2 DEF InitIdle, InitLoadFails, NoEntry, SwitchOver, Verifying
  <2>4. /\ NextAfterRestart(stateData.name, stateData.info)
        /\ inst' = IF stateData.info.payload THEN "current" ELSE "none"
        /\ stateData' = [stateData EXCEPT !.count = NextCount(stateData.count)]
        /\ upd' = stateData.info
    BY <2>2, <2>3, <1>NotExceeded, Zenon DEF InitResume, SwitchOver, Verifying
  <2>5. stateData'.name = stateData.name /\ stateData'.info = stateData.info
    BY <2>1, <2>4, Zenon DEF Entry
  <2>6. inst' # "none"
    BY <2>2, <2>4, Zenon DEF DeviceInv, OutcomeInv, EntryInv, Coherent
  <2>7. CASE stateData.name = "Reboot"
    <3>1. to' = Plain("VerifyReboot") /\ cur' = cur /\ call' = "none"
      BY <2>4, <2>7, Zenon DEF NextAfterRestart, Goto
    <3>2. to'.id = "VerifyReboot"
      BY <3>1, PlainShape, Zenon DEF StateIds, UpdateStates
    <3> QED BY <2>2, <2>4, <2>5, <2>6, <2>7, <3>1, <3>2, <1>UnsettledStage, Zenon DEF SwitchOver, Verifying
  <2>8. CASE stateData.name # "Reboot"
    <3>1. RollbackOrFail(stateData.info)
      BY <2>2, <2>4, <2>8, Zenon DEF NextAfterRestart, SwitchOver, Verifying
    <3>2. to' = Plain("Rollback") /\ cur' = cur /\ call' = "none"
      BY <2>2, <3>1, Zenon DEF RollbackOrFail, Goto
    <3>3. to'.id = "Rollback"
      BY <3>2, PlainShape, Zenon DEF StateIds, UpdateStates
    <3> QED BY <2>2, <2>4, <2>5, <2>6, <3>2, <3>3, <1>UnsettledStage, Zenon DEF SwitchOver, Verifying
  <2> QED BY <2>7, <2>8, Zenon

\* The installed image waits for its reboot.
<1>InstallUnsettled.
    ASSUME DeviceInv, StageInv, StoredStageInv, CountSuffices, ~Settled,
           UNCHANGED <<env, image, running>>, "db" \notin Faults,
           Install \/ InstallInstalled \/ InstallRebootType
    PROVE  StageInv' /\ StoredStageInv'
  <2> USE <1>InstallUnsettled
  <2>1. /\ to = cur /\ cur.id = "Install" /\ upd \in Info /\ UNCHANGED inst
        /\ stateData.name = "Install"
    BY InHandler, Zenon DEF DeviceInv, Install, InstallInstalled, InstallRebootType, Handling,
       Answered, memory,
       UpdateStates, StoredName
  <2>2. HasInstalled /\ Pending
    BY <2>1, Zenon DEF StageInv
  <2>3. /\ upd.rollback = "supported" /\ inst # "none" /\ stateData.info.rollback = "supported"
        /\ ~Booted /\ ~Reverting
    BY <2>1, <2>2, OneStage, Zenon DEF StoredStageInv, StageInv
  <2>4. CASE Install
    BY <2>2, <2>4, Zenon DEF Install, Handling, HasInstalled
  <2>5. CASE InstallInstalled
    <3>1. Call("NeedsArtifactReboot") /\ UNCHANGED <<upd, stateData>>
      BY <2>2, <2>5, Zenon DEF InstallInstalled, Answered, HasInstalled, memory, disk
    <3>2. HasInstalled' /\ to' = to /\ cur' = cur /\ call' = "NeedsArtifactReboot" /\ ret' = "none"
      BY <3>1, Zenon DEF Call, HasInstalled
    <3> QED BY <2>1, <2>2, <2>3, <3>1, <3>2, <1>UnsettledStage, Zenon DEF SwitchOver, Verifying
  <2>6. CASE InstallRebootType
    <3>1. CASE ret = "err" /\ HandleError(cur, "transient") /\ UNCHANGED <<upd, stateData>>
      BY <2>1, <3>1, <1>ErrorUnsettled, Zenon
    <3>2. CASE Stored("Install", upd') /\ ret # "err" /\ upd' = [upd EXCEPT !.reboot = ret]
      <4>1. ret # "no reboot"
        BY Zenon DEF DeviceInv, RouteInv
      <4>2. to' = Plain("Reboot") /\ cur' = cur /\ call' = "none"
        BY <2>6, <3>2, <4>1, <1>NotExceeded, Zenon DEF InstallRebootType, StoreFailed,
           StoreExceeded, Goto
      <4>3. to'.id = "Reboot"
        BY <4>2, PlainShape, Zenon DEF StateIds, UpdateStates
      <4>4. stateData'.name = "Install" /\ stateData'.info = upd' /\ upd'.rollback = "supported"
        BY <2>1, <2>3, <3>2, Zenon DEF Stored, WriteState, StoredName, Info
      <4> QED BY <2>1, <2>2, <2>3, <4>2, <4>3, <4>4, <1>UnsettledStage, Zenon DEF SwitchOver, Verifying
    <3> QED BY <2>6, <3>1, <3>2, <1>NotExceeded, Zenon DEF InstallRebootType, StoreFailed, StoreExceeded
  <2> QED BY <2>4, <2>5, <2>6, Zenon

\* The reboot is on its way, or failed.
<1>RebootUnsettled.
    ASSUME DeviceInv, StageInv, StoredStageInv, ~Settled, UNCHANGED <<env, image, running>>,
           Reboot \/ RebootReturns
    PROVE  StageInv' /\ StoredStageInv'
  <2> USE <1>RebootUnsettled
  <2>1. /\ to = cur /\ cur.id = "Reboot" /\ UNCHANGED <<upd, inst, stateData>>
    BY InHandler, Zenon DEF DeviceInv, Reboot, RebootReturns, Handling, Answered, memory, disk
  <2>2. /\ upd.rollback = "supported" /\ inst # "none" /\ stateData.info.rollback = "supported"
        /\ Pending /\ ~Booted /\ ~Reverting
    BY <2>1, OneStage, Zenon DEF StoredStageInv, StageInv
  <2>3. CASE Goto(Plain("Rollback"))
    <3>1. to' = Plain("Rollback") /\ cur' = cur /\ call' = "none"
      BY <2>3, Zenon DEF Goto
    <3>2. to'.id = "Rollback"
      BY <3>1, PlainShape, Zenon DEF StateIds, UpdateStates
    <3> QED BY <2>1, <2>2, <3>1, <3>2, <1>UnsettledStage, Zenon DEF SwitchOver, Verifying
  <2>4. CASE HandleError(cur, "transient")
    BY <2>1, <2>4, <1>ErrorUnsettled, Zenon
  <2>5. CASE \E op \in {"ArtifactReboot", "SystemReboot"} : Call(op)
    <3>1. to' = to /\ cur' = cur /\ ret' = "none"
      BY <2>5, Zenon DEF Call
    <3> QED BY <2>1, <2>2, <3>1, <1>UnsettledStage, Zenon DEF SwitchOver, Verifying
  <2> QED BY <2>3, <2>4, <2>5, Zenon DEF Reboot, RebootReturns, Answered, DeviceInv, RouteInv, RebootOps

\* The new image runs, and is verified and committed or given up.
<1>VerifyUnsettled.
    ASSUME DeviceInv, StageInv, StoredStageInv, ~Settled, UNCHANGED <<env, image, running>>,
           VerifyReboot \/ AfterReboot \/ Commit \/ PreCommitRetry \/ CommitStore
    PROVE  StageInv' /\ StoredStageInv'
  <2> USE <1>VerifyUnsettled
  <2>1. /\ to = cur /\ cur.id \in Verifying /\ cur \in State /\ UNCHANGED <<upd, inst>>
    BY InHandler, Zenon DEF DeviceInv, VerifyReboot, AfterReboot, Commit, PreCommitRetry,
       CommitStore, Handling,
       Answered, memory, Verifying
  <2>2. /\ upd.rollback = "supported" /\ inst # "none" /\ stateData.info.rollback = "supported"
        /\ upd.reboot = "custom" /\ stateData.info.reboot = "custom" /\ Booted
    BY <2>1, Zenon DEF StoredStageInv, StageInv, Verifying
  <2>3. UNCHANGED stateData
    BY Zenon DEF VerifyReboot, AfterReboot, Commit, PreCommitRetry, CommitStore, disk, Answered,
       StageInv
  <2>4. ASSUME NEW s, NEW severity, HandleError(s, severity),
               s.id \in {"VerifyReboot", "AfterReboot", "Commit"}
        PROVE  StageInv' /\ StoredStageInv'
    BY <2>1, <2>3, <2>4, <1>ErrorUnsettled, Zenon DEF Verifying
  <2>5. CASE \E op \in {"ArtifactVerifyReboot", "ArtifactCommit"} : Call(op)
    <3>1. to' = to /\ cur' = cur /\ ret' = "none"
      BY <2>5, Zenon DEF Call
    <3> QED BY <2>1, <2>2, <2>3, <3>1, <1>UnsettledStage, Zenon DEF SwitchOver, Verifying
  <2>6. ASSUME NEW s, Goto(s), s.id \in Verifying
        PROVE  StageInv' /\ StoredStageInv'
    <3>1. to'.id \in Verifying /\ cur' = cur /\ call' = "none"
      BY <2>6, Zenon DEF Goto
    <3>2. to'.id \in SwitchOver /\ to'.id \notin {"Reboot", "RollbackReboot", "Install"}
      BY <3>1, Zenon DEF SwitchOver, Verifying
    <3> QED BY <2>1, <2>2, <2>3, <3>1, <3>2, <1>UnsettledStage, Zenon
  <2>7. /\ Plain("AfterReboot").id \in Verifying /\ Plain("Commit").id = "Commit"
        /\ [Plain("PreCommitRetry") EXCEPT !.tries = cur.tries + 1].id \in Verifying
        /\ [Plain("Commit") EXCEPT !.tries = cur.tries].id \in Verifying
    <3>1. Plain("Commit") \in State /\ Plain("PreCommitRetry") \in State
      BY PlainShape, Zenon DEF StateIds, UpdateStates
    <3> QED BY <3>1, PlainShape DEF Verifying, StateIds, UpdateStates, State
  <2>8. CASE VerifyReboot \/ AfterReboot
    BY <2>4, <2>5, <2>6, <2>7, <2>8, Zenon DEF VerifyReboot, AfterReboot, Handling, Answered, Verifying
  <2>9. CASE Commit \/ PreCommitRetry
    BY <2>4, <2>5, <2>6, <2>7, <2>9, Zenon DEF Commit, PreCommitRetry, Handling, Verifying
  <2>10. CASE CommitStore
    BY <2>4, <2>10, Zenon DEF CommitStore, Answered, StageInv
  <2> QED BY <2>8, <2>9, <2>10, Zenon

\* The update is rolled back.
<1>RollbackUnsettled.
    ASSUME DeviceInv, StageInv, StoredStageInv, ~Settled, UNCHANGED <<env, image, running>>,
           Rollback \/ RollbackReboot
    PROVE  StageInv' /\ StoredStageInv'
  <2> USE <1>RollbackUnsettled
  <2>1. /\ to = cur /\ cur.id \in {"Rollback", "RollbackReboot"} /\ UNCHANGED <<upd, inst, stateData>>
    BY InHandler, Zenon DEF DeviceInv, Rollback, RollbackReboot, Handling, Answered, memory, disk
  <2>2. /\ upd.rollback = "supported" /\ inst # "none" /\ stateData.info.rollback = "supported"
        /\ Booted \/ Reverting => upd.reboot = "custom" /\ stateData.info.reboot = "custom"
        /\ to.id = "RollbackReboot" => Reverting
    BY <2>1, Zenon DEF StoredStageInv, StageInv
  <2>3. CASE Rollback
    <3>1. cur.id = "Rollback"
      BY <2>3, Zenon DEF Rollback, Handling, Answered
    <3>2. CASE Call("ArtifactRollback")
      <4>1. to' = to /\ cur' = cur /\ ret' = "none"
        BY <3>2, Zenon DEF Call
      <4> QED BY <2>1, <2>2, <3>1, <4>1, <1>UnsettledStage, Zenon DEF SwitchOver, Verifying
    <3>3. CASE Answered("Rollback", "ArtifactRollback")
      <4>1. Reverting /\ ret # "err"
        BY <2>1, <3>1, <3>3, Zenon DEF StageInv, Answered
      <4>2. to' = Plain("RollbackReboot") /\ cur' = cur /\ call' = "none"
        BY <2>2, <2>3, <3>3, <4>1, Zenon DEF Rollback, AfterRollback, Goto, Answered, Handling
      <4>3. to'.id = "RollbackReboot"
        BY <4>2, PlainShape, Zenon DEF StateIds, UpdateStates
      <4> QED BY <2>1, <2>2, <4>1, <4>2, <4>3, <1>UnsettledStage, Zenon DEF SwitchOver, Verifying
    <3> QED BY <2>2, <2>3, <3>2, <3>3, Zenon DEF Rollback
  <2>4. CASE RollbackReboot
    <3>1. cur.id = "RollbackReboot" /\ Reverting
      BY <2>1, <2>2, <2>4, Zenon DEF RollbackReboot, Handling, Answered
    <3>2. Call("ArtifactRollbackReboot")
      BY <2>1, <2>2, <2>4, <3>1, Zenon DEF RollbackReboot, Answered, StageInv
    <3>3. to' = to /\ cur' = cur /\ ret' = "none" /\ call' = "ArtifactRollbackReboot"
      BY <3>2, Zenon DEF Call
    <3> QED BY <2>1, <2>2, <3>1, <3>3, <1>UnsettledStage, Zenon DEF SwitchOver, Verifying
  <2> QED BY <2>3, <2>4, Zenon

\* The other handlers run on a settled device only.
<1>OthersSettled.
    ASSUME DeviceInv, StageInv, Handle,
           ~(InitIdle \/ InitLoadFails \/ InitResume \/ Install \/ InstallInstalled \/ InstallRebootType),
           ~(Reboot \/ RebootReturns \/ VerifyReboot \/ AfterReboot \/ Commit \/ PreCommitRetry),
           ~(CommitStore \/ Rollback \/ RollbackReboot)
    PROVE  Settled
  <2> USE <1>OthersSettled
  <2>1. /\ pc = "handle"
        /\ cur.id \in {"Idle", "AuthorizeWait", "Authorize", "CheckWait", "InventoryUpdate", "UpdateCheck",
                       "Error", "UpdateFetch", "FetchStoreRetry", "UpdateStore", "AfterStore"}
               \union {"AfterFirstCommit", "AfterCommit", "VerifyRollbackReboot", "AfterRollbackReboot",
                       "UpdateError", "Cleanup", "StatusReport", "StatusReportRetry", "ReportError"}
    BY Zenon DEF Handle, Idle, AuthorizeWait, Authorize, CheckWait, InventoryUpdate, Error, UpdateCheck,
       UpdateFetch, FetchStoreRetry, UpdateStore, UpdateStoreHeaders, UpdateStorePayloads,
       UpdateStoreRollback, AfterStore, AfterFirstCommit, AfterCommit, VerifyRollbackReboot,
       AfterRollbackReboot, UpdateError, Cleanup, StatusReport, StatusReportRetry, ReportError,
       Handling, Answered
  <2> QED BY <2>1, Zenon DEF StageInv, SwitchOver, Verifying

\* Every step of the daemon keeps the device on its way.
<1>DaemonStage.
    ASSUME DeviceInv, AccountInv, StageInv, StoredStageInv, CountSuffices, "db" \notin Faults, DaemonStep
    PROVE  StageInv' /\ StoredStageInv'
  <2> USE <1>DaemonStage
  <2>1. UNCHANGED <<env, running>> /\ Daemon
    BY Zenon DEF DaemonStep
  <2>2. CASE Settled
    <3>1. Onward /\ ~Candidate
      BY <2>1, <2>2, DaemonOnward, Zenon DEF DeviceInv, Settled, Candidate
    <3>2. ~HasInstalled' /\ to'.id # "Reboot"
      BY <3>1, Zenon DEF Onward, DeviceInv, GenuineInv, HasInstalled
    <3>3. Settled'
      <4>1. CASE deployments' = deployments
        BY <2>1, <2>2, <4>1, Zenon DEF DaemonStep, Settled, HasUpdate, Boots
      <4>2. CASE deployments' # deployments
        BY <2>1, <2>2, <4>2, Zenon DEF DaemonStep, Settled, HasUpdate, Boots, StageInv
      <4> QED BY <4>1, <4>2, Zenon
    <3> QED BY <2>1, <3>1, <3>2, <3>3, SettledStage, Zenon DEF StageInv, Onward
  <2>3. CASE ~Settled
    <3>1. image' = image
      <4>1. deployments' = deployments
        BY <2>1, <2>3, NewDeployments, Zenon DEF DeviceInv, StageInv, SwitchOver, Verifying
      <4> QED BY <4>1, Zenon DEF DaemonStep
    <3>2. CASE Handle
      BY <2>1, <2>3, <3>1, <3>2, <1>OthersSettled, <1>ResumeUnsettled, <1>InstallUnsettled,
         <1>RebootUnsettled,
         <1>VerifyUnsettled, <1>RollbackUnsettled, Zenon
    <3> QED BY <2>1, <2>3, <3>1, <3>2, <1>RunUnsettled, Zenon DEF Daemon
  <2> QED BY <2>2, <2>3, Zenon

(* The device stays bootable: the device and the machine.                  *)

\* The image is written while the device is settled.
<1>StoreStage.
    ASSUME DeviceInv, StageInv, StoredStageInv, StoreBegins \/ StoreEnds
    PROVE  StageInv' /\ StoredStageInv'
  <2> USE <1>StoreStage
  <2>1. /\ call = "Download" /\ pc = "handle"
        /\ UNCHANGED <<cur, to, pc, call, stateData, env, running>>
    BY Zenon DEF StoreBegins, StoreEnds, vars, AnswerWith, disk, DeviceInv, Inv, CallInv
  <2>2. to.id = "UpdateStore" /\ running \in Partitions /\ ~HasInstalled'
    BY <2>1, InHandler, Zenon DEF Calls, DeviceInv, StageInv, HasInstalled
  <2>3. Settled
    BY <2>2, Zenon DEF StageInv, SwitchOver, Verifying
  <2>4. image'[running] = image[running]
    BY <2>2, TwoPartitions, Zenon DEF StoreBegins, StoreEnds, DeviceInv, DeviceOK
  <2>5. Settled'
    BY <2>1, <2>3, <2>4, Zenon DEF Settled, HasUpdate, Boots
  <2> QED BY <2>1, <2>2, <2>5, SettledStage, Zenon

\* The environment is written for the new image.
<1>InstallStage.
    ASSUME DeviceInv, StageInv, StoredStageInv, InstallUpdate
    PROVE  StageInv' /\ StoredStageInv'
  <2> USE <1>InstallStage
  <2>1. /\ to = cur /\ call \in Calls(cur.id) /\ call = "ArtifactInstall" /\ ret = "none" /\ ret' = "ok"
        /\ UNCHANGED <<cur, to, call, upd, inst, stateData, image, running>>
        /\ cur.id \in UpdateStates => stateData.name = StoredName(cur.id) /\ stateData.info = upd
        /\ cur \in State
    BY DeviceAnswerRoute, Zenon DEF InstallUpdate, DeviceInv, AnswerWith, Inv, TypeOK
  <2>2. cur.id = "Install" /\ stateData.name = "Install" /\ stateData.info = upd
    BY <2>1, StateShape, Zenon DEF Calls, StateIds, UpdateStates, StoredName
  <2>3. Settled /\ HasInstalled' /\ image[Other(running)] \in {"new", "bad"}
    BY <2>1, <2>2, Zenon DEF StageInv, HasInstalled, DeviceInv, GenuineInv
  <2>4. env' = [bootPart |-> Other(running), upgradeAvailable |-> TRUE, bootcount |-> 0]
    BY Zenon DEF InstallUpdate
  <2>5. Pending' /\ ~Settled' /\ ~Booted' /\ ~Reverting'
    BY <2>1, <2>3, <2>4, TwoPartitions, Zenon
       DEF Settled, Pending, Candidate, Booted, Reverting, Boots, HasUpdate, StageInv
  <2>6. upd.rollback = "supported" /\ inst # "none"
    BY <2>1, <2>2, Zenon DEF DeviceInv, OutcomeInv, Vouches, Knows, Forth, RouteInv, Dual, Inv,
       TypeOK, Info
  <2>7. StageInv'
    BY <2>1, <2>2, <2>3, <2>5, Zenon DEF StageInv, SwitchOver, Verifying
  <2>8. StoredStageInv'
    BY <2>1, <2>2, <2>5, <2>6, Zenon DEF StoredStageInv, SwitchOver, Verifying
  <2> QED BY <2>7, <2>8, Zenon

\* The device answers without changing anything.
<1>QueryStage.
    ASSUME DeviceInv, StageInv, StoredStageInv, Query \/ DeviceFails,
           FailingOps \intersect {"ArtifactRollback", "ArtifactRollbackReboot"} = {}
    PROVE  StageInv' /\ StoredStageInv'
  <2> USE <1>QueryStage
  <2>1. /\ UNCHANGED <<cur, to, call, upd, inst, stateData, env, image, running>>
        /\ to = cur /\ call \in Calls(cur.id) /\ ret = "none"
    BY DeviceAnswerRoute, Zenon DEF Query, DeviceFails, rootfs, DeviceInv
  <2>2. /\ call \notin {"ArtifactRollback", "ArtifactRollbackReboot"}
        /\ call \in {"ArtifactInstall", "ArtifactCommit"} => ret' = "err"
    BY Zenon DEF Query, DeviceFails, AnswerWith
  <2>3. HasInstalled' = HasInstalled
    BY <2>1, <2>2, Zenon DEF HasInstalled
  <2>4. Settled' = Settled /\ Pending' = Pending /\ Booted' = Booted /\ Reverting' = Reverting
    BY <2>1, SameStage, Zenon
  <2>5. StageInv'
    BY <2>1, <2>2, <2>3, <2>4, Zenon DEF StageInv
  <2>6. StoredStageInv'
    BY <2>1, <2>4, Zenon DEF StoredStageInv
  <2> QED BY <2>5, <2>6, Zenon

\* The machine reboots, unless how to reboot it back is not known.
<1>BootedStage.
    ASSUME DeviceInv, StageInv, StoredStageInv, Boot, UNCHANGED <<image, stateData>>,
           to'.id = "Init", cur'.id = "Init", call' = "none",
           HasUpdate => stateData.info.reboot # "unset"
    PROVE  StageInv' /\ StoredStageInv'
  <2> USE <1>BootedStage
  <2>1. /\ running' \in Partitions
        /\ Settled' \/ (Pending /\ Booted')
        /\ Settled => Settled'
        /\ Booted \/ Reverting => Settled'
    BY BootStage, Zenon DEF DeviceInv
  <2>2. CASE Settled'
    BY <2>1, <2>2, SettledStage, Zenon DEF HasInstalled
  <2>3. CASE ~Settled'
    <3>1. Pending /\ ~Settled /\ ~Booted /\ ~Reverting /\ Booted'
      BY <2>1, <2>3, Zenon
    <3>2. ~Reverting' /\ ~Pending'
      BY <2>1, <3>1, TwoPartitions, Zenon DEF Pending, Candidate, Booted, Reverting
    <3>3. stateData.info.rollback = "supported" /\ stateData.info.reboot = "custom"
      BY <3>1, Zenon DEF StoredStageInv, DeviceInv, RouteInv, Dual, Pending, Candidate
    <3>4. StageInv'
      BY <2>1, <2>3, <3>1, <3>2, Zenon DEF StageInv, SwitchOver, Verifying, HasInstalled
    <3>5. StoredStageInv'
      BY <2>3, <3>1, <3>2, <3>3, Zenon DEF StoredStageInv
    <3> QED BY <3>4, <3>5, Zenon
  <2> QED BY <2>2, <2>3, Zenon

\* A new process.
<1>RestartStage.
    ASSUME DeviceInv, StageInv, StoredStageInv, RootfsReboots \/ PowerCut \/ DaemonRestart,
           hit' \intersect {<<"cut", "install">>, <<"restart", "reboot">>} = {}
    PROVE  StageInv' /\ StoredStageInv'
  <2> USE <1>RestartStage
  <2>1. to'.id = "Init" /\ cur'.id = "Init" /\ call' = "none" /\ UNCHANGED stateData
    BY RestartRoute, Zenon DEF RootfsReboots, PowerCut, DaemonRestart, DeviceInv
  <2>2. CASE RootfsReboots
    <3>1. /\ to = cur /\ cur \in State /\ call \in RebootOps /\ call \in Calls(cur.id)
          /\ cur.id \in UpdateStates => stateData.info = upd
      BY <2>2, InHandler, Zenon DEF RootfsReboots, Reboots, DeviceInv, RebootOps, Inv, CallInv
    <3>2. cur.id \in {"Reboot", "RollbackReboot"}
      BY <3>1, StateShape, Zenon DEF Calls, StateIds, UpdateStates, RebootOps
    <3>3. stateData.info.reboot # "unset"
      BY <3>1, <3>2, Zenon DEF DeviceInv, OutcomeInv, Vouches, Knows, RolledBack, UpdateStates
    <3> QED BY <2>1, <2>2, <3>3, <1>BootedStage, Zenon DEF RootfsReboots
  <2>3. CASE PowerCut
    <3>1. HasUpdate => stateData.info.reboot # "unset"
      BY <2>3, Zenon DEF PowerCut, Windows
    <3> QED BY <2>1, <2>3, <3>1, <1>BootedStage, Zenon DEF PowerCut
  <2>4. CASE DaemonRestart
    <3>1. UNCHANGED <<env, image, running>>
      BY <2>4, Zenon DEF DaemonRestart, rootfs
    <3>2. Settled' = Settled /\ Pending' = Pending /\ Booted' = Booted /\ Reverting' = Reverting
      BY <3>1, SameStage, Zenon
    <3>3. stateData.name \in {"Reboot", "RollbackReboot"} => env.bootPart = running
      BY <2>4, Zenon DEF DaemonRestart, Windows
    <3>4. stateData.name \in {"Reboot", "RollbackReboot"} => ~Pending /\ ~Reverting
      BY <3>3, TwoPartitions, Zenon DEF Pending, Candidate, Reverting, StageInv
    <3>5. StageInv'
      BY <2>1, <3>1, <3>2, Zenon DEF StageInv, SwitchOver, Verifying, HasInstalled
    <3>6. StoredStageInv'
      BY <2>1, <3>2, <3>4, Zenon DEF StoredStageInv
    <3> QED BY <3>5, <3>6, Zenon
  <2> QED BY <2>2, <2>3, <2>4, Zenon

\* A step that changes nothing keeps the stage.
<1>StillStage.
    ASSUME StageInv, StoredStageInv, UNCHANGED rootfsVars
    PROVE  StageInv' /\ StoredStageInv'
  <2> USE <1>StillStage
  <2>1. UNCHANGED <<env, image, running>> /\ UNCHANGED <<cur, to, call, ret, upd, inst, stateData>>
    BY Zenon DEF rootfsVars, rootfs, vars
  <2>2. /\ Settled' = Settled /\ Pending' = Pending /\ Booted' = Booted /\ Reverting' = Reverting
        /\ HasInstalled' = HasInstalled
    BY <2>1, SameStage, Zenon DEF HasInstalled
  <2>3. StageInv'
    BY <2>1, <2>2, Zenon DEF StageInv
  <2> QED BY <2>1, <2>2, <2>3, Zenon DEF StoredStageInv

<1> SUFFICES
    ASSUME Dependable, DeviceInv, AccountInv, StageInv, StoredStageInv, CountSuffices,
           [RootfsNext]_rootfsVars,
           hit' \intersect {<<"cut", "install">>, <<"restart", "reboot">>} = {}
    PROVE  StageInv' /\ StoredStageInv'
  OBVIOUS
<1>1. CASE DaemonStep
  BY <1>1, <1>DaemonStage, Zenon DEF Dependable
<1>2. CASE StoreBegins \/ StoreEnds
  BY <1>2, <1>StoreStage, Zenon
<1>3. CASE InstallUpdate \/ CommitUpdate \/ RollbackUpdate
  BY <1>3, <1>InstallStage, CommitStage, RollbackStage, Zenon
<1>4. CASE Query \/ DeviceFails
  BY <1>4, <1>QueryStage, Zenon DEF Dependable
<1>5. CASE RootfsReboots \/ PowerCut \/ DaemonRestart
  BY <1>5, <1>RestartStage, Zenon
<1>6. CASE Dead \/ UNCHANGED rootfsVars
  BY <1>6, <1>StillStage, Zenon DEF Dead
<1> QED BY <1>1, <1>2, <1>3, <1>4, <1>5, <1>6, Zenon DEF RootfsNext

\* The first start satisfies the invariants.
LEMMA StageInit == RootfsInit => AccountInv /\ SafeInv /\ NameInv
<1> SUFFICES ASSUME RootfsInit PROVE AccountInv /\ SafeInv /\ NameInv
  OBVIOUS
<1>1. AccountInv
  BY AccountInit, Zenon DEF RootfsInit
<1>2. /\ cur = Plain("Init") /\ to = Plain("Init") /\ call = "none" /\ stateData = NoEntry
      /\ artifactName = "prev" /\ finished = {}
  BY Zenon DEF RootfsInit, Init
<1>3. Plain("Init").id = "Init" /\ NoEntry.name = "none"
  BY PlainShape, Zenon DEF StateIds, NoEntry
<1>4. running = "A" /\ env.bootPart = "A" /\ ~env.upgradeAvailable /\ image["A"] = "old"
  BY Zenon DEF RootfsInit
<1>5. Settled /\ ~Booted /\ ~Reverting /\ ~Pending /\ running \in Partitions
  BY <1>4, Zenon DEF Settled, Booted, Reverting, Pending, Candidate, HasUpdate, Boots, Partitions, Other
<1>6. StageInv /\ StoredStageInv
  BY <1>2, <1>3, <1>5, Zenon DEF StageInv, StoredStageInv, SwitchOver, Verifying, HasInstalled
<1>7. NamingInv
  BY <1>2, <1>4, <1>5, Zenon DEF NamingInv
<1> QED BY <1>1, <1>6, <1>7, Zenon DEF SafeInv, NameInv

\* The invariant holds as long as the count suffices.
LEMMA SpecSafe ==
    ASSUME Dependable
    PROVE  RootfsSpec /\ []CountSuffices => [](AccountInv /\ SafeInv)
<1>1. RootfsInit => AccountInv /\ SafeInv
  BY StageInit, Zenon
<1>2. DeviceInv /\ CountSuffices /\ AccountInv /\ SafeInv /\ [RootfsNext]_rootfsVars =>
          (AccountInv /\ SafeInv)'
  <2> SUFFICES ASSUME DeviceInv, CountSuffices, AccountInv, SafeInv, [RootfsNext]_rootfsVars
               PROVE  AccountInv' /\ SafeInv'
    OBVIOUS
  <2>1. AccountInv'
    BY RootfsAccount, Zenon DEF Dependable
  <2>2. hit \subseteq hit'
    BY HitGrows, Zenon
  <2>3. SafeInv'
    BY <2>2, StageNext, Zenon DEF SafeInv
  <2> QED BY <2>1, <2>3, Zenon
<1> QED BY <1>1, <1>2, SpecDevice, PTL DEF RootfsSpec

\* The device always boots something complete and good, or has the boot
\* loader's way back, through any number of deployments, power cuts, restarts,
\* bad images and failing scripts; unless power was lost before the database
\* knew of the reboot or the service was restarted while one was due.  It
\* needs a database that can be written, a rollback (and the reboot after it)
\* that does not fail, and a count of stores that outlasts the switch: without
\* any of these, StoreUpdate of a later deployment can overwrite the partition
\* that is to be booted.
THEOREM StaysBootable ==
    ASSUME Dependable
    PROVE  RootfsSpec /\ []CountSuffices => []AlwaysBootable
<1>1. SafeInv => AlwaysBootable
  BY Zenon DEF SafeInv, StageInv, AlwaysBootable, Settled, Pending, Candidate, Booted, Reverting,
     HasUpdate
<1> QED BY <1>1, SpecSafe, PTL

------------------------------------------------------------------------------
(* The name in the database is the name of what runs.                      *)

\* Only the commit, the flag and a new deployment change the name.
LEMMA NameSteps ==
    ASSUME DeviceInv, Daemon
    PROVE  /\ pc = "flag" => SetBrokenArtifactFlag
           /\ call = "ArtifactCommit" => CommitStore
           /\ \/ CommitStore \/ SetBrokenArtifactFlag \/ deployments' # deployments
              \/ UNCHANGED <<artifactName, finished>>
<1>1. call = "ArtifactCommit" => pc = "handle"
  BY Zenon DEF DeviceInv, Inv, CallInv
<1>2. deployments \in Nat
  BY Zenon DEF DeviceInv, Inv, TypeOK
<1>3. CASE Exit \/ LeaveFails \/ Transit \/ StoreState \/ Enter \/ SetBrokenArtifactFlag
  BY <1>1, <1>3, Zenon DEF Exit, LeaveFails, Transit, StoreState, Enter, SetBrokenArtifactFlag,
     disk, world
<1>4. CASE \/ InitIdle \/ InitLoadFails \/ InitResume \/ Idle \/ AuthorizeWait \/ Authorize
           \/ CheckWait \/ InventoryUpdate \/ Error
  BY <1>4, Zenon DEF InitIdle, InitLoadFails, InitResume, Idle, AuthorizeWait, Authorize, CheckWait,
     InventoryUpdate, Error, Handling, disk, world
<1>5. CASE UpdateCheck
  <2>1. pc = "handle" /\ call = "none"
    BY <1>5, Zenon DEF UpdateCheck, Handling
  <2>2. CASE NewDeployment
    <3>1. deployments' = deployments + 1
      BY <2>2, Zenon DEF NewDeployment
    <3> QED BY <1>2, <2>1, <3>1
  <2>3. CASE UNCHANGED <<memory, disk, backend, world>>
    BY <2>1, <2>3, Zenon DEF disk, world
  <2> QED BY <1>5, <2>2, <2>3, Zenon DEF UpdateCheck
<1>6. CASE \/ UpdateFetch \/ FetchStoreRetry \/ UpdateStore \/ UpdateStoreHeaders
           \/ UpdateStorePayloads \/ UpdateStoreRollback \/ AfterStore
           \/ Install \/ InstallInstalled \/ InstallRebootType
  BY <1>6, Zenon DEF UpdateFetch, FetchStoreRetry, UpdateStore, UpdateStoreHeaders, UpdateStorePayloads,
     UpdateStoreRollback, AfterStore, Install, InstallInstalled, InstallRebootType, Handling, Answered,
     disk, world
<1>7. CASE \/ Reboot \/ RebootReturns \/ VerifyReboot \/ AfterReboot \/ Commit \/ PreCommitRetry
           \/ AfterFirstCommit \/ AfterCommit
  BY <1>7, Zenon DEF Reboot, RebootReturns, VerifyReboot, AfterReboot, Commit, PreCommitRetry,
     AfterFirstCommit, AfterCommit, Handling, Answered, disk, world
<1>8. CASE \/ Rollback \/ RollbackReboot \/ VerifyRollbackReboot \/ AfterRollbackReboot
           \/ UpdateError \/ Cleanup \/ StatusReport \/ StatusReportRetry \/ ReportError
  BY <1>8, Zenon DEF Rollback, RollbackReboot, VerifyRollbackReboot, AfterRollbackReboot, UpdateError, Cleanup,
     StatusReport, StatusReportRetry, ReportError, Handling, Answered, disk, world
<1>9. CASE CommitStore
  BY <1>9, Zenon DEF CommitStore, Answered
<1> QED BY <1>3, <1>4, <1>5, <1>6, <1>7, <1>8, <1>9, Zenon DEF Daemon, Handle

\* The stages of the next state exclude each other, too.
LEMMA OneStageNext ==
    ASSUME StageInv'
    PROVE  /\ Settled' => ~Pending' /\ ~Booted' /\ ~Reverting'
           /\ Pending' => ~Booted' /\ ~Reverting'
           /\ Booted' => ~Reverting'
BY TwoPartitions, Zenon DEF StageInv, Settled, Pending, Candidate, Booted, Reverting

\* A step that changes neither the device nor the name.
LEMMA NamingKept ==
    ASSUME NamingInv, UNCHANGED <<env, image, running, artifactName>>,
           "ArtifactCommit" \in finished' <=> "ArtifactCommit" \in finished,
           call' = "ArtifactCommit" => ret' # "ok",
           ~(artifactName = "prev" /\ "ArtifactCommit" \in finished)
    PROVE  NamingInv'
<1>1. Settled' = Settled /\ Pending' = Pending /\ Booted' = Booted /\ Reverting' = Reverting
  BY SameStage, Zenon
<1> QED BY <1>1, Zenon DEF NamingInv

\* The commit is stored with the name.
LEMMA CommitStoreNaming ==
    ASSUME DeviceInv, NamingInv, CommitStore, "db" \notin Faults, UNCHANGED <<env, image, running>>
    PROVE  NamingInv'
<1>1. pc = "handle" /\ cur.id = "Commit" /\ call = "ArtifactCommit" /\ UNCHANGED finished
  BY Zenon DEF CommitStore, Answered, world
<1>2. Settled' = Settled /\ Pending' = Pending /\ Booted' = Booted /\ Reverting' = Reverting
  BY SameStage, Zenon
<1>3. CASE ret = "err"
  <2>1. UNCHANGED artifactName /\ HandleError(cur, "transient")
    BY <1>3, Zenon DEF CommitStore, disk
  <2>2. call' = "none"
    BY <1>1, <2>1, PlainShape, Zenon DEF HandleError, RollbackOrFail, Goto, GotoBroken
  <2> QED BY <1>1, <1>3, <2>1, <2>2, NamingKept, Zenon DEF NamingInv
<1>4. CASE ret = "ok"
  <2>1. Settled /\ image[running] = "new" /\ "ArtifactCommit" \in finished
    BY <1>1, <1>4, Zenon DEF NamingInv, DeviceInv, Inv, CallInv
  <2>2. \/ artifactName' = "next"
        \/ artifactName' = artifactName /\ pc' = "flag" /\ cur' = cur
    BY <1>4, Zenon DEF CommitStore, StoreFailed, StoreExceeded, GotoBroken
  <2>3. call' = "none"
    BY <1>4, Zenon DEF CommitStore, StoreExceeded, GotoBroken, Goto
  <2> QED BY <1>1, <1>2, <2>1, <2>2, <2>3, Zenon DEF NamingInv
<1> QED BY <1>3, <1>4, Zenon DEF CommitStore

\* A step of the daemon keeps the name true.
LEMMA DaemonNaming ==
    ASSUME DeviceInv, StageInv, StageInv', NamingInv, DaemonStep, "db" \notin Faults
    PROVE  NamingInv'
<1>1. Daemon /\ UNCHANGED <<env, running>>
  BY Zenon DEF DaemonStep
<1>2. CASE deployments' # deployments
  <2>1. cur.id = "UpdateCheck" /\ call' = "none" /\ artifactName' = "prev" /\ finished' = {}
    BY <1>1, <1>2, NewDeployments, Zenon DEF DeviceInv, NewDeployment
  <2>2. Settled
    BY <2>1, Zenon DEF StageInv, SwitchOver, Verifying
  <2>3. running \in Partitions /\ image'[running] = "old"
    BY <1>2, Zenon DEF DaemonStep, StageInv
  <2>4. Settled'
    BY <1>1, <2>2, <2>3, Zenon DEF Settled, Boots, HasUpdate
  <2> QED BY <1>1, <2>1, <2>3, <2>4, OneStageNext, Zenon DEF NamingInv
<1>3. CASE deployments' = deployments
  <2>1. UNCHANGED image
    BY <1>3, Zenon DEF DaemonStep
  <2>2. CASE CommitStore
    BY <1>1, <2>1, <2>2, CommitStoreNaming, Zenon
  <2>3. CASE SetBrokenArtifactFlag
    <3>1. artifactName' = "broken" /\ call' = call /\ pc = "flag"
      BY <2>3, Zenon DEF SetBrokenArtifactFlag
    <3>2. call = "none"
      BY <3>1, Zenon DEF DeviceInv, Inv, CallInv
    <3> QED BY <3>1, <3>2, Zenon DEF NamingInv
  <2>4. CASE ~CommitStore /\ ~SetBrokenArtifactFlag
    <3>1. UNCHANGED <<artifactName, finished>> /\ pc # "flag" /\ call # "ArtifactCommit"
      BY <1>1, <1>3, <2>4, NameSteps, Zenon
    <3>2. call' # "none" => ret' = "none"
      BY <1>1, DaemonOnward, Zenon DEF DeviceInv, Onward
    <3> QED BY <1>1, <2>1, <3>1, <3>2, NamingKept, Zenon DEF NamingInv
  <2> QED BY <2>2, <2>3, <2>4, Zenon
<1> QED BY <1>2, <1>3, Zenon

\* So does an answer of the device.
LEMMA AnswerNaming ==
    ASSUME DeviceInv, StageInv, StoredStageInv, StageInv', NamingInv,
           StoreEnds \/ InstallUpdate \/ CommitUpdate \/ RollbackUpdate \/ Query \/ DeviceFails
    PROVE  NamingInv'
<1>1. PICK r : AnswerWith(r)
  BY DeviceAnswers, Zenon
<1>2. /\ call # "none" /\ ret = "none" /\ ret' = r /\ pc = "handle"
      /\ UNCHANGED <<cur, to, pc, call, artifactName, running>>
      /\ finished' = IF r = "err" THEN finished ELSE finished \union {call}
  BY <1>1, Zenon DEF AnswerWith, disk, StoreEnds, InstallUpdate, CommitUpdate, RollbackUpdate, Query,
     DeviceFails, rootfs, DeviceInv, Inv, CallInv
<1>3. ~(artifactName = "prev" /\ "ArtifactCommit" \in finished)
  BY <1>2, Zenon DEF NamingInv
<1>4. running \in Partitions /\ Other(running) # running
  BY TwoPartitions, Zenon DEF StageInv
<1>5. to = cur /\ call \in Calls(cur.id)
  BY <1>2, InHandler, Zenon DEF DeviceInv
<1>6. CASE StoreEnds
  <2>1. call = "Download" /\ env' = env /\ image'[running] = image[running]
    BY <1>4, <1>6, Zenon DEF StoreEnds, DeviceInv, DeviceOK
  <2>2. to.id = "UpdateStore"
    BY <1>5, <2>1, Zenon DEF Calls
  <2>3. Settled
    BY <2>2, Zenon DEF StageInv, SwitchOver, Verifying
  <2>4. Settled'
    BY <1>2, <2>1, <2>3, Zenon DEF Settled, Boots, HasUpdate
  <2> QED BY <1>2, <1>3, <2>1, <2>3, <2>4, OneStageNext, Zenon DEF NamingInv
<1>7. CASE InstallUpdate
  <2>1. call = "ArtifactInstall" /\ UNCHANGED image
    BY <1>7, Zenon DEF InstallUpdate
  <2>2. to.id = "Install"
    BY <1>5, <2>1, Zenon DEF Calls
  <2>3. Settled /\ artifactName = "prev"
    BY <1>2, <2>1, <2>2, Zenon DEF StageInv, HasInstalled, DeviceInv, RouteInv, Before
  <2>4. image[running] = "old"
    BY <1>3, <2>3, Zenon DEF NamingInv
  <2>5. env' = [bootPart |-> Other(running), upgradeAvailable |-> TRUE, bootcount |-> 0]
    BY <1>7, Zenon DEF InstallUpdate
  <2>6. ~Booted' /\ ~Reverting'
    BY <1>2, <1>4, <2>5, Zenon DEF Booted, Reverting, HasUpdate
  <2> QED BY <1>2, <1>3, <2>1, <2>3, <2>4, <2>6, Zenon DEF NamingInv
<1>8. CASE CommitUpdate
  <2>1. Settled' /\ (HasUpdate => Booted) /\ (~HasUpdate => Settled)
    BY <1>8, CommitStage, Zenon
  <2>2. call = "ArtifactCommit" /\ UNCHANGED image /\ r = (IF HasUpdate THEN "ok" ELSE "err")
    BY <1>2, <1>8, Zenon DEF CommitUpdate, AnswerWith
  <2>3. CASE HasUpdate
    <3>1. Booted /\ image[running] = "new" /\ r = "ok" /\ ~Settled
      BY <2>1, <2>2, <2>3, Zenon DEF Booted, Settled
    <3> QED BY <1>2, <2>1, <2>2, <3>1, Zenon DEF NamingInv
  <2>4. CASE ~HasUpdate
    <3>1. Settled /\ r = "err"
      BY <2>1, <2>2, <2>4, Zenon
    <3> QED BY <1>2, <1>3, <2>1, <2>2, <3>1, OneStageNext, Zenon DEF NamingInv
  <2> QED BY <2>3, <2>4, Zenon
<1>9. CASE RollbackUpdate
  <2>1. /\ Settled \/ Pending => Settled'
        /\ Booted \/ Reverting => Reverting'
    BY <1>9, RollbackStage, Zenon
  <2>2. call = "ArtifactRollback" /\ UNCHANGED image
    BY <1>9, Zenon DEF RollbackUpdate
  <2>3. Settled \/ Pending \/ Booted \/ Reverting
    BY Zenon DEF StageInv
  <2> QED BY <1>2, <1>3, <2>1, <2>2, <2>3, OneStageNext, Zenon DEF NamingInv
<1>10. CASE Query \/ DeviceFails
  <2>1. UNCHANGED <<env, image, running>> /\ (call = "ArtifactCommit" => r = "err")
    BY <1>2, <1>10, Zenon DEF Query, DeviceFails, rootfs, AnswerWith
  <2> QED BY <1>2, <1>3, <2>1, NamingKept, Zenon
<1> QED BY <1>6, <1>7, <1>8, <1>9, <1>10, Zenon

\* The download begins; nothing happens.
LEMMA StillNaming ==
    ASSUME DeviceInv, StageInv, StageInv', NamingInv, StoreBegins \/ UNCHANGED rootfsVars
    PROVE  NamingInv'
<1>1. CASE StoreBegins
  <2>1. /\ call = "Download" /\ ret = "none" /\ UNCHANGED <<env, running>>
        /\ UNCHANGED <<call, ret, pc, cur, artifactName, finished>>
    BY <1>1, Zenon DEF StoreBegins, vars, disk, world
  <2>2. to = cur /\ call \in Calls(cur.id)
    BY <2>1, InHandler, Zenon DEF DeviceInv, Inv, CallInv
  <2>3. to.id = "UpdateStore" /\ running \in Partitions
    BY <2>1, <2>2, Zenon DEF Calls, StageInv
  <2>4. Settled
    BY <2>3, Zenon DEF StageInv, SwitchOver, Verifying
  <2>5. image'[running] = image[running]
    BY <1>1, <2>3, TwoPartitions, Zenon DEF StoreBegins, DeviceInv, DeviceOK
  <2>6. Settled'
    BY <2>1, <2>4, <2>5, Zenon DEF Settled, Boots, HasUpdate
  <2> QED BY <2>1, <2>4, <2>5, <2>6, OneStageNext, Zenon DEF NamingInv
<1>2. CASE UNCHANGED rootfsVars
  <2>1. UNCHANGED <<env, image, running>> /\ UNCHANGED <<call, ret, pc, cur, artifactName, finished>>
    BY <1>2, Zenon DEF rootfsVars, rootfs, vars, disk, world
  <2>2. Settled' = Settled /\ Pending' = Pending /\ Booted' = Booted /\ Reverting' = Reverting
    BY <2>1, SameStage, Zenon
  <2> QED BY <2>1, <2>2, Zenon DEF NamingInv
<1> QED BY <1>1, <1>2, Zenon

\* So does a reboot, a power cut or a restart of the service.
LEMMA RestartNaming ==
    ASSUME DeviceInv, StageInv, StageInv', NamingInv, RootfsReboots \/ PowerCut \/ DaemonRestart,
           hit' \subseteq {<<"cut", "reboot">>, <<"restart", "install">>}
    PROVE  NamingInv'
<1>1. /\ call' = "none" /\ UNCHANGED <<image, artifactName>>
      /\ "ArtifactCommit" \in finished' <=> "ArtifactCommit" \in finished
  BY Zenon DEF RootfsReboots, PowerCut, DaemonRestart, Reboots, Crash, Restart, disk, RebootOps, rootfs
<1>2. ~(artifactName = "prev" /\ "ArtifactCommit" \in finished)
  <2>1. CASE RootfsReboots
    BY <2>1, Zenon DEF RootfsReboots, Reboots, RebootOps, NamingInv, DeviceInv, Inv, CallInv
  <2>2. CASE PowerCut
    <3>1. <<"cut", "commit">> \notin hit'
      OBVIOUS
    <3>2. "commit" \notin Windows
      BY <2>2, <3>1, Zenon DEF PowerCut
    <3> QED BY <3>2, Zenon DEF Windows
  <2>3. CASE DaemonRestart
    <3>1. <<"restart", "commit">> \notin hit'
      OBVIOUS
    <3>2. "commit" \notin Windows
      BY <2>3, <3>1, Zenon DEF DaemonRestart
    <3> QED BY <3>2, Zenon DEF Windows
  <2> QED BY <2>1, <2>2, <2>3, Zenon
<1>3. CASE RootfsReboots \/ PowerCut
  <2>1. /\ Settled' \/ (Pending /\ Booted')
        /\ Settled => Settled' /\ running' = running
        /\ Pending => IF Settled' THEN running' = running ELSE running' = Other(running)
        /\ Booted \/ Reverting => Settled' /\ running' = Other(running)
    BY <1>1, <1>3, BootStage, Zenon DEF RootfsReboots, PowerCut, DeviceInv
  <2>2. Settled \/ Pending \/ Booted \/ Reverting
    BY Zenon DEF StageInv
  <2>3. Other(Other(running)) = running
    BY TwoPartitions, Zenon DEF StageInv
  <2> QED BY <1>1, <1>2, <2>1, <2>2, <2>3, OneStageNext, Zenon DEF NamingInv
<1>4. CASE DaemonRestart
  BY <1>1, <1>2, <1>4, NamingKept, Zenon DEF DaemonRestart, rootfs
<1> QED BY <1>3, <1>4, Zenon

\* The name stays true.
LEMMA SpecNamed ==
    ASSUME Dependable
    PROVE  RootfsSpec /\ []CountSuffices => []NameInv
<1>1. RootfsInit => NameInv
  BY StageInit, Zenon
<1>2. DeviceInv /\ CountSuffices /\ (AccountInv /\ SafeInv) /\ NameInv /\ [RootfsNext]_rootfsVars => NameInv'
  <2> SUFFICES ASSUME DeviceInv, CountSuffices, AccountInv, SafeInv, NameInv, [RootfsNext]_rootfsVars,
                      hit' \subseteq {<<"cut", "reboot">>, <<"restart", "install">>}
               PROVE  NamingInv'
    BY Zenon DEF NameInv
  <2>1. hit \subseteq hit'
    BY HitGrows, Zenon
  <2>2. <<"cut", "install">> \notin hit' /\ <<"restart", "reboot">> \notin hit'
    OBVIOUS
  <2>3. NamingInv /\ StageInv /\ StoredStageInv
    BY <2>1, <2>2, Zenon DEF NameInv, SafeInv
  <2>4. StageInv'
    BY <2>2, <2>3, StageNext, Zenon
  <2> QED BY <2>3, <2>4, DaemonNaming, AnswerNaming, StillNaming, RestartNaming, Zenon
          DEF RootfsNext, Dead, Dependable
<1> QED BY <1>1, <1>2, SpecDevice, SpecSafe, PTL DEF RootfsSpec

\* When no update is in progress, the name in the database is the name of what
\* runs and of what will be booted, unless it says the device is broken; with
\* the same exceptions and needs as StaysBootable, and unless power was lost or
\* the service restarted between the commit of the device and that of the
\* database.
THEOREM NameIsImage ==
    ASSUME Dependable
    PROVE  RootfsSpec /\ []CountSuffices => []NameMatchesImage
<1>1. DeviceInv /\ SafeInv /\ NameInv => NameMatchesImage
  <2> SUFFICES ASSUME DeviceInv, SafeInv, NameInv, AtRest, artifactName # "broken",
                      hit \subseteq {<<"cut", "reboot">>, <<"restart", "install">>}
               PROVE  /\ env.bootPart = running
                      /\ image[running] = IF artifactName = "next" THEN "new" ELSE "old"
    BY Zenon DEF NameMatchesImage
  <2>1. <<"cut", "install">> \notin hit /\ <<"restart", "reboot">> \notin hit
    OBVIOUS
  <2>2. StageInv /\ NamingInv
    BY <2>1, Zenon DEF SafeInv, NameInv
  <2>3. Settled
    BY <2>2, Zenon DEF StageInv, AtRest, SwitchOver, Verifying
  <2>4. cur.id # "Commit" /\ call # "ArtifactCommit" /\ artifactName \in {"prev", "next", "broken"}
    BY Zenon DEF AtRest, DeviceInv, Inv, CallInv, TypeOK
  <2> QED BY <2>2, <2>3, <2>4, Zenon DEF NamingInv, Settled
<1> QED BY <1>1, SpecDevice, SpecSafe, SpecNamed, PTL
==============================================================================
