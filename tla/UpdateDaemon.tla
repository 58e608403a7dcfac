---------------------------- MODULE UpdateDaemon -----------------------------
(***************************************************************************)
(* The daemon's state machine (app/state.go, app/transition.go,            *)
(* transitionState in app/mender.go, Run in app/daemon.go) with everything *)
(* that can happen around it: the payload it installs, the server it       *)
(* reports to, state scripts, signals, power cuts.                         *)
(*                                                                         *)
(* One iteration of Run is three steps.  Transit leaves the current state  *)
(* and stores the next one; Enter runs the enter scripts; the action named *)
(* after the state is its Handle method.  Handle calls the payload (an     *)
(* installer.PayloadUpdatePerformer) through the variable call; the payload *)
(* answers through ret, so that a power cut can come before, during and    *)
(* after every call and every database transaction.                        *)
(*                                                                         *)
(* An artifact has exactly one payload: installer.ReadHeaders rejects more *)
(* than one, and a header without any is not valid.                        *)
(***************************************************************************)
EXTENDS Naturals, StoreCount

CONSTANTS
    MaxTrySending,                \* maxSendingAttempts() + 1
    MaxFetchAttempts,             \* attempts GetExponentialBackoffTime allows
    RollbackAnswers,              \* what SupportsRollback may answer
    RebootAnswers,                \* what NeedsReboot may answer
    FailingOps,                   \* payload operations that may fail
    ScriptFaults,                 \* transitions whose scripts may fail
    Faults,                       \* other things that may go wrong
    MaxCrashes,                   \* bound on power cuts
    MaxDeployments                \* bound on deployments

FaultKinds == {"net", "abort", "db", "log", "fetch", "mismatch", "scripts version",
               "idle", "signal"}

Operations == {"ReadHeaders", "Download", "SupportsRollback", "ArtifactInstall",
               "NeedsArtifactReboot", "ArtifactReboot", "SystemReboot",
               "ArtifactVerifyReboot", "ArtifactCommit", "ArtifactRollback",
               "ArtifactRollbackReboot", "ArtifactVerifyRollbackReboot",
               "ArtifactFailure", "Cleanup"}

ASSUME BoundsAssumption ==
    /\ MaxTrySending \in Nat \ {0}
    /\ MaxFetchAttempts \in Nat
    /\ MaxCrashes \in Nat
    /\ MaxDeployments \in Nat

ASSUME ChoicesAssumption ==
    /\ RollbackAnswers \subseteq {"supported", "unsupported"}
    /\ RebootAnswers \subseteq {"no reboot", "custom", "automatic"}
    /\ FailingOps \subseteq Operations
    /\ Faults \subseteq FaultKinds

VARIABLES
    cur,            \* the controller's current state
    to,             \* the state Run will transition to
    pc,             \* where in the iteration of Run the daemon is
    call,           \* the payload operation in progress
    ret,            \* the payload's answer to it
    upd,            \* UpdateInfo in memory
    inst,           \* GetInstallers()
    fetchAttempts,  \* ctx.fetchInstallAttempts
    stateData,      \* on disk: the entry under StateDataKey
    artifactName,   \* on disk: the installed artifact's name
    server,         \* the last final status the server accepted
    aborted,        \* the server has aborted the deployment
    deployments,    \* deployments handed out so far
    crashes,        \* power cuts so far
    called,         \* history: operations begun in this deployment
    finished,       \* history: operations that succeeded in this deployment
    cut             \* history: the loop detection has ended this deployment

control == <<cur, to, pc, call, ret, called>>
memory == <<upd, inst, fetchAttempts>>
disk == <<stateData, artifactName>>
backend == <<server, aborted>>
world == <<deployments, crashes, finished, cut>>
vars == <<cur, to, pc, call, ret, upd, inst, fetchAttempts, stateData, artifactName,
          server, aborted, deployments, crashes, called, finished, cut>>

------------------------------------------------------------------------------
(* States.                                                                 *)

\* States that carry an update: transitionState stores these.
UpdateStates == {"UpdateFetch", "UpdateStore", "AfterStore", "Install", "Reboot",
    "VerifyReboot", "AfterReboot", "Commit", "AfterFirstCommit", "AfterCommit",
    "Rollback", "RollbackReboot", "VerifyRollbackReboot", "AfterRollbackReboot",
    "UpdateError", "Cleanup", "StatusReport", "StatusReportRetry", "ReportError"}

StateIds == UpdateStates \union {"Init", "Idle", "AuthorizeWait", "Authorize",
    "CheckWait", "InventoryUpdate", "UpdateCheck", "FetchStoreRetry",
    "PreCommitRetry", "Error"}

Statuses == {"none", "success", "failure", "already", "transient", "fatal"}

\* A state object: its kind, the status it carries (for Error, the severity),
\* how often it has sent its report and its logs, and the count that the
\* retry state compares with the maximum.
State == [id : StateIds, status : Statuses, tries : Nat, logTries : Nat, sending : Nat]

Make(id, status) ==
    [id |-> id, status |-> status, tries |-> 0, logTries |-> 0, sending |-> 0]
Plain(id) == Make(id, "none")

\* VerifyReboot and AfterReboot are two states with one ID.
StoredName(id) == IF id = "VerifyReboot" THEN "AfterReboot" ELSE id

NoInfo == [rollback |-> "unknown", reboot |-> "unset", payload |-> FALSE]
NoEntry == [name |-> "none", info |-> NoInfo, count |-> 0]

Info == [rollback : {"unknown", "supported", "unsupported"},
         reboot : {"unset", "no reboot", "custom", "automatic"},
         payload : BOOLEAN]
Entry == [name : UpdateStates \union {"none"}, info : Info,
          count : 0 .. MaximumStateDataStoreCount]

TypeOK ==
    /\ cur \in State
    /\ to \in State
    /\ pc \in {"transit", "store", "store then enter", "enter", "handle", "flag", "exited"}
    /\ call \in Operations \union {"none"}
    /\ ret \in {"none", "ok", "err", "supported", "unsupported", "no reboot",
                "custom", "automatic"}
    /\ upd \in Info
    /\ inst \in {"none", "current", "stale"}
    /\ fetchAttempts \in Nat
    /\ stateData \in Entry
    /\ artifactName \in {"prev", "next", "broken"}
    /\ server \in Statuses
    /\ aborted \in BOOLEAN
    /\ deployments \in Nat
    /\ crashes \in Nat
    /\ called \subseteq Operations
    /\ finished \subseteq Operations
    /\ cut \in BOOLEAN

Init ==
    /\ cur = Plain("Init")
    /\ to = Plain("Init")
    /\ pc = "handle"
    /\ call = "none"
    /\ ret = "none"
    /\ upd = NoInfo
    /\ inst = "none"
    /\ fetchAttempts = 0
    /\ stateData = NoEntry
    /\ artifactName = "prev"
    /\ server = "none"
    /\ aborted = FALSE
    /\ deployments = 0
    /\ crashes = 0
    /\ called = {}
    /\ finished = {}
    /\ cut = FALSE

------------------------------------------------------------------------------
(* Transitions and their scripts.                                          *)

Transition(s) ==
    CASE s.id \in {"Idle", "AuthorizeWait", "CheckWait"} -> "ToIdle"
      [] s.id \in {"Authorize", "InventoryUpdate", "UpdateCheck"} -> "ToSync"
      [] s.id \in {"UpdateFetch", "UpdateStore", "FetchStoreRetry"} -> "ToDownload_Enter"
      [] s.id = "AfterStore" -> "ToDownload_Leave"
      [] s.id = "Install" -> "ToArtifactInstall"
      [] s.id = "Reboot" -> "ToArtifactReboot_Enter"
      [] s.id \in {"VerifyReboot", "AfterReboot"} -> "ToArtifactReboot_Leave"
      [] s.id \in {"Commit", "PreCommitRetry"} -> "ToArtifactCommit_Enter"
      [] s.id = "AfterCommit" -> "ToArtifactCommit_Leave"
      [] s.id = "Rollback" -> "ToArtifactRollback"
      [] s.id = "RollbackReboot" -> "ToArtifactRollbackReboot_Enter"
      [] s.id \in {"VerifyRollbackReboot", "AfterRollbackReboot"}
            -> "ToArtifactRollbackReboot_Leave"
      [] s.id \in {"UpdateError", "ReportError"} -> "ToArtifactFailure"
      [] s.id = "Error" \/ (s.id = "Cleanup" /\ s.status # "success") -> "ToError"
      [] OTHER -> "ToNone"

IsToError(t) == t \in {"ToError", "ToArtifactFailure", "ToArtifactRollback",
    "ToArtifactRollbackReboot_Enter", "ToArtifactRollbackReboot_Leave"}

\* Transitions whose enter and leave scripts can stop the daemon: the others
\* ignore errors (ignoreErrors) or have no such scripts (getName).
EnterCanFail == {"ToSync", "ToError", "ToDownload_Enter", "ToArtifactInstall",
    "ToArtifactReboot_Enter", "ToArtifactCommit_Enter"}
LeaveCanFail == {"ToSync", "ToError", "ToDownload_Leave", "ToArtifactInstall",
    "ToArtifactReboot_Leave", "ToArtifactCommit_Leave"}

------------------------------------------------------------------------------
(* How a step of the daemon ends.                                          *)

\* The handler returns s as the next state.
Goto(s) ==
    /\ to' = s
    /\ pc' = "transit"
    /\ call' = "none"
    /\ ret' = "none"
    /\ UNCHANGED <<cur, called>>

\* The same, with setBrokenArtifactFlag on the way.
GotoBroken(s) ==
    /\ to' = s
    /\ pc' = "flag"
    /\ call' = "none"
    /\ ret' = "none"
    /\ UNCHANGED <<cur, called>>

\* The handler calls an operation of the payload and waits for it.
Call(op) ==
    /\ call' = op
    /\ ret' = "none"
    /\ called' = called \union {op}
    /\ UNCHANGED <<cur, to, pc>>

\* Mutant: the artifact is not marked as broken.
RollbackOrFailQuietly(info) ==
    Goto(Plain(IF info.rollback = "supported" THEN "Rollback" ELSE "UpdateError"))

\* The update is given up: by rollback if that is supported, and otherwise
\* with the artifact marked as broken.
RollbackOrFail(info) ==
    IF info.rollback = "supported"
    THEN Goto(Plain("Rollback"))
    ELSE GotoBroken(Plain("UpdateError"))

\* The method HandleError of state s, for an error of this severity.
HandleError(s, severity) ==
    CASE s.id \in {"UpdateStore", "AfterStore"} -> Goto(Make("Cleanup", "failure"))
      [] s.id \in {"AfterFirstCommit", "AfterCommit"}
            -> GotoBroken(Make("Cleanup", "failure"))
      [] s.id = "Rollback" -> GotoBroken(Plain("UpdateError"))
      [] s.id = "RollbackReboot" -> Goto(Plain("VerifyRollbackReboot"))
      [] s.id = "VerifyRollbackReboot" -> Goto(Plain("RollbackReboot"))
      [] s.id = "ReportError" -> Goto(Plain("Idle"))
      [] s.id \in {"Install", "Reboot", "VerifyReboot", "AfterReboot", "Commit",
                   "AfterRollbackReboot", "Cleanup", "StatusReport"}
            -> RollbackOrFail(upd)
      [] OTHER -> Goto(Make("Error", severity))

\* The database after StoreStateData of state id, when the write succeeds.
WriteState(id, info) ==
    stateData' = [name |-> StoredName(id), info |-> info,
                  count |-> NextCount(stateData.count)]

\* StoreStateData succeeds.
Stored(id, info) ==
    /\ ~Exceeded(stateData.count)
    /\ WriteState(id, info)

\* StoreStateData fails and nothing is written.
StoreFailed ==
    /\ "db" \in Faults
    /\ ~Exceeded(stateData.count)
    /\ UNCHANGED stateData

\* StoreStateData reports that the count has run out, whether or not it could
\* write; handleStateDataError then ends the deployment.
StoreExceeded(id, info) ==
    /\ Exceeded(stateData.count)
    /\ \/ WriteState(id, info)
       \/ "db" \in Faults /\ UNCHANGED stateData
    /\ GotoBroken(Make("StatusReport", "failure"))

\* A report that only tells the server how far the update is.  The caller
\* minds nothing but the answer that the deployment was aborted.
ReportAborted ==
    /\ "abort" \in Faults
    /\ aborted \/ server = "none"
    /\ aborted' = TRUE
    /\ UNCHANGED server

ReportPassed ==
    /\ ~aborted \/ "net" \in Faults
    /\ UNCHANGED backend

\* A report that gets no answer: the server may have seen it or not.
ReportLost(status) ==
    /\ "net" \in Faults
    /\ server' \in {server} \union (IF aborted THEN {} ELSE {status})
    /\ UNCHANGED aborted

ReportAccepted(status) ==
    /\ ~aborted
    /\ server' = status
    /\ UNCHANGED aborted

------------------------------------------------------------------------------
(* An iteration of Run up to the call of Handle.                           *)

\* Error scripts run, with errors ignored, instead of the leave scripts.
RunsErrorScripts == IsToError(Transition(to)) /\ ~IsToError(Transition(cur))

\* Run returns when it is handed a fatal error.
Exit ==
    /\ pc = "transit"
    /\ to = Make("Error", "fatal")
    /\ pc' = "exited"
    /\ UNCHANGED <<cur, to, call, ret, called, memory, disk, backend, world>>

\* SIGUSR1 and SIGUSR2: Run takes the forced state instead of its own.
ForceToState(id) ==
    /\ "signal" \in Faults
    /\ pc = "transit"
    /\ to.id \in {"Idle", "CheckWait", "UpdateCheck", "InventoryUpdate"} \ {id}
    /\ to' = Plain(id)
    /\ UNCHANGED <<cur, pc, call, ret, called, memory, disk, backend, world>>

LeaveFails ==
    /\ pc = "transit"
    /\ to # Make("Error", "fatal")
    /\ Transition(cur) # Transition(to)
    /\ ~RunsErrorScripts
    /\ Transition(cur) \in LeaveCanFail \intersect ScriptFaults
    /\ HandleError(cur, "transient")
    /\ UNCHANGED <<memory, disk, backend, world>>

Transit ==
    /\ pc = "transit"
    /\ to # Make("Error", "fatal")
    /\ cur' = to
    /\ LET enters == Transition(cur) # Transition(to)
           stores == to.id \in UpdateStates
       IN  pc' = IF stores THEN (IF enters THEN "store then enter" ELSE "store")
                 ELSE IF enters THEN "enter" ELSE "handle"
    /\ UNCHANGED <<to, call, ret, called, memory, disk, backend, world>>

\* transitionState stores the state it has entered.
StoreState ==
    /\ pc \in {"store", "store then enter"}
    /\ \/ /\ Stored(cur.id, upd)
          /\ pc' = IF pc = "store" THEN "handle" ELSE "enter"
          /\ UNCHANGED <<cur, to, call, ret, called>>
       \/ StoreFailed /\ HandleError(cur, "fatal")
       \/ StoreExceeded(cur.id, upd)
    /\ UNCHANGED <<memory, artifactName, backend, world>>

Enter ==
    /\ pc = "enter"
    /\ \/ /\ pc' = "handle"
          /\ UNCHANGED <<cur, to, call, ret, called>>
       \/ /\ Transition(cur) \in EnterCanFail \intersect ScriptFaults
          /\ HandleError(cur, "transient")
    /\ UNCHANGED <<memory, disk, backend, world>>

\* setBrokenArtifactFlag; an error of the database is only logged.  Only the
\* loop detection (handleStateDataError) goes on with the report.
SetBrokenArtifactFlag ==
    /\ pc = "flag"
    /\ pc' = "transit"
    /\ \/ artifactName' = "broken"
       \/ "db" \in Faults /\ UNCHANGED artifactName
    /\ cut' = (cut \/ to.id = "StatusReport")
    /\ UNCHANGED <<cur, to, call, ret, called, memory, stateData, backend, deployments, crashes,
                   finished>>

------------------------------------------------------------------------------
(* The Handle methods.  First the states outside of an update.             *)

\* Handle of state id begins; Answered: the payload has answered its call.
Handling(id) == pc = "handle" /\ cur.id = id /\ call = "none"
Answered(id, op) == pc = "handle" /\ cur.id = id /\ call = op /\ ret # "none"

\* Mutant: an interrupted installation or reboot is taken for a finished one.
NextAfterRestartHopeful(name, info) ==
    IF name \in {"Install", "Reboot"} THEN Goto(Plain("Commit")) ELSE RollbackOrFail(info)

\* Where a restarted daemon goes on, by the name it finds stored.
NextAfterRestart(name, info) ==
    CASE name \in {"UpdateStore", "AfterStore", "Cleanup"}
            -> Goto(Make("Cleanup", "failure"))
      [] name = "Reboot" -> Goto(Plain("VerifyReboot"))
      [] name \in {"RollbackReboot", "VerifyRollbackReboot", "AfterRollbackReboot"}
            -> Goto(Plain("VerifyRollbackReboot"))
      [] name \in {"AfterFirstCommit", "AfterCommit", "UpdateError"} -> Goto(Plain(name))
      [] OTHER -> RollbackOrFail(info)

InitIdle ==
    /\ Handling("Init")
    /\ stateData = NoEntry
    /\ Goto(Plain("Idle"))
    /\ UNCHANGED <<memory, disk, backend, world>>

\* The database cannot be read, or the count not written back: the update, if
\* there was one, is failed as an unknown one.
InitLoadFails ==
    /\ Handling("Init")
    /\ "db" \in Faults
    /\ Goto(Plain("UpdateError"))
    /\ UNCHANGED <<memory, disk, backend, world>>

\* The restarted daemon loads the update, restores its installers and goes on.
InitResume ==
    /\ Handling("Init")
    /\ stateData # NoEntry
    /\ upd' = stateData.info
    /\ \/ /\ Exceeded(stateData.count)
          /\ \/ stateData' = [stateData EXCEPT !.count = NextCount(stateData.count)]
             \/ "db" \in Faults /\ UNCHANGED stateData
          /\ inst' = "none"
          /\ GotoBroken(Make("StatusReport", "failure"))
       \/ /\ ~Exceeded(stateData.count)
          /\ inst' = IF stateData.info.payload THEN "current" ELSE "none"
          /\ \/ /\ stateData.name # "UpdateFetch"
                /\ stateData' = [stateData EXCEPT !.count = NextCount(stateData.count)]
                /\ NextAfterRestart(stateData.name, stateData.info)
             \/ /\ stateData.name = "UpdateFetch"
                /\ \/ stateData' = NoEntry /\ Goto(Plain("Idle"))
                   \/ /\ "db" \in Faults
                      /\ stateData' = [stateData EXCEPT !.count = NextCount(stateData.count)]
                      /\ Goto(Make("Error", "fatal"))
    /\ UNCHANGED <<fetchAttempts, artifactName, backend, world>>

Idle ==
    /\ Handling("Idle")
    /\ \/ stateData' = NoEntry
       \/ "db" \in Faults /\ UNCHANGED stateData
    /\ \/ Goto(Plain("CheckWait"))
       \/ "idle" \in Faults /\ Goto(Plain("AuthorizeWait"))
    /\ UNCHANGED <<memory, artifactName, backend, world>>

AuthorizeWait ==
    /\ Handling("AuthorizeWait")
    /\ Goto(Plain("Authorize"))
    /\ UNCHANGED <<memory, disk, backend, world>>

Authorize ==
    /\ Handling("Authorize")
    /\ \E s \in {Plain("CheckWait"), Plain("AuthorizeWait"), Make("Error", "fatal")} : Goto(s)
    /\ UNCHANGED <<memory, disk, backend, world>>

CheckWait ==
    /\ Handling("CheckWait")
    /\ \E id \in {"UpdateCheck", "InventoryUpdate"} : Goto(Plain(id))
    /\ UNCHANGED <<memory, disk, backend, world>>

InventoryUpdate ==
    /\ Handling("InventoryUpdate")
    /\ \/ Goto(Plain("CheckWait"))
       \/ "idle" \in Faults /\ Goto(Make("Error", "transient"))
    /\ UNCHANGED <<memory, disk, backend, world>>

Error ==
    /\ Handling("Error")
    /\ Goto(Plain("Idle"))
    /\ UNCHANGED <<memory, disk, backend, world>>

\* A deployment begins: the names on the device are from now on relative to
\* it, and what the controller still holds belongs to the one before.
NewDeployment ==
    /\ deployments < MaxDeployments
    /\ deployments' = deployments + 1
    /\ upd' = NoInfo
    /\ inst' = IF inst = "none" THEN "none" ELSE "stale"
    /\ artifactName' = "prev"
    /\ server' = "none"
    /\ aborted' = FALSE
    /\ called' = {}
    /\ finished' = {}
    /\ cut' = FALSE
    /\ pc' = "transit"
    /\ UNCHANGED <<cur, call, ret, fetchAttempts, stateData, crashes>>

UpdateCheck ==
    /\ Handling("UpdateCheck")
    /\ \/ /\ \/ Goto(Plain("CheckWait"))
             \/ "idle" \in Faults /\ Goto(Make("Error", "transient"))
          /\ UNCHANGED <<memory, disk, backend, world>>
       \/ NewDeployment /\ to' = Plain("UpdateFetch")
       \/ NewDeployment /\ to' = Make("StatusReport", "already")

------------------------------------------------------------------------------
(* Download.                                                               *)

\* The deployment logger is opened here; in the states below it is open.
UpdateFetch ==
    /\ Handling("UpdateFetch")
    /\ \/ /\ "log" \in Faults
          /\ Goto(Make("StatusReport", "failure"))
          /\ UNCHANGED backend
       \/ ReportAborted /\ Goto(Make("StatusReport", "failure"))
       \/ ReportPassed /\ Goto(Plain("UpdateStore"))
       \/ ReportPassed /\ "fetch" \in Faults /\ Goto(Plain("FetchStoreRetry"))
    /\ UNCHANGED <<memory, disk, world>>

FetchStoreRetry ==
    /\ Handling("FetchStoreRetry")
    /\ IF fetchAttempts < MaxFetchAttempts
       THEN fetchAttempts' = fetchAttempts + 1 /\ Goto(Plain("UpdateFetch"))
       ELSE UNCHANGED fetchAttempts /\ Goto(Plain("UpdateError"))
    /\ UNCHANGED <<upd, inst, disk, backend, world>>

UpdateStore ==
    /\ Handling("UpdateStore")
    /\ \/ ReportAborted /\ Goto(Make("StatusReport", "failure"))
       \/ ReportPassed /\ Call("ReadHeaders")
    /\ UNCHANGED <<memory, disk, world>>

\* Mutant: the payload's type is not stored.
UpdateStoreHeadersUnstored ==
    /\ Answered("UpdateStore", "ReadHeaders")
    /\ ret = "ok"
    /\ inst' = "current"
    /\ upd' = [upd EXCEPT !.payload = TRUE]
    /\ Call("Download")
    /\ UNCHANGED <<stateData, fetchAttempts, artifactName, backend, world>>

\* The headers are read (or not) and checked against the server's response
\* and the device; the payload's type is stored before its data is.
UpdateStoreHeaders ==
    /\ Answered("UpdateStore", "ReadHeaders")
    /\ \/ /\ ret = "err"
          /\ inst' = "none"
          /\ Goto(Plain("FetchStoreRetry"))
          /\ UNCHANGED <<upd, stateData>>
       \/ /\ ret = "ok"
          /\ inst' = "current"
          /\ upd' = [upd EXCEPT !.payload = TRUE]
          /\ \/ /\ "mismatch" \in Faults
                /\ Goto(Make("StatusReport", "failure"))
                /\ UNCHANGED stateData
             \/ Stored("UpdateStore", upd') /\ Call("Download")
             \/ StoreFailed /\ Goto(Make("Cleanup", "failure"))
             \/ StoreExceeded("UpdateStore", upd')
    /\ UNCHANGED <<fetchAttempts, artifactName, backend, world>>

\* Mutant: a failed download goes straight to the report.
UpdateStorePayloadsUncleaned ==
    /\ Answered("UpdateStore", "Download")
    /\ IF ret = "err" THEN Goto(Make("StatusReport", "failure")) ELSE Call("SupportsRollback")
    /\ UNCHANGED <<memory, disk, backend, world>>

UpdateStorePayloads ==
    /\ Answered("UpdateStore", "Download")
    /\ IF ret = "err" THEN Goto(Make("Cleanup", "failure")) ELSE Call("SupportsRollback")
    /\ UNCHANGED <<memory, disk, backend, world>>

\* handleSupportsRollback, and the last report of the download.
UpdateStoreRollback ==
    /\ Answered("UpdateStore", "SupportsRollback")
    /\ \/ /\ ret = "err"
          /\ Goto(Plain("UpdateError"))
          /\ UNCHANGED <<upd, fetchAttempts, stateData, backend>>
       \/ /\ ret # "err"
          /\ upd' = [upd EXCEPT !.rollback = ret]
          /\ \/ /\ Stored("UpdateStore", upd')
                /\ fetchAttempts' = 0
                /\ \/ ReportAborted /\ Goto(Plain("UpdateError"))
                   \/ ReportPassed /\ Goto(Plain("AfterStore"))
             \/ /\ StoreFailed
                /\ Goto(Plain("UpdateError"))
                /\ UNCHANGED <<fetchAttempts, backend>>
             \/ /\ StoreExceeded("UpdateStore", upd')
                /\ UNCHANGED <<fetchAttempts, backend>>
    /\ UNCHANGED <<inst, artifactName, world>>

AfterStore ==
    /\ Handling("AfterStore")
    /\ Goto(Plain("Install"))
    /\ UNCHANGED <<memory, disk, backend, world>>

------------------------------------------------------------------------------
(* Installation, reboot and commit.                                        *)

Install ==
    /\ Handling("Install")
    /\ \/ ReportAborted /\ HandleError(cur, "fatal")
       \/ ReportPassed /\ Call("ArtifactInstall")
    /\ UNCHANGED <<memory, disk, world>>

InstallInstalled ==
    /\ Answered("Install", "ArtifactInstall")
    /\ IF ret = "err" THEN HandleError(cur, "transient") ELSE Call("NeedsArtifactReboot")
    /\ UNCHANGED <<memory, disk, backend, world>>

\* handleRebootType; the answer is stored before the daemon acts on it.
InstallRebootType ==
    /\ Answered("Install", "NeedsArtifactReboot")
    /\ \/ /\ ret = "err"
          /\ HandleError(cur, "transient")
          /\ UNCHANGED <<upd, stateData>>
       \/ /\ ret # "err"
          /\ upd' = [upd EXCEPT !.reboot = ret]
          /\ \/ /\ Stored("Install", upd')
                /\ Goto(Plain(IF ret = "no reboot" THEN "Commit" ELSE "Reboot"))
             \/ StoreFailed /\ HandleError(cur, "transient")
             \/ StoreExceeded("Install", upd')
    /\ UNCHANGED <<inst, fetchAttempts, artifactName, backend, world>>

Reboot ==
    /\ Handling("Reboot")
    /\ \/ ReportAborted /\ Goto(Plain("Rollback"))
       \/ /\ ReportPassed
          /\ Call(IF upd.reboot = "custom" THEN "ArtifactReboot" ELSE "SystemReboot")
    /\ UNCHANGED <<memory, disk, world>>

\* Still here: a peripheral was rebooted, or the reboot failed.
RebootReturns ==
    /\ \/ /\ Answered("Reboot", "ArtifactReboot")
          /\ Goto(Plain(IF ret = "err" THEN "Rollback" ELSE "VerifyReboot"))
       \/ /\ Answered("Reboot", "SystemReboot")
          /\ HandleError(cur, "transient")
    /\ UNCHANGED <<memory, disk, backend, world>>

VerifyReboot ==
    /\ \/ Handling("VerifyReboot") /\ Call("ArtifactVerifyReboot")
       \/ /\ Answered("VerifyReboot", "ArtifactVerifyReboot")
          /\ IF ret = "err" THEN HandleError(cur, "transient") ELSE Goto(Plain("AfterReboot"))
    /\ UNCHANGED <<memory, disk, backend, world>>

AfterReboot ==
    /\ Handling("AfterReboot")
    /\ Goto(Plain("Commit"))
    /\ UNCHANGED <<memory, disk, backend, world>>

\* The last report before the point of no return must get through.
Commit ==
    /\ Handling("Commit")
    /\ \/ /\ "scripts version" \in Faults
          /\ HandleError(cur, "transient")
          /\ UNCHANGED backend
       \/ ReportAborted /\ HandleError(cur, "fatal")
       \/ /\ "net" \in Faults
          /\ Goto([Plain("PreCommitRetry") EXCEPT !.tries = cur.tries + 1])
          /\ UNCHANGED backend
       \/ /\ ~aborted
          /\ IF inst = "none" THEN HandleError(cur, "transient") ELSE Call("ArtifactCommit")
          /\ UNCHANGED backend
    /\ UNCHANGED <<memory, disk, world>>

PreCommitRetry ==
    /\ Handling("PreCommitRetry")
    /\ IF cur.tries < MaxTrySending
       THEN Goto([Plain("Commit") EXCEPT !.tries = cur.tries])
       ELSE HandleError(Plain("Commit"), "transient")
    /\ UNCHANGED <<memory, disk, backend, world>>

\* Mutant: the error of the transaction is only logged.
CommitStoreUnchecked ==
    /\ Answered("Commit", "ArtifactCommit")
    /\ \/ ret = "err" /\ HandleError(cur, "transient") /\ UNCHANGED disk
       \/ /\ ret = "ok"
          /\ \/ WriteState("Commit", upd) /\ artifactName' = "next"
             \/ "db" \in Faults /\ UNCHANGED disk
          /\ Goto(Plain("AfterFirstCommit"))
    /\ UNCHANGED <<memory, backend, world>>

\* Mutant: the new name is not part of the transaction.
CommitStoreOldName ==
    /\ Answered("Commit", "ArtifactCommit")
    /\ \/ ret = "err" /\ HandleError(cur, "transient") /\ UNCHANGED stateData
       \/ /\ ret = "ok"
          /\ WriteState("Commit", upd)
          /\ Goto(Plain("AfterFirstCommit"))
    /\ UNCHANGED <<memory, artifactName, backend, world>>

\* The payload is committed; one transaction stores the state and the new
\* artifact's name.
CommitStore ==
    /\ Answered("Commit", "ArtifactCommit")
    /\ \/ ret = "err" /\ HandleError(cur, "transient") /\ UNCHANGED disk
       \/ /\ ret = "ok"
          /\ \/ Stored("Commit", upd) /\ artifactName' = "next" /\ Goto(Plain("AfterFirstCommit"))
             \/ StoreFailed /\ UNCHANGED artifactName /\ Goto(Plain("UpdateError"))
             \/ /\ StoreExceeded("Commit", upd)
                /\ artifactName' = IF stateData' = stateData THEN artifactName ELSE "next"
    /\ UNCHANGED <<memory, backend, world>>

\* There are no payloads after the first.
AfterFirstCommit ==
    /\ Handling("AfterFirstCommit")
    /\ Goto(Plain("AfterCommit"))
    /\ UNCHANGED <<memory, disk, backend, world>>

AfterCommit ==
    /\ Handling("AfterCommit")
    /\ Goto(Make("Cleanup", "success"))
    /\ UNCHANGED <<memory, disk, backend, world>>

------------------------------------------------------------------------------
(* Rollback and failure.                                                   *)

\* After the payload is rolled back the device is rebooted if it was (to be)
\* rebooted for the update; not knowing counts as no.
AfterRollback ==
    Goto(Plain(IF upd.reboot \in {"custom", "automatic"} THEN "RollbackReboot" ELSE "UpdateError"))

Rollback ==
    /\ \/ Handling("Rollback") /\ inst # "none" /\ Call("ArtifactRollback")
       \/ Handling("Rollback") /\ inst = "none" /\ Goto(Plain("UpdateError"))
       \/ /\ Answered("Rollback", "ArtifactRollback")
          /\ IF ret = "err" THEN HandleError(cur, "fatal") ELSE AfterRollback
    /\ UNCHANGED <<memory, disk, backend, world>>

RollbackReboot ==
    /\ \/ /\ Handling("RollbackReboot")
          /\ Call(IF upd.reboot = "custom" THEN "ArtifactRollbackReboot" ELSE "SystemReboot")
       \/ /\ \E op \in {"ArtifactRollbackReboot", "SystemReboot"} : Answered("RollbackReboot", op)
          /\ Goto(Plain("VerifyRollbackReboot"))
    /\ UNCHANGED <<memory, disk, backend, world>>

VerifyRollbackReboot ==
    /\ \/ Handling("VerifyRollbackReboot") /\ Call("ArtifactVerifyRollbackReboot")
       \/ /\ Answered("VerifyRollbackReboot", "ArtifactVerifyRollbackReboot")
          /\ IF ret = "err"
             THEN HandleError(cur, "transient")
             ELSE Goto(Plain("AfterRollbackReboot"))
    /\ UNCHANGED <<memory, disk, backend, world>>

AfterRollbackReboot ==
    /\ Handling("AfterRollbackReboot")
    /\ Goto(Plain("UpdateError"))
    /\ UNCHANGED <<memory, disk, backend, world>>

UpdateError ==
    /\ \/ Handling("UpdateError") /\ inst # "none" /\ Call("ArtifactFailure")
       \/ Handling("UpdateError") /\ inst = "none" /\ Goto(Make("Cleanup", "failure"))
       \/ Answered("UpdateError", "ArtifactFailure") /\ Goto(Make("Cleanup", "failure"))
    /\ UNCHANGED <<memory, disk, backend, world>>

\* Mutant: a failed cleanup does not fail the update.
CleanupUnchecked ==
    /\ \/ Handling("Cleanup") /\ inst # "none" /\ Call("Cleanup")
       \/ Handling("Cleanup") /\ inst = "none" /\ Goto(Make("StatusReport", cur.status))
       \/ Answered("Cleanup", "Cleanup") /\ Goto(Make("StatusReport", cur.status))
    /\ UNCHANGED <<memory, disk, backend, world>>

Cleanup ==
    /\ \/ Handling("Cleanup") /\ inst # "none" /\ Call("Cleanup")
       \/ Handling("Cleanup") /\ inst = "none" /\ Goto(Make("StatusReport", cur.status))
       \/ /\ Answered("Cleanup", "Cleanup")
          /\ Goto(Make("StatusReport", IF ret = "err" THEN "failure" ELSE cur.status))
    /\ UNCHANGED <<memory, disk, backend, world>>

------------------------------------------------------------------------------
(* The final report.                                                       *)

\* A failed attempt to send leads to the retry state, which returns to this
\* same report with its counts.
Retry(report, sending) ==
    Goto([report EXCEPT !.id = "StatusReportRetry", !.sending = sending])

StatusReport ==
    /\ Handling("StatusReport")
    /\ LET sent == [cur EXCEPT !.tries = @ + 1]
           logged == [sent EXCEPT !.logTries = @ + 1]
           failure == cur.status = "failure"
       IN  \/ ReportAborted /\ Goto(Make("ReportError", cur.status))
           \/ ReportLost(cur.status) /\ Retry(sent, sent.tries)
           \/ ReportAccepted(cur.status) /\ Goto(Plain("Idle"))
           \/ /\ failure /\ "log" \in Faults
              /\ ReportAccepted(cur.status) /\ Goto(Make("ReportError", cur.status))
           \/ /\ failure /\ "net" \in Faults
              /\ ReportAccepted(cur.status) /\ Retry(logged, logged.logTries)
    /\ UNCHANGED <<memory, disk, world>>

\* Mutant: the number of attempts is not limited.
StatusReportRetryForever ==
    /\ Handling("StatusReportRetry")
    /\ Goto([cur EXCEPT !.id = "StatusReport", !.sending = 0])
    /\ UNCHANGED <<memory, disk, backend, world>>

StatusReportRetry ==
    /\ Handling("StatusReportRetry")
    /\ IF cur.sending < MaxTrySending
       THEN Goto([cur EXCEPT !.id = "StatusReport", !.sending = 0])
       ELSE Goto(Make("ReportError", cur.status))
    /\ UNCHANGED <<memory, disk, backend, world>>

ReportError ==
    /\ Handling("ReportError")
    /\ Goto(Plain(IF cur.status = "success" THEN "Rollback" ELSE "Idle"))
    /\ UNCHANGED <<memory, disk, backend, world>>

------------------------------------------------------------------------------
(* The payload, the machine, and the specification.                        *)

Answers(op) ==
    (CASE op = "SupportsRollback" -> RollbackAnswers
       [] op = "NeedsArtifactReboot" -> RebootAnswers
       [] op = "SystemReboot" -> {}
       [] OTHER -> {"ok"})
    \union (IF op \in FailingOps THEN {"err"} ELSE {})

\* The operation in progress ends with answer r.
AnswerWith(r) ==
    /\ call # "none"
    /\ ret = "none"
    /\ ret' = r
    /\ finished' = IF r = "err" THEN finished ELSE finished \union {call}
    /\ UNCHANGED <<cur, to, pc, call, called, memory, disk, backend, deployments, crashes, cut>>

\* The most general payload: it answers any way it may.
Answer == \E r \in Answers(call) : AnswerWith(r)

\* A new process, with nothing but what is on disk.
Restart ==
    /\ cur' = Plain("Init")
    /\ to' = Plain("Init")
    /\ pc' = "handle"
    /\ call' = "none"
    /\ ret' = "none"
    /\ upd' = NoInfo
    /\ inst' = "none"
    /\ fetchAttempts' = 0
    /\ UNCHANGED <<called, disk, backend, deployments, cut>>

RebootOps == {"ArtifactReboot", "ArtifactRollbackReboot", "SystemReboot"}

\* The machine reboots because the update asked for it.
Reboots ==
    /\ call \in RebootOps
    /\ ret = "none"
    /\ Restart
    /\ finished' = finished \union {call}
    /\ UNCHANGED crashes

\* The machine loses power, or the daemon is stopped and started again.
Crash ==
    /\ crashes < MaxCrashes
    /\ pc # "exited"
    /\ Restart
    /\ crashes' = crashes + 1
    /\ UNCHANGED finished

\* The service is started again after the daemon gave up.
StartAgain ==
    /\ pc = "exited"
    /\ Restart
    /\ UNCHANGED <<crashes, finished>>

Handle ==
    \/ InitIdle \/ InitLoadFails \/ InitResume \/ Idle \/ AuthorizeWait \/ Authorize
    \/ CheckWait \/ InventoryUpdate \/ UpdateCheck \/ Error
    \/ UpdateFetch \/ FetchStoreRetry \/ UpdateStore \/ UpdateStoreHeaders
    \/ UpdateStorePayloads \/ UpdateStoreRollback \/ AfterStore
    \/ Install \/ InstallInstalled \/ InstallRebootType \/ Reboot \/ RebootReturns
    \/ VerifyReboot \/ AfterReboot \/ Commit \/ PreCommitRetry \/ CommitStore
    \/ AfterFirstCommit \/ AfterCommit
    \/ Rollback \/ RollbackReboot \/ VerifyRollbackReboot \/ AfterRollbackReboot
    \/ UpdateError \/ Cleanup \/ StatusReport \/ StatusReportRetry \/ ReportError

Daemon ==
    \/ Exit \/ LeaveFails \/ Transit \/ StoreState \/ Enter
    \/ SetBrokenArtifactFlag \/ Handle

Machine == Reboots \/ Crash \/ StartAgain

Signal == \E id \in {"UpdateCheck", "InventoryUpdate"} : ForceToState(id)

Next == Daemon \/ Answer \/ Machine \/ Signal

Spec == Init /\ [][Next]_vars

\* The daemon runs the scripts of a transition, and waits for its payload.
\* Neither is bound to end: a process that left the group of the one that is
\* killed, and holds its output open, is waited for.
RunsScripts ==
    \/ pc = "enter"
    \/ pc = "transit" /\ Transition(cur) # Transition(to)
AwaitsPayload == call # "none" /\ ret = "none"

\* The daemon keeps running.  Nothing starts a daemon again that gave up
\* (Restart=on-abort in mender-client.service), power cuts need not happen,
\* and neither scripts nor the payload need ever return.
FairSpec == Spec /\ WF_vars(~RunsScripts /\ Daemon)
==============================================================================
