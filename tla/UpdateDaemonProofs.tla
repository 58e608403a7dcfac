------------------------- MODULE UpdateDaemonProofs --------------------------
(***************************************************************************)
(* The daemon's type invariant and CommitVerified hold whatever the bounds *)
(* are, whatever payloads, scripts, database and server do, and however    *)
(* often the daemon is interrupted and signalled.                          *)
(***************************************************************************)
EXTENDS UpdateProperties, TLAPS

\* What is known whenever the daemon is in a state of this kind, or about to
\* enter it.
Fresh == "ArtifactRollback" \notin called
Downloaded == Fresh /\ "Download" \in finished
Installed == Downloaded /\ "ArtifactInstall" \in finished
Verified == Installed /\ "ArtifactVerifyReboot" \in finished

Needs(id) ==
    /\ id \in {"UpdateFetch", "FetchStoreRetry", "UpdateStore"} => Fresh
    /\ id \in {"AfterStore", "Install"} => Downloaded
    /\ id \in {"Reboot", "VerifyReboot", "Commit", "PreCommitRetry"} => Installed
    /\ id = "AfterReboot" => Verified
    /\ id \in {"Commit", "PreCommitRetry"} /\ upd.reboot # "no reboot" => Verified

\* States that are reached only when the database says something else than
\* that a reboot is due.
Quiet(s) ==
    \/ s.id \in {"Idle", "AuthorizeWait", "Authorize", "CheckWait", "InventoryUpdate",
                 "UpdateCheck", "FetchStoreRetry", "PreCommitRetry", "ReportError"}
    \/ s.id = "Error" /\ s.status # "fatal"

PositionInv ==
    /\ pc \in {"store", "store then enter", "enter", "handle"} => to = cur
    /\ pc \in {"store", "store then enter"} => cur.id \in UpdateStates
    /\ cur.id = "Error" => cur.status # "fatal"
    /\ to.id = "Error" => to = Make("Error", to.status)
    /\ Needs(cur.id)
    /\ Needs(to.id)

\* What the database says of the position.
StoredInv ==
    /\ pc \in {"enter", "handle"} /\ cur.id \in UpdateStates =>
           stateData.name = StoredName(cur.id)
    /\ stateData.name = "Reboot" => Installed
    /\ Quiet(cur) \/ Quiet(to) => stateData.name # "Reboot"

\* What a call in progress says of the calls before.
CallInv ==
    /\ call # "none" => pc = "handle"
    /\ call # "none" /\ ret \notin {"none", "err"} => call \in finished
    /\ call = "SupportsRollback" =>
           Downloaded /\ ret \in {"none", "err", "supported", "unsupported"}
    /\ call = "NeedsArtifactReboot" =>
           Installed /\ ret \in {"none", "err", "no reboot", "custom", "automatic"}
    /\ call = "ArtifactCommit" => cur.id = "Commit"

Inv == TypeOK /\ PositionInv /\ StoredInv /\ CallInv

\* The type invariant, for the variables that Goto and Call leave alone.
DataOK ==
    /\ upd \in Info
    /\ inst \in {"none", "current", "stale"}
    /\ fetchAttempts \in Nat
    /\ stateData \in Entry
    /\ artifactName \in {"prev", "next", "broken"}
    /\ server \in Statuses
    /\ aborted \in BOOLEAN
    /\ deployments \in Nat
    /\ crashes \in Nat
    /\ cut \in BOOLEAN

------------------------------------------------------------------------------
(* Facts about state objects and entries.                                  *)

\* The fields of a state object that a constructor made.
LEMMA MakeShape ==
    ASSUME NEW id \in StateIds, NEW status \in Statuses
    PROVE  /\ Make(id, status) \in State
           /\ Make(id, status).id = id
           /\ Make(id, status).status = status
BY Zenon DEF Make, State

\* The same without a status.
LEMMA PlainShape ==
    ASSUME NEW id \in StateIds
    PROVE  /\ Plain(id) \in State
           /\ Plain(id).id = id
           /\ Plain(id).status = "none"
BY MakeShape, Zenon DEF Plain, Statuses

\* The fields of any state object.
LEMMA StateShape ==
    ASSUME NEW s \in State
    PROVE  /\ s.id \in StateIds /\ s.status \in Statuses
           /\ s.tries \in Nat /\ s.logTries \in Nat /\ s.sending \in Nat
BY Zenon DEF State

\* Counting an attempt changes nothing else.
LEMMA TriesShape ==
    ASSUME NEW s \in State, NEW k \in Nat
    PROVE  /\ [s EXCEPT !.tries = k] \in State
           /\ [s EXCEPT !.tries = k].id = s.id
           /\ [s EXCEPT !.tries = k].status = s.status
BY Zenon DEF State

\* An absent entry is well-formed.
LEMMA NothingKnown ==
    NoInfo \in Info /\ NoEntry \in Entry /\ NoEntry.name = "none"
<1>1. NoInfo \in Info
  BY Zenon DEF NoInfo, Info
<1>2. NoEntry \in Entry /\ NoEntry.name = "none"
  BY <1>1, StoreCountAssumption DEF NoEntry, Entry
<1> QED BY <1>1, <1>2, Zenon

\* States whose HandleError ends the update.
EndsUpdate == {"UpdateStore", "AfterStore", "Install", "Reboot", "VerifyReboot", "AfterReboot",
    "Commit", "AfterFirstCommit", "AfterCommit", "Rollback", "RollbackReboot",
    "VerifyRollbackReboot", "AfterRollbackReboot", "Cleanup", "StatusReport", "ReportError"}

\* The step leads from an error in state s to state t.
ErrorLeadsTo(s, severity, t) ==
    /\ Goto(t) \/ GotoBroken(t)
    /\ t.id \in {"Cleanup", "Rollback", "UpdateError", "RollbackReboot",
                "VerifyRollbackReboot", "Idle", "Error"}
    /\ t.id = "Idle" => s.id = "ReportError"
    /\ t.id = "Error" => t = Make("Error", severity) /\ s.id \notin EndsUpdate
    /\ t.id \in {"RollbackReboot", "VerifyRollbackReboot"} =>
           s.id \in {"RollbackReboot", "VerifyRollbackReboot"}
    /\ t.id = "Rollback" => upd.rollback = "supported"
    /\ t.status \in {"none", "failure", severity}

\* Whatever HandleError method runs, it leads to one of a few states.
LEMMA HandleErrorShape ==
    ASSUME NEW s \in State, NEW severity \in {"transient", "fatal"}, HandleError(s, severity)
    PROVE  \E t \in State : ErrorLeadsTo(s, severity, t)
<1>1. CASE s.id \in {"UpdateStore", "AfterStore"}
  <2> DEFINE t == Make("Cleanup", "failure")
  <2>1. Goto(t)
    BY <1>1, Zenon DEF HandleError
  <2>2. t \in State /\ t.id = "Cleanup" /\ t.status = "failure"
    BY MakeShape DEF StateIds, UpdateStates, Statuses
  <2> HIDE DEF t
  <2> QED BY <2>1, <2>2, Zenon DEF ErrorLeadsTo
<1>2. CASE s.id \in {"AfterFirstCommit", "AfterCommit"}
  <2> DEFINE t == Make("Cleanup", "failure")
  <2>1. GotoBroken(t)
    BY <1>2, Zenon DEF HandleError
  <2>2. t \in State /\ t.id = "Cleanup" /\ t.status = "failure"
    BY MakeShape DEF StateIds, UpdateStates, Statuses
  <2> HIDE DEF t
  <2> QED BY <2>1, <2>2, Zenon DEF ErrorLeadsTo
<1>3. CASE s.id \in {"Rollback", "RollbackReboot", "VerifyRollbackReboot", "ReportError"}
  BY <1>3, PlainShape, Zenon DEF HandleError, ErrorLeadsTo, StateIds, UpdateStates
<1>4. CASE s.id \in {"Install", "Reboot", "VerifyReboot", "AfterReboot", "Commit",
                     "AfterRollbackReboot", "Cleanup", "StatusReport"}
  <2>1. RollbackOrFail(upd)
    BY <1>4, Zenon DEF HandleError
  <2> QED BY <2>1, PlainShape, Zenon DEF RollbackOrFail, ErrorLeadsTo, StateIds, UpdateStates
<1>5. CASE s.id \notin EndsUpdate
  <2> DEFINE t == Make("Error", severity)
  <2>1. Goto(t)
    BY <1>5, Zenon DEF HandleError, EndsUpdate
  <2>2. t \in State /\ t.id = "Error" /\ t.status = severity
    BY MakeShape DEF StateIds, Statuses
  <2>3. t = Make("Error", severity)
    OBVIOUS
  <2> HIDE DEF t
  <2> QED BY <1>5, <2>1, <2>2, <2>3, Zenon DEF ErrorLeadsTo
<1> QED BY <1>1, <1>2, <1>3, <1>4, <1>5, Zenon DEF EndsUpdate

------------------------------------------------------------------------------
(* What a handler finds.                                                   *)

\* The type invariant covers the data.
LEMMA TypeSplit ==
    ASSUME TypeOK
    PROVE  DataOK
BY Zenon DEF TypeOK, DataOK

\* The states towards the end of an update need nothing.
Ending == {"Rollback", "RollbackReboot", "VerifyRollbackReboot", "AfterRollbackReboot",
    "AfterFirstCommit", "AfterCommit", "UpdateError", "Cleanup", "StatusReport",
    "StatusReportRetry"}

\* What is known when a handler runs.
LEMMA InHandle ==
    ASSUME Inv, pc = "handle"
    PROVE  /\ cur \in State /\ cur.id \in StateIds /\ cur.status \in Statuses
           /\ DataOK
           /\ Needs(cur.id)
           /\ cur.id \in UpdateStates => stateData.name = StoredName(cur.id)
           /\ Quiet(cur) => stateData.name # "Reboot"
BY StateShape, TypeSplit, Zenon DEF Inv, TypeOK, PositionInv, StoredInv

------------------------------------------------------------------------------
(* The payload and the machine.                                            *)

\* The payload answers.
LEMMA AnswerWithInv ==
    ASSUME Inv, NEW r, AnswerWith(r),
           r \in {"ok", "err", "supported", "unsupported", "no reboot", "custom", "automatic"},
           call = "SupportsRollback" => r \in {"err", "supported", "unsupported"},
           call = "NeedsArtifactReboot" => r \in {"err", "no reboot", "custom", "automatic"}
    PROVE  Inv'
<1>1. /\ call \in Operations /\ ret' = r /\ pc = "handle"
      /\ finished' \in {finished, finished \union {call}}
      /\ r # "err" => call \in finished'
      /\ UNCHANGED <<cur, to, pc, call, called, memory, disk, backend, deployments, crashes, cut>>
  BY Zenon DEF AnswerWith, Inv, TypeOK, CallInv
<1>2. TypeOK'
  BY <1>1, Zenon DEF Inv, TypeOK, memory, disk, backend
<1>3. PositionInv'
  BY <1>1, Zenon DEF Inv, PositionInv, Needs, Fresh, Downloaded, Installed, Verified, memory
<1>4. StoredInv'
  BY <1>1, Zenon DEF Inv, StoredInv, Quiet, Fresh, Downloaded, Installed, disk
<1>5. CallInv'
  BY <1>1, Zenon DEF Inv, CallInv, Fresh, Downloaded, Installed
<1> QED BY <1>2, <1>3, <1>4, <1>5, Zenon DEF Inv

\* A new process remembers nothing, and the disk is as it was.
LEMMA RestartKeeps ==
    ASSUME Inv, Restart, crashes' \in Nat,
           finished' = finished \/ (finished' = finished \union {call} /\ call # "none")
    PROVE  Inv'
<1>1. /\ cur' = Plain("Init") /\ to' = cur' /\ pc' = "handle" /\ call' = "none"
      /\ ret' = "none" /\ upd' = NoInfo /\ inst' = "none" /\ fetchAttempts' = 0
      /\ UNCHANGED <<called, disk, backend, deployments, cut>>
      /\ finished \subseteq finished' /\ finished' \subseteq Operations
  BY Zenon DEF Restart, Inv, TypeOK
<1>2. cur' \in State /\ cur'.id = "Init"
  BY <1>1, PlainShape, Zenon DEF StateIds
<1>3. TypeOK'
  BY <1>1, <1>2, NothingKnown, Zenon DEF Inv, TypeOK, disk, backend
<1>4. PositionInv' /\ CallInv'
  BY <1>1, <1>2, Zenon DEF PositionInv, CallInv, Needs
<1>5. StoredInv'
  BY <1>1, <1>2, Zenon DEF Inv, StoredInv, Quiet, Fresh, Downloaded, Installed, disk, UpdateStates
<1> QED BY <1>3, <1>4, <1>5, Zenon DEF Inv

\* The machine reboots, loses power, or the service is started.
LEMMA MachineInv ==
    ASSUME Inv, Machine
    PROVE  Inv'
<1>1. crashes \in Nat
  BY Zenon DEF Inv, TypeOK
<1> QED BY <1>1, RestartKeeps DEF Machine, Reboots, Crash, StartAgain, RebootOps

------------------------------------------------------------------------------
(* The theorems.                                                           *)

\* The first start of the daemon satisfies the invariant.
LEMMA InitInv == Init => Inv
<1> SUFFICES ASSUME Init PROVE Inv
  OBVIOUS
<1>1. cur \in State /\ cur.id = "Init" /\ to = cur
  BY PlainShape, Zenon DEF Init, StateIds
<1>2. TypeOK
  BY <1>1, NothingKnown, Zenon DEF Init, TypeOK, Statuses
<1>3. PositionInv /\ CallInv
  BY <1>1, Zenon DEF Init, PositionInv, CallInv, Needs
<1>4. StoredInv
  BY <1>1, NothingKnown, Zenon DEF Init, StoredInv, UpdateStates
<1> QED BY <1>2, <1>3, <1>4, Zenon DEF Inv

\* Every step keeps the invariant.
LEMMA NextInv == Inv /\ [Next]_vars => Inv'
(* Facts about state objects and entries.                                  *)

\* What a store leaves in the database.
<1>WriteStateShape.
    ASSUME DataOK, NEW id \in UpdateStates, NEW info \in Info, WriteState(id, info)
    PROVE  stateData' \in Entry /\ stateData'.name = StoredName(id)
  <2> USE <1>WriteStateShape
  <2>1. stateData.count \in 0 .. MaximumStateDataStoreCount
    BY Zenon DEF DataOK, Entry
  <2>2. NextCount(stateData.count) \in 0 .. MaximumStateDataStoreCount
    BY <2>1, StoreCountAssumption DEF NextCount, Exceeded
  <2>3. StoredName(id) \in UpdateStates
    BY Zenon DEF StoredName, UpdateStates
  <2> QED BY <2>2, <2>3, Zenon DEF WriteState, Entry

(* The ways a step of the daemon ends keep the invariant.                  *)

\* A handler returns s as the next state.
<1>GotoKeeps.
    ASSUME Inv, NEW s \in State, Goto(s) \/ GotoBroken(s), DataOK',
           Needs(s.id)',
           s.id = "Error" => s = Make("Error", s.status),
           upd'.reboot = upd.reboot \/ cur.id \notin {"Commit", "PreCommitRetry"},
           stateData'.name = "Reboot" =>
               stateData.name = "Reboot" \/ (Installed /\ ~Quiet(cur)),
           Quiet(s) => stateData'.name # "Reboot",
           UNCHANGED finished
    PROVE  Inv'
  <2> USE <1>GotoKeeps
  <2>1. /\ to' = s /\ pc' \in {"transit", "flag"} /\ call' = "none" /\ ret' = "none"
        /\ cur' = cur /\ called' = called
    BY Zenon DEF Goto, GotoBroken
  <2>2. TypeOK'
    BY <2>1, Zenon DEF Inv, TypeOK, DataOK
  <2>3. PositionInv'
    BY <2>1, Zenon DEF Inv, PositionInv, Needs, Fresh, Downloaded, Installed, Verified
  <2>4. StoredInv'
    BY <2>1, Zenon DEF Inv, StoredInv, Quiet, Fresh, Downloaded, Installed
  <2>5. CallInv'
    BY <2>1, Zenon DEF CallInv
  <2> QED BY <2>2, <2>3, <2>4, <2>5, Zenon DEF Inv

\* The same for a handler that only may have reported something.
<1>LeavingKeeps.
    ASSUME Inv, NEW s \in State, Goto(s) \/ GotoBroken(s),
           Needs(s.id),
           s.id = "Error" => s = Make("Error", s.status),
           Quiet(s) => stateData.name # "Reboot",
           server' \in Statuses, aborted' \in BOOLEAN,
           UNCHANGED <<memory, disk, world>>
    PROVE  Inv'
  <2> USE <1>LeavingKeeps
  <2>1. called' = called
    BY Zenon DEF Goto, GotoBroken
  <2>2. DataOK'
    BY Zenon DEF Inv, TypeOK, DataOK, memory, disk, world
  <2>3. Needs(s.id)'
    BY <2>1, Zenon DEF Needs, Fresh, Downloaded, Installed, Verified, memory, world
  <2> QED BY <2>2, <2>3, <1>GotoKeeps, Zenon DEF memory, disk, world

\* A handler calls the payload.
<1>CallKeeps.
    ASSUME Inv, NEW op \in Operations, Call(op), pc = "handle", DataOK',
           upd'.reboot = upd.reboot \/ cur.id \notin {"Commit", "PreCommitRetry"},
           op = "ArtifactRollback" => cur.id = "Rollback",
           op = "ArtifactCommit" => cur.id = "Commit",
           op = "SupportsRollback" => Downloaded,
           op = "NeedsArtifactReboot" => Installed,
           stateData'.name = stateData.name,
           UNCHANGED finished
    PROVE  Inv'
  <2> USE <1>CallKeeps
  <2>1. /\ call' = op /\ ret' = "none" /\ called' = called \union {op}
        /\ cur' = cur /\ to' = to /\ pc' = pc /\ to = cur
    BY Zenon DEF Call, Inv, PositionInv
  <2>2. TypeOK'
    BY <2>1, Zenon DEF Inv, TypeOK, DataOK
  <2>3. op # "ArtifactRollback" => Fresh' = Fresh
    BY <2>1, Zenon DEF Fresh
  <2>4. PositionInv'
    BY <2>1, <2>3, Zenon DEF Inv, PositionInv, Needs, Downloaded, Installed, Verified
  <2>5. op = "ArtifactRollback" => stateData.name = "Rollback"
    BY Zenon DEF Inv, StoredInv, StoredName, UpdateStates
  <2>6. StoredInv'
    BY <2>1, <2>3, <2>5, Zenon DEF Inv, StoredInv, Quiet, Downloaded, Installed
  <2>7. CallInv'
    BY <2>1, <2>3, Zenon DEF CallInv, Downloaded, Installed
  <2> QED BY <2>2, <2>4, <2>6, <2>7, Zenon DEF Inv

\* A step of the daemon that ends in an error and changes nothing else.
<1>ErrorKeeps.
    ASSUME Inv, NEW s \in State, NEW severity \in {"transient", "fatal"}, HandleError(s, severity),
           s.id = "ReportError" => stateData'.name # "Reboot",
           severity = "transient" /\ s.id \notin EndsUpdate => stateData'.name # "Reboot",
           DataOK',
           upd'.reboot = upd.reboot \/ cur.id \notin {"Commit", "PreCommitRetry"},
           stateData'.name = "Reboot" => stateData.name = "Reboot",
           UNCHANGED finished
    PROVE  Inv'
  <2> USE <1>ErrorKeeps
  <2>1. PICK t \in State : ErrorLeadsTo(s, severity, t)
    BY HandleErrorShape, Zenon
  <2>2. Needs(t.id)'
    BY <2>1, Zenon DEF ErrorLeadsTo, Needs
  <2>3. t.id = "Error" => t = Make("Error", t.status) /\ t.status = severity
    BY <2>1, MakeShape DEF ErrorLeadsTo, StateIds, Statuses
  <2>4. Quiet(t) => stateData'.name # "Reboot"
    BY <2>1, <2>3, Zenon DEF ErrorLeadsTo, Quiet
  <2> QED BY <2>1, <2>2, <2>3, <2>4, <1>GotoKeeps, Zenon DEF ErrorLeadsTo

\* A handler gives the update up, or ends it.
<1>EndingKeeps.
    ASSUME Inv, NEW s \in State, s.id \in Ending, Goto(s) \/ GotoBroken(s), DataOK',
           upd'.reboot = upd.reboot \/ cur.id \notin {"Commit", "PreCommitRetry"},
           stateData'.name = "Reboot" =>
               stateData.name = "Reboot" \/ (Installed /\ ~Quiet(cur)),
           UNCHANGED finished
    PROVE  Inv'
  <2> USE <1>EndingKeeps
  <2>1. Needs(s.id)' /\ s.id # "Error" /\ ~Quiet(s)
    BY Zenon DEF Needs, Quiet, Ending
  <2> QED BY <2>1, <1>GotoKeeps, Zenon

\* The same for a handler that only may have reported something.
<1>EndingLeaves.
    ASSUME Inv, NEW s \in State, s.id \in Ending, Goto(s) \/ GotoBroken(s),
           server' \in Statuses, aborted' \in BOOLEAN,
           UNCHANGED <<memory, disk, world>>
    PROVE  Inv'
  <2> USE <1>EndingLeaves
  <2>1. DataOK'
    BY Zenon DEF Inv, TypeOK, DataOK, memory, disk, world
  <2> QED BY <2>1, <1>EndingKeeps, Zenon DEF memory, disk, world

\* A call by a handler that only may have reported something.
<1>CallLeaves.
    ASSUME Inv, NEW op \in Operations, Call(op), pc = "handle",
           op = "ArtifactRollback" => cur.id = "Rollback",
           op = "ArtifactCommit" => cur.id = "Commit",
           op = "SupportsRollback" => Downloaded,
           op = "NeedsArtifactReboot" => Installed,
           server' \in Statuses, aborted' \in BOOLEAN,
           UNCHANGED <<memory, disk, world>>
    PROVE  Inv'
  <2> USE <1>CallLeaves
  <2>1. DataOK'
    BY Zenon DEF Inv, TypeOK, DataOK, memory, disk, world
  <2> QED BY <2>1, <1>CallKeeps, Zenon DEF memory, disk, world

\* An error after a report.
<1>ErrorLeaves.
    ASSUME Inv, NEW s \in State, NEW severity \in {"transient", "fatal"}, HandleError(s, severity),
           s.id \in EndsUpdate \ {"ReportError"} \/ stateData.name # "Reboot",
           server' \in Statuses, aborted' \in BOOLEAN,
           UNCHANGED <<memory, disk, world>>
    PROVE  Inv'
  <2> USE <1>ErrorLeaves
  <2>1. DataOK'
    BY Zenon DEF Inv, TypeOK, DataOK, memory, disk, world
  <2> QED BY <2>1, <1>ErrorKeeps, Zenon DEF memory, disk, world

\* What a call of StoreStateData leaves in the database.
<1>StoreShape.
    ASSUME DataOK, NEW id \in UpdateStates, NEW info \in Info,
           Stored(id, info) \/ StoreFailed \/ StoreExceeded(id, info)
    PROVE  /\ stateData' \in Entry
           /\ stateData' = stateData \/ stateData'.name = StoredName(id)
           /\ Stored(id, info) => stateData'.name = StoredName(id)
  <2> USE <1>StoreShape
  <2>1. WriteState(id, info) \/ (stateData' = stateData /\ ~Stored(id, info))
        \/ Stored(id, info)
    BY Zenon DEF Stored, StoreFailed, StoreExceeded
  <2> QED BY <2>1, <1>WriteStateShape, Zenon DEF DataOK, Stored

\* The count has run out: the update is reported as a failure.
<1>ExceededEnds.
    ASSUME Inv, NEW id \in UpdateStates, NEW info \in Info, StoreExceeded(id, info),
           DataOK', upd'.reboot = upd.reboot \/ cur.id \notin {"Commit", "PreCommitRetry"},
           stateData'.name = "Reboot" =>
               stateData.name = "Reboot" \/ (Installed /\ ~Quiet(cur)),
           UNCHANGED finished
    PROVE  Inv'
  <2> USE <1>ExceededEnds
  <2>1. Make("StatusReport", "failure") \in State /\ Make("StatusReport", "failure").id \in Ending
    BY MakeShape DEF StateIds, UpdateStates, Statuses, Ending
  <2> QED BY <2>1, <1>EndingKeeps, Zenon DEF StoreExceeded

\* The server's answers are well-formed.
<1>ReportsTyped.
    ASSUME Inv, NEW status \in Statuses,
           \/ ReportAborted \/ ReportPassed
           \/ ReportAccepted(status) \/ ReportLost(status) \/ UNCHANGED backend
    PROVE  server' \in Statuses /\ aborted' \in BOOLEAN
  BY <1>ReportsTyped, Zenon DEF Inv, TypeOK, ReportAborted, ReportPassed, ReportAccepted,
     ReportLost, backend

(* The states outside of an update.                                        *)

\* A start without state data goes to Idle.
<1>InitIdleInv.
    ASSUME Inv, InitIdle
    PROVE  Inv'
  <2> USE <1>InitIdleInv
  <2>1. Plain("Idle") \in State /\ Plain("Idle").id = "Idle"
    BY PlainShape, Zenon DEF StateIds
  <2>2. stateData.name # "Reboot"
    BY Zenon DEF InitIdle, NoEntry
  <2>3. Needs("Idle")
    BY Zenon DEF Needs
  <2> QED BY <2>1, <2>2, <2>3, <1>LeavingKeeps, <1>ReportsTyped, Zenon DEF InitIdle, Statuses

\* A start with unreadable state data goes to UpdateError.
<1>InitLoadFailsInv.
    ASSUME Inv, InitLoadFails
    PROVE  Inv'
  <2> USE <1>InitLoadFailsInv
  <2>1. Plain("UpdateError") \in State /\ Plain("UpdateError").id = "UpdateError"
    BY PlainShape, Zenon DEF StateIds, UpdateStates
  <2>2. Needs("UpdateError") /\ ~Quiet(Plain("UpdateError"))
    BY <2>1, Zenon DEF Needs, Quiet
  <2> QED BY <2>1, <2>2, <1>LeavingKeeps, <1>ReportsTyped, Zenon DEF InitLoadFails, Statuses

\* The states outside of an update lead to each other.
<1>QuietInv.
    ASSUME Inv, AuthorizeWait \/ Authorize \/ CheckWait \/ InventoryUpdate \/ Error
    PROVE  Inv'
  <2> USE <1>QuietInv
  <2>1. pc = "handle" /\ Quiet(cur) /\ UNCHANGED <<memory, disk, backend, world>>
    BY Zenon DEF AuthorizeWait, Authorize, CheckWait, InventoryUpdate, Error, Handling, Quiet,
           Inv, PositionInv
  <2>2. PICK s \in {Plain("Idle"), Plain("Authorize"), Plain("AuthorizeWait"), Plain("CheckWait"),
                    Plain("UpdateCheck"), Plain("InventoryUpdate"), Make("Error", "transient"),
                    Make("Error", "fatal")} : Goto(s)
    BY Zenon DEF AuthorizeWait, Authorize, CheckWait, InventoryUpdate, Error
  <2>3. /\ s \in State
        /\ s.id \in {"Idle", "Authorize", "AuthorizeWait", "CheckWait", "UpdateCheck",
                    "InventoryUpdate", "Error"}
        /\ s.id = "Error" => s = Make("Error", s.status)
    BY PlainShape, MakeShape DEF StateIds, Statuses
  <2>4. Needs(s.id)
    BY <2>3, Zenon DEF Needs
  <2>5. server' \in Statuses /\ aborted' \in BOOLEAN
    BY <2>1, <1>ReportsTyped, Zenon DEF Statuses
  <2> QED BY <2>1, <2>2, <2>3, <2>4, <2>5, InHandle, <1>LeavingKeeps, Zenon

\* Idle removes the state data, or fails to.
<1>IdleInv.
    ASSUME Inv, Idle
    PROVE  Inv'
  <2> USE <1>IdleInv
  <2>1. PICK s \in {Plain("CheckWait"), Plain("AuthorizeWait")} : Goto(s)
    BY Zenon DEF Idle
  <2>2. s \in State /\ s.id \in {"CheckWait", "AuthorizeWait"}
    BY PlainShape, Zenon DEF StateIds
  <2>3. pc = "handle" /\ Quiet(cur) /\ cur.id = "Idle"
    BY Zenon DEF Idle, Handling, Quiet
  <2>4. stateData' \in {stateData, NoEntry} /\ stateData.name # "Reboot"
    BY <2>3, InHandle, Zenon DEF Idle
  <2>5. stateData' \in Entry /\ stateData'.name # "Reboot"
    BY <2>4, NothingKnown, Zenon DEF Inv, TypeOK
  <2>6. DataOK'
    BY <2>5, Zenon DEF Idle, Inv, TypeOK, DataOK, memory, backend, world
  <2>7. Needs(s.id)'
    BY <2>2, Zenon DEF Needs
  <2> QED BY <2>1, <2>2, <2>3, <2>5, <2>6, <2>7, <1>GotoKeeps, Zenon DEF Idle, world

\* A deployment begins with nothing known and no reboot due.
<1>UpdateCheckInv.
    ASSUME Inv, UpdateCheck
    PROVE  Inv'
  <2> USE <1>UpdateCheckInv
  <2>1. pc = "handle" /\ Quiet(cur) /\ cur.id = "UpdateCheck" /\ call = "none"
    BY Zenon DEF UpdateCheck, Handling, Quiet
  <2>2. stateData.name # "Reboot" /\ to = cur
    BY <2>1, InHandle, Zenon DEF Inv, PositionInv
  <2>3. CASE NewDeployment /\ to' \in {Plain("UpdateFetch"), Make("StatusReport", "already")}
    <3>1. to' \in State /\ to'.id \in {"UpdateFetch", "StatusReport"}
      BY <2>3, PlainShape, MakeShape DEF StateIds, UpdateStates, Statuses
    <3>2. /\ called' = {} /\ finished' = {} /\ pc' = "transit" /\ cur' = cur
          /\ call' = "none" /\ ret' = ret /\ stateData' = stateData
      BY <2>1, <2>3, Zenon DEF NewDeployment
    <3>3. TypeOK'
      <4>1. DataOK /\ pc = "handle" /\ cur \in State
        BY <2>1, InHandle, Zenon
      <4>2. DataOK'
        <5>1. upd' \in Info /\ inst' \in {"none", "current", "stale"} /\ stateData' \in Entry
          BY <2>3, <4>1, NothingKnown, Zenon DEF NewDeployment, DataOK
        <5>2. /\ artifactName' = "prev" /\ server' = "none" /\ aborted' = FALSE
              /\ fetchAttempts' = fetchAttempts /\ crashes' = crashes /\ cut' = FALSE
          BY <2>3, Zenon DEF NewDeployment
        <5>3. deployments' \in Nat
          BY <2>3, <4>1 DEF NewDeployment, DataOK
        <5> QED BY <4>1, <5>1, <5>2, <5>3, Zenon DEF DataOK, Statuses
      <4> QED BY <3>1, <3>2, <4>2, Zenon DEF Inv, TypeOK, DataOK
    <3>4. PositionInv' /\ CallInv'
      BY <2>1, <3>1, <3>2, Zenon DEF PositionInv, CallInv, Needs, Fresh
    <3>5. StoredInv'
      BY <2>2, <3>1, <3>2, Zenon DEF StoredInv
    <3> QED BY <3>3, <3>4, <3>5, Zenon DEF Inv
  <2>4. CASE /\ Goto(Plain("CheckWait")) \/ Goto(Make("Error", "transient"))
             /\ UNCHANGED <<memory, disk, backend, world>>
    <3>1. PICK s \in {Plain("CheckWait"), Make("Error", "transient")} : Goto(s)
      BY <2>4, Zenon
    <3>2. /\ s \in State /\ s.id \in {"CheckWait", "Error"}
          /\ s.id = "Error" => s = Make("Error", s.status)
      BY PlainShape, MakeShape DEF StateIds, Statuses
    <3>3. Needs(s.id)
      BY <3>2, Zenon DEF Needs
    <3>4. server' \in Statuses /\ aborted' \in BOOLEAN
      BY <2>4, <1>ReportsTyped, Zenon DEF Statuses
    <3> QED BY <2>2, <2>4, <3>1, <3>2, <3>3, <3>4, <1>LeavingKeeps, Zenon
  <2> QED BY <2>3, <2>4, Zenon DEF UpdateCheck

(* The download.                                                           *)

\* The download begins; nothing was rolled back yet.
<1>UpdateFetchInv.
    ASSUME Inv, UpdateFetch
    PROVE  Inv'
  <2> USE <1>UpdateFetchInv
  <2>1. /\ pc = "handle" /\ cur.id = "UpdateFetch" /\ UNCHANGED <<memory, disk, world>>
        /\ server' \in Statuses /\ aborted' \in BOOLEAN
    BY <1>ReportsTyped, Zenon DEF UpdateFetch, Handling, Statuses
  <2>2. stateData.name = "UpdateFetch" /\ Fresh
    BY <2>1, InHandle, Zenon DEF StoredName, UpdateStates, Needs
  <2>3. PICK s \in {Make("StatusReport", "failure"), Plain("UpdateStore"), Plain("FetchStoreRetry")} :
          Goto(s)
    BY Zenon DEF UpdateFetch
  <2>4. s \in State /\ s.id \in {"StatusReport", "UpdateStore", "FetchStoreRetry"}
    BY PlainShape, MakeShape DEF StateIds, UpdateStates, Statuses
  <2>5. Needs(s.id)
    BY <2>2, <2>4, Zenon DEF Needs
  <2> QED BY <2>1, <2>2, <2>3, <2>4, <2>5, <1>LeavingKeeps, Zenon

\* The download is retried, or given up.
<1>FetchStoreRetryInv.
    ASSUME Inv, FetchStoreRetry
    PROVE  Inv'
  <2> USE <1>FetchStoreRetryInv
  <2>1. /\ pc = "handle" /\ cur.id = "FetchStoreRetry"
        /\ UNCHANGED <<upd, inst, disk, backend, world>>
        /\ fetchAttempts' \in {fetchAttempts, fetchAttempts + 1}
    BY Zenon DEF FetchStoreRetry, Handling
  <2>2. Fresh
    BY <2>1, InHandle, Zenon DEF Needs
  <2>3. DataOK'
    BY <2>1, TypeSplit DEF Inv, DataOK, disk, backend, world
  <2>4. PICK s \in {Plain("UpdateFetch"), Plain("UpdateError")} : Goto(s)
    BY Zenon DEF FetchStoreRetry
  <2>5. s \in State /\ s.id \in {"UpdateFetch", "UpdateError"}
    BY PlainShape, Zenon DEF StateIds, UpdateStates
  <2>6. Needs(s.id)' /\ ~Quiet(s)
    BY <2>2, <2>4, <2>5, Zenon DEF Needs, Quiet, Fresh, Goto
  <2> QED BY <2>1, <2>3, <2>4, <2>5, <2>6, <1>GotoKeeps, Zenon DEF disk, world

\* The artifact is opened.
<1>UpdateStoreInv.
    ASSUME Inv, UpdateStore
    PROVE  Inv'
  <2> USE <1>UpdateStoreInv
  <2>1. /\ pc = "handle" /\ cur.id = "UpdateStore" /\ UNCHANGED <<memory, disk, world>>
        /\ server' \in Statuses /\ aborted' \in BOOLEAN
    BY <1>ReportsTyped, Zenon DEF UpdateStore, Handling, Statuses
  <2>2. CASE Goto(Make("StatusReport", "failure"))
    <3>1. Make("StatusReport", "failure") \in State /\ Make("StatusReport", "failure").id \in Ending
      BY MakeShape DEF StateIds, UpdateStates, Statuses, Ending
    <3> QED BY <2>1, <2>2, <3>1, <1>EndingLeaves, Zenon
  <2>3. CASE Call("ReadHeaders")
    <3>1. DataOK'
      BY <2>1, TypeSplit, Zenon DEF Inv, DataOK, memory, disk, world
    <3> QED BY <2>1, <2>3, <3>1, <1>CallKeeps, Zenon DEF Operations, memory, disk, world
  <2> QED BY <2>2, <2>3, Zenon DEF UpdateStore

\* The headers are read and the payload is stored.
<1>UpdateStoreHeadersInv.
    ASSUME Inv, UpdateStoreHeaders
    PROVE  Inv'
  <2> USE <1>UpdateStoreHeadersInv
  <2>1. /\ pc = "handle" /\ cur.id = "UpdateStore"
        /\ UNCHANGED <<fetchAttempts, artifactName, backend, world>>
        /\ DataOK
        /\ stateData.name = "UpdateStore" /\ Fresh
    BY InHandle, Zenon DEF UpdateStoreHeaders, Answered, StoredName, UpdateStates, Needs
  <2>2. inst' \in {"none", "current"} /\ upd' \in Info
    BY <2>1, Zenon DEF UpdateStoreHeaders, DataOK, Info
  <2>3. stateData' = stateData => DataOK'
    BY <2>1, <2>2, Zenon DEF DataOK, backend, world
  <2>4. CASE Goto(Plain("FetchStoreRetry")) /\ stateData' = stateData
    <3>1. Plain("FetchStoreRetry") \in State /\ Plain("FetchStoreRetry").id = "FetchStoreRetry"
      BY PlainShape, Zenon DEF StateIds
    <3>2. Needs("FetchStoreRetry")'
      BY <2>1, <2>4, Zenon DEF Needs, Fresh, Goto
    <3> QED BY <2>1, <2>3, <2>4, <3>1, <3>2, <1>GotoKeeps, Zenon DEF world
  <2>5. CASE /\ stateData' = stateData
             /\ \/ Goto(Make("StatusReport", "failure"))
                \/ Goto(Make("Cleanup", "failure"))
    <3>1. PICK s \in {Make("StatusReport", "failure"), Make("Cleanup", "failure")} : Goto(s)
      BY <2>5, Zenon
    <3>2. s \in State /\ s.id \in Ending
      BY MakeShape DEF StateIds, UpdateStates, Statuses, Ending
    <3> QED BY <2>1, <2>3, <2>5, <3>1, <3>2, <1>EndingKeeps, Zenon DEF world
  <2>6. ASSUME Stored("UpdateStore", upd') \/ StoreExceeded("UpdateStore", upd')
        PROVE  stateData'.name = "UpdateStore" /\ DataOK'
    <3>1. stateData' \in Entry /\ stateData'.name = "UpdateStore"
      BY <2>1, <2>2, <2>6, <1>StoreShape, Zenon DEF UpdateStates, StoredName
    <3> QED BY <2>1, <2>2, <3>1, Zenon DEF DataOK, backend, world
  <2>7. CASE Stored("UpdateStore", upd') /\ Call("Download")
    BY <2>1, <2>6, <2>7, <1>CallKeeps, Zenon DEF Operations, world
  <2>8. CASE StoreExceeded("UpdateStore", upd')
    BY <2>1, <2>2, <2>6, <2>8, <1>ExceededEnds, Zenon DEF UpdateStates, world
  <2> QED BY <2>4, <2>5, <2>7, <2>8, Zenon DEF UpdateStoreHeaders, StoreFailed

\* SupportsRollback is asked only after a complete download.
<1>UpdateStorePayloadsInv.
    ASSUME Inv, UpdateStorePayloads
    PROVE  Inv'
  <2> USE <1>UpdateStorePayloadsInv
  <2>1. /\ pc = "handle" /\ cur.id = "UpdateStore" /\ UNCHANGED <<memory, disk, world>>
        /\ server' \in Statuses /\ aborted' \in BOOLEAN
    BY <1>ReportsTyped, Zenon DEF UpdateStorePayloads, Answered, Statuses
  <2>2. CASE ret = "err"
    <3>1. Make("Cleanup", "failure") \in State /\ Make("Cleanup", "failure").id \in Ending
      BY MakeShape DEF StateIds, UpdateStates, Statuses, Ending
    <3> QED BY <2>1, <2>2, <3>1, <1>EndingLeaves, Zenon DEF UpdateStorePayloads
  <2>3. CASE ret # "err"
    <3>1. Downloaded
      BY <2>1, <2>3, InHandle, Zenon DEF Needs, Downloaded, UpdateStorePayloads, Answered, Inv, CallInv
    <3> QED BY <2>1, <2>3, <3>1, <1>CallLeaves, Zenon DEF UpdateStorePayloads, Operations
  <2> QED BY <2>2, <2>3, Zenon

\* AfterStore is reached only after a complete download.
<1>UpdateStoreRollbackInv.
    ASSUME Inv, UpdateStoreRollback
    PROVE  Inv'
  <2> USE <1>UpdateStoreRollbackInv
  <2>1. /\ pc = "handle" /\ cur.id = "UpdateStore" /\ DataOK /\ Downloaded
        /\ stateData.name = "UpdateStore"
        /\ UNCHANGED <<inst, artifactName, world>>
        /\ ret \in {"err", "supported", "unsupported"}
    BY InHandle, Zenon DEF UpdateStoreRollback, Answered, Inv, CallInv, StoredName, UpdateStates
  <2>2. server' \in Statuses /\ aborted' \in BOOLEAN /\ fetchAttempts' \in Nat
    <3>1. server' \in Statuses /\ aborted' \in BOOLEAN
      BY <1>ReportsTyped, Zenon DEF UpdateStoreRollback, Statuses
    <3> QED BY <2>1, <3>1 DEF UpdateStoreRollback, DataOK
  <2>3. upd' \in Info /\ upd'.reboot = upd.reboot
    BY <2>1, Zenon DEF UpdateStoreRollback, DataOK, Info
  <2>4. stateData' \in Entry /\ stateData'.name = "UpdateStore"
    BY <2>1, <2>3, <1>StoreShape, Zenon DEF UpdateStoreRollback, UpdateStates, StoredName, DataOK
  <2>5. DataOK'
    BY <2>1, <2>2, <2>3, <2>4, Zenon DEF DataOK, world
  <2>6. CASE Goto(Plain("UpdateError"))
    <3>1. Plain("UpdateError") \in State /\ Plain("UpdateError").id \in Ending
      BY PlainShape, Zenon DEF StateIds, UpdateStates, Ending
    <3> QED BY <2>1, <2>3, <2>4, <2>5, <2>6, <3>1, <1>EndingKeeps, Zenon DEF world
  <2>7. CASE Goto(Plain("AfterStore"))
    <3>1. Plain("AfterStore") \in State /\ Plain("AfterStore").id = "AfterStore"
      BY PlainShape, Zenon DEF StateIds, UpdateStates
    <3>2. Needs("AfterStore")' /\ ~Quiet(Plain("AfterStore"))
      BY <2>1, <2>7, <3>1, Zenon DEF Needs, Quiet, Downloaded, Fresh, Goto, world
    <3> QED BY <2>1, <2>3, <2>4, <2>5, <2>7, <3>1, <3>2, <1>GotoKeeps, Zenon DEF world
  <2>8. CASE StoreExceeded("UpdateStore", upd')
    BY <2>1, <2>3, <2>4, <2>5, <2>8, <1>ExceededEnds, Zenon DEF UpdateStates, world
  <2> QED BY <2>6, <2>7, <2>8, Zenon DEF UpdateStoreRollback

\* Install is reached only after a complete download.
<1>AfterStoreInv.
    ASSUME Inv, AfterStore
    PROVE  Inv'
  <2> USE <1>AfterStoreInv
  <2>1. /\ pc = "handle" /\ cur.id = "AfterStore" /\ UNCHANGED <<memory, disk, world>>
        /\ server' \in Statuses /\ aborted' \in BOOLEAN
    BY <1>ReportsTyped, Zenon DEF AfterStore, Handling, Statuses
  <2>2. Plain("Install") \in State /\ Plain("Install").id = "Install"
    BY PlainShape, Zenon DEF StateIds, UpdateStates
  <2>3. Needs("Install") /\ ~Quiet(Plain("Install"))
    BY <2>1, <2>2, InHandle, Zenon DEF Needs, Quiet
  <2> QED BY <2>1, <2>2, <2>3, <1>LeavingKeeps, Zenon DEF AfterStore

(* Installation, reboot and commit.                                        *)

\* The payload is installed after the report.
<1>InstallInv.
    ASSUME Inv, Install
    PROVE  Inv'
  <2> USE <1>InstallInv
  <2>1. /\ pc = "handle" /\ cur.id = "Install" /\ cur \in State
        /\ UNCHANGED <<memory, disk, world>>
        /\ server' \in Statuses /\ aborted' \in BOOLEAN
    BY <1>ReportsTyped, InHandle, Zenon DEF Install, Handling, Statuses
  <2>2. CASE HandleError(cur, "fatal")
    BY <2>1, <2>2, <1>ErrorLeaves, Zenon DEF EndsUpdate
  <2>3. CASE Call("ArtifactInstall")
    BY <2>1, <2>3, <1>CallLeaves, Zenon DEF Operations
  <2> QED BY <2>2, <2>3, Zenon DEF Install

\* NeedsArtifactReboot is asked only after the installation.
<1>InstallInstalledInv.
    ASSUME Inv, InstallInstalled
    PROVE  Inv'
  <2> USE <1>InstallInstalledInv
  <2>1. /\ pc = "handle" /\ cur.id = "Install" /\ cur \in State
        /\ UNCHANGED <<memory, disk, world>>
        /\ server' \in Statuses /\ aborted' \in BOOLEAN
    BY <1>ReportsTyped, InHandle, Zenon DEF InstallInstalled, Answered, Statuses
  <2>2. CASE ret = "err"
    BY <2>1, <2>2, <1>ErrorLeaves, Zenon DEF InstallInstalled, EndsUpdate
  <2>3. CASE ret # "err"
    <3>1. Installed
      BY <2>1, <2>3, InHandle, Zenon DEF Needs, Installed, InstallInstalled, Answered, Inv, CallInv
    <3> QED BY <2>1, <2>3, <3>1, <1>CallLeaves, Zenon DEF InstallInstalled, Operations
  <2> QED BY <2>2, <2>3, Zenon

\* Commit is reached without a reboot only if none is needed.
<1>InstallRebootTypeInv.
    ASSUME Inv, InstallRebootType
    PROVE  Inv'
  <2> USE <1>InstallRebootTypeInv
  <2>1. /\ pc = "handle" /\ cur.id = "Install" /\ cur \in State /\ DataOK /\ Installed
        /\ stateData.name = "Install"
        /\ UNCHANGED <<inst, fetchAttempts, artifactName, backend, world>>
        /\ ret \in {"err", "no reboot", "custom", "automatic"}
    BY InHandle, Zenon DEF InstallRebootType, Answered, Inv, CallInv, StoredName, UpdateStates
  <2>2. upd' \in Info /\ (upd'.reboot = ret \/ ret = "err")
    BY <2>1, Zenon DEF InstallRebootType, DataOK, Info
  <2>3. stateData' \in Entry /\ stateData'.name = "Install"
    BY <2>1, <2>2, <1>StoreShape, Zenon DEF InstallRebootType, UpdateStates, StoredName, DataOK
  <2>4. DataOK'
    BY <2>1, <2>2, <2>3, Zenon DEF DataOK, backend, world
  <2>5. CASE HandleError(cur, "transient")
    BY <2>1, <2>3, <2>4, <2>5, <1>ErrorKeeps, Zenon DEF world
  <2>6. ASSUME NEW id \in {"Commit", "Reboot"}, Goto(Plain(id)), ret # "err",
               id = "Commit" => ret = "no reboot"
        PROVE  Inv'
    <3>1. Plain(id) \in State /\ Plain(id).id = id
      BY PlainShape, Zenon DEF StateIds, UpdateStates
    <3>2. Installed'
      BY <2>1, <2>6, Zenon DEF Goto, world, Installed, Downloaded, Fresh
    <3>3. Needs(id)' /\ ~Quiet(Plain(id))
      BY <2>2, <2>6, <3>1, <3>2, Zenon DEF Needs, Quiet
    <3> QED BY <2>1, <2>3, <2>4, <2>6, <3>1, <3>3, <1>GotoKeeps, Zenon DEF world
  <2>7. CASE StoreExceeded("Install", upd')
    BY <2>1, <2>2, <2>3, <2>4, <2>7, <1>ExceededEnds, Zenon DEF UpdateStates, world
  <2> QED BY <2>5, <2>6, <2>7, Zenon DEF InstallRebootType

\* The machine or the payload is rebooted.
<1>RebootInv.
    ASSUME Inv, Reboot
    PROVE  Inv'
  <2> USE <1>RebootInv
  <2>1. /\ pc = "handle" /\ cur.id = "Reboot" /\ UNCHANGED <<memory, disk, world>>
        /\ server' \in Statuses /\ aborted' \in BOOLEAN
    BY <1>ReportsTyped, Zenon DEF Reboot, Handling, Statuses
  <2>2. CASE Goto(Plain("Rollback"))
    <3>1. Plain("Rollback") \in State /\ Plain("Rollback").id \in Ending
      BY PlainShape, Zenon DEF StateIds, UpdateStates, Ending
    <3> QED BY <2>1, <2>2, <3>1, <1>EndingLeaves, Zenon
  <2>3. ASSUME NEW op \in {"ArtifactReboot", "SystemReboot"}, Call(op)
        PROVE  Inv'
    BY <2>1, <2>3, <1>CallLeaves, Zenon DEF Operations
  <2> QED BY <2>2, <2>3, Zenon DEF Reboot

\* A reboot that returned is verified, or the update is rolled back.
<1>RebootReturnsInv.
    ASSUME Inv, RebootReturns
    PROVE  Inv'
  <2> USE <1>RebootReturnsInv
  <2>1. /\ pc = "handle" /\ cur.id = "Reboot" /\ cur \in State
        /\ UNCHANGED <<memory, disk, world>>
        /\ server' \in Statuses /\ aborted' \in BOOLEAN
    BY <1>ReportsTyped, InHandle, Zenon DEF RebootReturns, Answered, Statuses
  <2>2. CASE HandleError(cur, "transient")
    BY <2>1, <2>2, <1>ErrorLeaves, Zenon DEF EndsUpdate
  <2>3. ASSUME NEW id \in {"Rollback", "VerifyReboot"}, Goto(Plain(id))
        PROVE  Inv'
    <3>1. Plain(id) \in State /\ Plain(id).id = id
      BY PlainShape, Zenon DEF StateIds, UpdateStates
    <3>2. Needs(id) /\ ~Quiet(Plain(id))
      BY <2>1, <3>1, InHandle, Zenon DEF Needs, Quiet
    <3> QED BY <2>1, <2>3, <3>1, <3>2, <1>LeavingKeeps, Zenon
  <2> QED BY <2>2, <2>3, Zenon DEF RebootReturns

\* AfterReboot is reached only when the reboot is verified.
<1>VerifyRebootInv.
    ASSUME Inv, VerifyReboot
    PROVE  Inv'
  <2> USE <1>VerifyRebootInv
  <2>1. /\ pc = "handle" /\ cur.id = "VerifyReboot" /\ cur \in State
        /\ UNCHANGED <<memory, disk, world>>
        /\ server' \in Statuses /\ aborted' \in BOOLEAN
    BY <1>ReportsTyped, InHandle, Zenon DEF VerifyReboot, Handling, Answered, Statuses
  <2>2. CASE Call("ArtifactVerifyReboot")
    BY <2>1, <2>2, <1>CallLeaves, Zenon DEF Operations
  <2>3. CASE HandleError(cur, "transient")
    BY <2>1, <2>3, <1>ErrorLeaves, Zenon DEF EndsUpdate
  <2>4. CASE /\ Answered("VerifyReboot", "ArtifactVerifyReboot") /\ ret # "err"
             /\ Goto(Plain("AfterReboot"))
    <3>1. Plain("AfterReboot") \in State /\ Plain("AfterReboot").id = "AfterReboot"
      BY PlainShape, Zenon DEF StateIds, UpdateStates
    <3>2. Verified
      BY <2>1, <2>4, InHandle, Zenon DEF Needs, Verified, Answered, Inv, CallInv
    <3>3. Needs("AfterReboot") /\ ~Quiet(Plain("AfterReboot"))
      BY <3>1, <3>2, Zenon DEF Needs, Quiet
    <3> QED BY <2>1, <2>4, <3>1, <3>3, <1>LeavingKeeps, Zenon
  <2> QED BY <2>2, <2>3, <2>4, Zenon DEF VerifyReboot

\* Commit is reached after a verified reboot.
<1>AfterRebootInv.
    ASSUME Inv, AfterReboot
    PROVE  Inv'
  <2> USE <1>AfterRebootInv
  <2>1. /\ pc = "handle" /\ cur.id = "AfterReboot" /\ UNCHANGED <<memory, disk, world>>
        /\ server' \in Statuses /\ aborted' \in BOOLEAN
    BY <1>ReportsTyped, Zenon DEF AfterReboot, Handling, Statuses
  <2>2. Plain("Commit") \in State /\ Plain("Commit").id = "Commit"
    BY PlainShape, Zenon DEF StateIds, UpdateStates
  <2>3. Needs("Commit") /\ ~Quiet(Plain("Commit"))
    BY <2>1, <2>2, InHandle, Zenon DEF Needs, Quiet, Verified
  <2> QED BY <2>1, <2>2, <2>3, <1>LeavingKeeps, Zenon DEF AfterReboot

\* The payload is committed, or the report is retried.
<1>CommitInv.
    ASSUME Inv, Commit
    PROVE  Inv'
  <2> USE <1>CommitInv
  <2>1. /\ pc = "handle" /\ cur.id = "Commit" /\ cur \in State /\ cur.tries \in Nat
        /\ stateData.name = "Commit" /\ UNCHANGED <<memory, disk, world>>
        /\ server' \in Statuses /\ aborted' \in BOOLEAN
    BY <1>ReportsTyped, InHandle, StateShape, Zenon DEF Commit, Handling, Statuses, StoredName,
       UpdateStates
  <2>2. CASE HandleError(cur, "transient") \/ HandleError(cur, "fatal")
    BY <2>1, <2>2, <1>ErrorLeaves, Zenon DEF EndsUpdate
  <2>3. CASE Call("ArtifactCommit")
    BY <2>1, <2>3, <1>CallLeaves, Zenon DEF Operations
  <2>4. CASE Goto([Plain("PreCommitRetry") EXCEPT !.tries = cur.tries + 1])
    <3> DEFINE s == [Plain("PreCommitRetry") EXCEPT !.tries = cur.tries + 1]
    <3>1. s \in State /\ s.id = "PreCommitRetry"
      BY <2>1, PlainShape, TriesShape DEF StateIds
    <3>2. Goto(s)
      BY <2>4, Zenon
    <3> HIDE DEF s
    <3>3. Needs(s.id)
      BY <2>1, <3>1, InHandle, Zenon DEF Needs
    <3> QED BY <2>1, <3>1, <3>2, <3>3, <1>LeavingKeeps, Zenon
  <2> QED BY <2>2, <2>3, <2>4, Zenon DEF Commit

\* The commit is tried again with what was known before.
<1>PreCommitRetryInv.
    ASSUME Inv, PreCommitRetry
    PROVE  Inv'
  <2> USE <1>PreCommitRetryInv
  <2>1. /\ pc = "handle" /\ cur.id = "PreCommitRetry" /\ cur.tries \in Nat
        /\ UNCHANGED <<memory, disk, world>>
        /\ server' \in Statuses /\ aborted' \in BOOLEAN
    BY <1>ReportsTyped, InHandle, StateShape, Zenon DEF PreCommitRetry, Handling, Statuses
  <2>2. Plain("Commit") \in State /\ Plain("Commit").id = "Commit"
    BY PlainShape, Zenon DEF StateIds, UpdateStates
  <2>3. CASE HandleError(Plain("Commit"), "transient")
    BY <2>1, <2>2, <2>3, <1>ErrorLeaves, Zenon DEF EndsUpdate
  <2>4. CASE Goto([Plain("Commit") EXCEPT !.tries = cur.tries])
    <3> DEFINE s == [Plain("Commit") EXCEPT !.tries = cur.tries]
    <3>1. s \in State /\ s.id = "Commit"
      BY <2>1, <2>2, TriesShape, Zenon
    <3>2. Goto(s)
      BY <2>4, Zenon
    <3> HIDE DEF s
    <3>3. Needs(s.id) /\ ~Quiet(s)
      BY <2>1, <3>1, InHandle, Zenon DEF Needs, Quiet
    <3> QED BY <2>1, <3>1, <3>2, <3>3, <1>LeavingKeeps, Zenon
  <2> QED BY <2>3, <2>4, Zenon DEF PreCommitRetry

\* The committed update is stored.
<1>CommitStoreInv.
    ASSUME Inv, CommitStore
    PROVE  Inv'
  <2> USE <1>CommitStoreInv
  <2>1. /\ pc = "handle" /\ cur.id = "Commit" /\ cur \in State /\ DataOK
        /\ stateData.name = "Commit" /\ UNCHANGED <<memory, backend, world>>
    BY InHandle, Zenon DEF CommitStore, Answered, StoredName, UpdateStates
  <2>2. stateData' \in Entry /\ stateData'.name = "Commit"
    BY <2>1, <1>StoreShape, Zenon DEF CommitStore, UpdateStates, StoredName, DataOK, disk
  <2>3. artifactName' \in {"prev", "next", "broken"}
    BY <2>1, Zenon DEF CommitStore, DataOK, disk
  <2>4. DataOK' /\ upd' = upd /\ UNCHANGED finished
    BY <2>1, <2>2, <2>3, Zenon DEF DataOK, memory, backend, world
  <2>5. CASE HandleError(cur, "transient")
    BY <2>1, <2>2, <2>4, <2>5, <1>ErrorKeeps, Zenon
  <2>6. ASSUME NEW id \in {"AfterFirstCommit", "UpdateError"}, Goto(Plain(id))
        PROVE  Inv'
    <3>1. Plain(id) \in State /\ Plain(id).id \in Ending
      BY PlainShape, Zenon DEF StateIds, UpdateStates, Ending
    <3> QED BY <2>2, <2>4, <2>6, <3>1, <1>EndingKeeps, Zenon
  <2>7. CASE StoreExceeded("Commit", upd)
    BY <2>1, <2>2, <2>4, <2>7, <1>ExceededEnds, Zenon DEF UpdateStates, DataOK
  <2> QED BY <2>5, <2>6, <2>7, Zenon DEF CommitStore

(* The end of an update.                                                   *)

\* The states after the commit and after a rollback.
<1>EndInv.
    ASSUME Inv,
           \/ AfterFirstCommit \/ AfterCommit \/ Rollback \/ RollbackReboot
           \/ VerifyRollbackReboot \/ AfterRollbackReboot \/ UpdateError \/ Cleanup
    PROVE  Inv'
  <2> USE <1>EndInv
  <2>1. /\ pc = "handle" /\ cur \in State /\ cur.status \in Statuses
        /\ UNCHANGED <<memory, disk, world>>
        /\ server' \in Statuses /\ aborted' \in BOOLEAN
    <3>1. pc = "handle" /\ UNCHANGED <<memory, disk, backend, world>>
      BY Zenon DEF AfterFirstCommit, AfterCommit, Rollback, RollbackReboot, VerifyRollbackReboot,
             AfterRollbackReboot, UpdateError, Cleanup, Handling, Answered
    <3> QED BY <3>1, InHandle, <1>ReportsTyped, Zenon DEF Statuses
  <2>2. ASSUME NEW id \in {"AfterCommit", "UpdateError", "RollbackReboot", "VerifyRollbackReboot",
                           "AfterRollbackReboot"}, Goto(Plain(id))
        PROVE  Inv'
    <3>1. Plain(id) \in State /\ Plain(id).id \in Ending
      BY PlainShape, Zenon DEF StateIds, UpdateStates, Ending
    <3> QED BY <2>1, <2>2, <3>1, <1>EndingLeaves, Zenon
  <2>3. ASSUME NEW id \in {"Cleanup", "StatusReport"}, NEW status \in Statuses, Goto(Make(id, status))
        PROVE  Inv'
    <3>1. Make(id, status) \in State /\ Make(id, status).id \in Ending
      BY MakeShape, Zenon DEF StateIds, UpdateStates, Ending
    <3> QED BY <2>1, <2>3, <3>1, <1>EndingLeaves, Zenon
  <2>4. ASSUME NEW op \in {"ArtifactRollbackReboot", "SystemReboot", "ArtifactVerifyRollbackReboot",
                           "ArtifactFailure", "Cleanup"}, Call(op)
        PROVE  Inv'
    BY <2>1, <2>4, <1>CallLeaves, Zenon DEF Operations
  <2>5. ASSUME NEW severity \in {"transient", "fatal"}, HandleError(cur, severity),
               cur.id \in {"Rollback", "VerifyRollbackReboot"}
        PROVE  Inv'
    BY <2>1, <2>5, <1>ErrorLeaves, Zenon DEF EndsUpdate
  <2>6. CASE AfterFirstCommit
    BY <2>2, <2>6, Zenon DEF AfterFirstCommit
  <2>7. CASE AfterCommit
    BY <2>3, <2>7, Zenon DEF AfterCommit, Statuses
  <2>8. CASE Rollback
    <3>1. CASE Handling("Rollback") /\ Call("ArtifactRollback")
      BY <2>1, <3>1, <1>CallLeaves, Zenon DEF Handling, Operations
    <3>2. CASE AfterRollback
      BY <2>2, <3>2, Zenon DEF AfterRollback
    <3> QED BY <2>2, <2>5, <2>8, <3>1, <3>2, Zenon DEF Rollback, Answered
  <2>9. CASE RollbackReboot
    BY <2>2, <2>4, <2>9, Zenon DEF RollbackReboot
  <2>10. CASE VerifyRollbackReboot
    BY <2>2, <2>4, <2>5, <2>10, Zenon DEF VerifyRollbackReboot, Answered
  <2>11. CASE AfterRollbackReboot
    BY <2>2, <2>11, Zenon DEF AfterRollbackReboot
  <2>12. CASE UpdateError
    BY <2>3, <2>4, <2>12, Zenon DEF UpdateError, Statuses
  <2>13. CASE Cleanup
    <3>1. (IF ret = "err" THEN "failure" ELSE cur.status) \in Statuses
      BY <2>1, Zenon DEF Statuses
    <3> QED BY <2>1, <2>3, <2>4, <2>13, <3>1, Zenon DEF Cleanup
  <2> QED BY <2>6, <2>7, <2>8, <2>9, <2>10, <2>11, <2>12, <2>13, Zenon

\* Turning a report into its retry state and back keeps the counts.
<1>RetryShape.
    ASSUME NEW s \in State, NEW id \in StateIds, NEW k \in Nat
    PROVE  /\ [s EXCEPT !.id = id, !.sending = k] \in State
           /\ [s EXCEPT !.id = id, !.sending = k].id = id
  BY <1>RetryShape, Zenon DEF State

\* Counting an attempt to send keeps the state object well-formed.
<1>SentShape.
    ASSUME NEW s \in State
    PROVE  /\ [s EXCEPT !.tries = @ + 1] \in State
           /\ [s EXCEPT !.logTries = @ + 1] \in State
  BY <1>SentShape DEF State

\* The final report and its retries.
<1>ReportInv.
    ASSUME Inv, StatusReport \/ StatusReportRetry \/ ReportError
    PROVE  Inv'
  <2> USE <1>ReportInv
  <2>1. /\ pc = "handle" /\ cur \in State /\ cur.status \in Statuses
        /\ cur.id \in {"StatusReport", "StatusReportRetry", "ReportError"}
        /\ UNCHANGED <<memory, disk, world>>
    BY InHandle, Zenon DEF StatusReport, StatusReportRetry, ReportError, Handling
  <2>2. stateData.name # "Reboot"
    BY <2>1, InHandle, Zenon DEF StoredName, UpdateStates
  <2>3. server' \in Statuses /\ aborted' \in BOOLEAN
    BY <2>1, <1>ReportsTyped, Zenon DEF StatusReport, StatusReportRetry, ReportError
  <2>4. ASSUME NEW s \in State, Goto(s),
               s.id \in {"StatusReport", "StatusReportRetry", "ReportError", "Rollback", "Idle"}
        PROVE  Inv'
    <3>1. Needs(s.id)
      BY <2>4, Zenon DEF Needs
    <3> QED BY <2>1, <2>2, <2>3, <2>4, <3>1, <1>LeavingKeeps, Zenon
  <2>5. ASSUME NEW id \in {"Rollback", "Idle"}, Goto(Plain(id))
        PROVE  Inv'
    BY <2>4, <2>5, PlainShape, Zenon DEF StateIds, UpdateStates
  <2>6. CASE Goto(Make("ReportError", cur.status))
    BY <2>1, <2>4, <2>6, MakeShape DEF StateIds, UpdateStates
  <2>7. ASSUME NEW s \in State, NEW k \in Nat, NEW id \in {"StatusReport", "StatusReportRetry"},
               Goto([s EXCEPT !.id = id, !.sending = k])
        PROVE  Inv'
    <3> DEFINE t == [s EXCEPT !.id = id, !.sending = k]
    <3>1. id \in StateIds
      BY Zenon DEF StateIds, UpdateStates
    <3>2. t \in State /\ t.id = id
      BY <3>1, <1>RetryShape, Zenon
    <3>3. Goto(t)
      BY <2>7, Zenon
    <3> HIDE DEF t
    <3> QED BY <2>4, <3>2, <3>3, Zenon
  <2>8. CASE StatusReport
    <3> DEFINE sent == [cur EXCEPT !.tries = @ + 1]
    <3> DEFINE logged == [sent EXCEPT !.logTries = @ + 1]
    <3>1. sent \in State /\ logged \in State
      BY <2>1, <1>SentShape, Zenon
    <3>2. sent.tries \in Nat /\ logged.logTries \in Nat
      BY <3>1, StateShape, Zenon
    <3>3. \/ Goto(Make("ReportError", cur.status))
          \/ Retry(sent, sent.tries) \/ Goto(Plain("Idle")) \/ Retry(logged, logged.logTries)
      BY <2>8, Zenon DEF StatusReport
    <3> HIDE DEF sent, logged
    <3> QED BY <2>5, <2>6, <2>7, <3>1, <3>2, <3>3, Zenon DEF Retry
  <2>9. CASE StatusReportRetry
    BY <2>1, <2>6, <2>7, <2>9, Zenon DEF StatusReportRetry
  <2>10. CASE ReportError
    BY <2>5, <2>10, Zenon DEF ReportError
  <2> QED BY <2>8, <2>9, <2>10, Zenon

(* A restarted daemon goes on from what it finds on disk.                  *)

\* A restarted daemon goes on to VerifyReboot only if the stored Reboot state
\* says that the payload was installed.
<1>InitResumeInv.
    ASSUME Inv, InitResume
    PROVE  Inv'
  <2> USE <1>InitResumeInv
  <2>1. /\ pc = "handle" /\ cur.id = "Init" /\ DataOK
        /\ UNCHANGED <<fetchAttempts, artifactName, backend, world>>
        /\ upd' = stateData.info
        /\ inst' \in {"none", "current"}
    BY InHandle, Zenon DEF InitResume, Handling
  <2>2. stateData' \in Entry /\ stateData'.name \in {stateData.name, "none"}
    <3>1. stateData.count \in 0 .. MaximumStateDataStoreCount
      BY <2>1, Zenon DEF DataOK, Entry
    <3>2. NextCount(stateData.count) \in 0 .. MaximumStateDataStoreCount
      BY <3>1, StoreCountAssumption DEF NextCount, Exceeded
    <3>3. ASSUME stateData' = [stateData EXCEPT !.count = NextCount(stateData.count)]
          PROVE  stateData' \in Entry /\ stateData'.name = stateData.name
      <4> DEFINE k == NextCount(stateData.count)
      <4>1. k \in 0 .. MaximumStateDataStoreCount
        BY <3>2, Zenon
      <4>2. stateData' = [stateData EXCEPT !.count = k] /\ stateData \in Entry
        BY <2>1, <3>3, Zenon DEF DataOK
      <4> HIDE DEF k
      <4> QED BY <4>1, <4>2, Zenon DEF Entry
    <3>4. ASSUME UNCHANGED stateData PROVE stateData' \in Entry /\ stateData'.name = stateData.name
      BY <2>1, <3>4, Zenon DEF DataOK
    <3> QED BY <3>3, <3>4, NothingKnown, Zenon DEF InitResume
  <2>3. DataOK'
    <3>1. upd' \in Info
      BY <2>1, Zenon DEF DataOK, Entry
    <3> QED BY <2>1, <2>2, <3>1, Zenon DEF DataOK, backend, world
  <2>4. ASSUME NEW s \in State, s.id \in Ending, Goto(s) \/ GotoBroken(s)
        PROVE  Inv'
    BY <2>1, <2>2, <2>3, <2>4, <1>EndingKeeps, Zenon DEF world
  <2>5. ASSUME NEW id \in {"Rollback", "UpdateError", "VerifyRollbackReboot", "AfterFirstCommit",
                           "AfterCommit"},
               Goto(Plain(id)) \/ GotoBroken(Plain(id))
        PROVE  Inv'
    <3>1. Plain(id) \in State /\ Plain(id).id \in Ending
      BY PlainShape, Zenon DEF StateIds, UpdateStates, Ending
    <3> QED BY <2>4, <2>5, <3>1, Zenon
  <2>6. ASSUME NEW id \in {"Cleanup", "StatusReport"},
               Goto(Make(id, "failure")) \/ GotoBroken(Make(id, "failure"))
        PROVE  Inv'
    <3>1. Make(id, "failure") \in State /\ Make(id, "failure").id \in Ending
      BY MakeShape, Zenon DEF StateIds, UpdateStates, Statuses, Ending
    <3> QED BY <2>4, <2>6, <3>1, Zenon
  <2>7. CASE NextAfterRestart(stateData.name, stateData.info)
    <3>1. CASE RollbackOrFail(stateData.info)
      BY <2>5, <3>1, Zenon DEF RollbackOrFail
    <3>2. CASE stateData.name = "Reboot" /\ Goto(Plain("VerifyReboot"))
      <4>1. Plain("VerifyReboot") \in State /\ Plain("VerifyReboot").id = "VerifyReboot"
        BY PlainShape, Zenon DEF StateIds, UpdateStates
      <4>2. Installed'
        BY <2>1, <3>2, Zenon DEF Inv, StoredInv, Installed, Downloaded, Fresh, Goto, world
      <4>3. Needs("VerifyReboot")' /\ ~Quiet(Plain("VerifyReboot"))
        BY <4>1, <4>2, Zenon DEF Needs, Quiet
      <4> QED BY <2>1, <2>2, <2>3, <3>2, <4>1, <4>3, <1>GotoKeeps, Zenon DEF world
    <3>3. CASE Goto(Make("Cleanup", "failure"))
      BY <2>6, <3>3, Zenon
    <3>4. CASE \E id \in {"VerifyRollbackReboot", "AfterFirstCommit", "AfterCommit", "UpdateError"} :
                 Goto(Plain(id))
      BY <2>5, <3>4, Zenon
    <3> QED BY <2>7, <3>1, <3>2, <3>3, <3>4, Zenon DEF NextAfterRestart
  <2>8. CASE stateData.name = "UpdateFetch" /\ Goto(Plain("Idle"))
    <3>1. Plain("Idle") \in State /\ Plain("Idle").id = "Idle"
      BY PlainShape, Zenon DEF StateIds
    <3>2. Needs("Idle")'
      BY Zenon DEF Needs
    <3> QED BY <2>1, <2>2, <2>3, <2>8, <3>1, <3>2, <1>GotoKeeps, Zenon DEF world
  <2>9. CASE Goto(Make("Error", "fatal"))
    <3> DEFINE s == Make("Error", "fatal")
    <3>1. s \in State /\ s.id = "Error" /\ s.status = "fatal" /\ s = Make("Error", s.status)
      BY MakeShape DEF StateIds, Statuses
    <3>2. Goto(s)
      BY <2>9, Zenon
    <3> HIDE DEF s
    <3>3. Needs(s.id)' /\ ~Quiet(s)
      BY <3>1, Zenon DEF Needs, Quiet
    <3> QED BY <2>1, <2>2, <2>3, <3>1, <3>2, <3>3, <1>GotoKeeps, Zenon DEF world
  <2> QED BY <2>6, <2>7, <2>8, <2>9, Zenon DEF InitResume

\* Every Handle method keeps the invariant.
<1>HandleInv.
    ASSUME Inv, Handle
    PROVE  Inv'
  BY <1>HandleInv, <1>InitIdleInv, <1>InitLoadFailsInv, <1>InitResumeInv, <1>QuietInv, <1>IdleInv,
     <1>UpdateCheckInv,
     <1>UpdateFetchInv, <1>FetchStoreRetryInv, <1>UpdateStoreInv, <1>UpdateStoreHeadersInv,
     <1>UpdateStorePayloadsInv, <1>UpdateStoreRollbackInv, <1>AfterStoreInv, <1>InstallInv,
     <1>InstallInstalledInv, <1>InstallRebootTypeInv, <1>RebootInv, <1>RebootReturnsInv,
     <1>VerifyRebootInv,
     <1>AfterRebootInv, <1>CommitInv, <1>PreCommitRetryInv, <1>CommitStoreInv, <1>EndInv, <1>ReportInv, Zenon
     DEF Handle

(* The steps between two Handle methods.                                   *)

\* Which states can see their enter or leave scripts fail.
<1>ScriptStates.
    ASSUME NEW s \in State, Transition(s) \in EnterCanFail \union LeaveCanFail
    PROVE  \/ s.id \in EndsUpdate \ {"ReportError"}
           \/ s.id \in {"Authorize", "InventoryUpdate", "UpdateCheck", "FetchStoreRetry",
                       "PreCommitRetry", "Error"}
           \/ s.id = "UpdateFetch" /\ Transition(s) \notin LeaveCanFail
  <2> USE <1>ScriptStates
  <2>1. s.id \in StateIds
    BY StateShape, Zenon
  <2>2. s.id = "UpdateFetch" => Transition(s) = "ToDownload_Enter"
    BY Zenon DEF Transition
  <2>3. s.id \in {"Idle", "AuthorizeWait", "CheckWait"} => Transition(s) = "ToIdle"
    BY Zenon DEF Transition
  <2>4. s.id \in {"UpdateError", "ReportError"} => Transition(s) = "ToArtifactFailure"
    BY Zenon DEF Transition
  <2>5. s.id \in {"Init", "StatusReportRetry"} => Transition(s) = "ToNone"
    BY Zenon DEF Transition
  <2> QED BY <2>1, <2>2, <2>3, <2>4, <2>5, Zenon
          DEF StateIds, UpdateStates, EndsUpdate, EnterCanFail, LeaveCanFail

\* A script fails: the state that it belongs to decides.
<1>ScriptFails.
    ASSUME Inv, HandleError(cur, "transient"),
           \/ pc = "enter" /\ Transition(cur) \in EnterCanFail
           \/ Transition(cur) \in LeaveCanFail,
           UNCHANGED <<memory, disk, backend, world>>
    PROVE  Inv'
  <2> USE <1>ScriptFails
  <2>1. cur \in State
    BY Zenon DEF Inv, TypeOK
  <2>2. server' \in Statuses /\ aborted' \in BOOLEAN
    BY <1>ReportsTyped, Zenon DEF Statuses
  <2>3. cur.id \in EndsUpdate \ {"ReportError"} \/ stateData.name # "Reboot"
    <3>1. CASE cur.id \in {"Authorize", "InventoryUpdate", "UpdateCheck", "FetchStoreRetry",
                           "PreCommitRetry", "Error"}
      BY <3>1, Zenon DEF Inv, StoredInv, PositionInv, Quiet
    <3>2. CASE cur.id = "UpdateFetch" /\ pc = "enter"
      BY <3>2, Zenon DEF Inv, StoredInv, StoredName, UpdateStates
    <3> QED BY <2>1, <3>1, <3>2, <1>ScriptStates, Zenon
  <2> QED BY <2>1, <2>2, <2>3, <1>ErrorLeaves, Zenon

\* The daemon gives up.
<1>ExitInv.
    ASSUME Inv, Exit
    PROVE  Inv'
  <2> USE <1>ExitInv
  <2>1. /\ pc = "transit" /\ pc' = "exited"
        /\ UNCHANGED <<cur, to, call, ret, called, memory, disk, backend, world>>
    BY Zenon DEF Exit
  <2>2. TypeOK'
    BY <2>1, Zenon DEF Inv, TypeOK, memory, disk, backend, world
  <2>3. PositionInv'
    BY <2>1, Zenon DEF Inv, PositionInv, Needs, Fresh, Downloaded, Installed, Verified, memory, world
  <2>4. StoredInv'
    BY <2>1, Zenon DEF Inv, StoredInv, Quiet, Fresh, Downloaded, Installed, disk, world
  <2>5. CallInv'
    BY <2>1, Zenon DEF Inv, CallInv
  <2> QED BY <2>2, <2>3, <2>4, <2>5, Zenon DEF Inv

\* A signal finds the daemon between two states with no reboot due.
<1>ForceInv.
    ASSUME Inv, NEW id \in {"UpdateCheck", "InventoryUpdate"}, ForceToState(id)
    PROVE  Inv'
  <2> USE <1>ForceInv
  <2>1. Plain(id) \in State /\ Plain(id).id = id
    BY PlainShape, Zenon DEF StateIds
  <2>2. /\ to' = Plain(id) /\ pc' = "transit" /\ call' = call
        /\ UNCHANGED <<cur, pc, ret, called, memory, disk, backend, world>>
        /\ Quiet(to) /\ pc = "transit"
    BY Zenon DEF ForceToState, Quiet
  <2>3. TypeOK'
    <3>1. UNCHANGED <<ret, upd, inst, fetchAttempts, stateData, artifactName, server, aborted,
                      deployments, crashes, called, finished, cut>>
      BY <2>2, Zenon DEF memory, disk, backend, world
    <3> QED BY <2>1, <2>2, <3>1, Zenon DEF Inv, TypeOK
  <2>4. PositionInv'
    BY <2>1, <2>2, Zenon DEF Inv, PositionInv, Needs, Fresh, Downloaded, Installed, Verified,
       memory, world
  <2>5. StoredInv'
    BY <2>1, <2>2, Zenon DEF Inv, StoredInv, Quiet, Fresh, Downloaded, Installed, disk, world
  <2>6. CallInv'
    BY <2>2, Zenon DEF Inv, CallInv
  <2> QED BY <2>3, <2>4, <2>5, <2>6, Zenon DEF Inv

\* The daemon enters the next state.
<1>TransitInv.
    ASSUME Inv, Transit
    PROVE  Inv'
  <2> USE <1>TransitInv
  <2>1. /\ cur' = to /\ to' = to /\ pc = "transit" /\ call = "none" /\ call' = call
        /\ pc' \in {"store", "store then enter", "enter", "handle"}
        /\ pc' \in {"store", "store then enter"} <=> to.id \in UpdateStates
        /\ UNCHANGED <<ret, called, memory, disk, backend, world>>
    BY Zenon DEF Transit, Inv, CallInv
  <2>2. TypeOK'
    <3>1. /\ cur' = to /\ to' = to
          /\ UNCHANGED <<call, ret, upd, inst, fetchAttempts, stateData, artifactName, server,
                         aborted, deployments, crashes, called, finished, cut>>
      BY <2>1, Zenon DEF memory, disk, backend, world
    <3>2. pc' \in {"transit", "store", "store then enter", "enter", "handle", "flag", "exited"}
      BY <2>1, Zenon
    <3> QED BY <3>1, <3>2, Zenon DEF Inv, TypeOK
  <2>3. to.id = "Error" => to.status # "fatal"
    BY Zenon DEF Transit, Inv, PositionInv
  <2>4. PositionInv'
    BY <2>1, <2>3, Zenon DEF Inv, PositionInv, Needs, Fresh, Downloaded, Installed, Verified,
       memory, world
  <2>5. StoredInv'
    BY <2>1, Zenon DEF Inv, StoredInv, Quiet, Fresh, Downloaded, Installed, disk, world
  <2>6. CallInv'
    BY <2>1, Zenon DEF CallInv
  <2> QED BY <2>2, <2>4, <2>5, <2>6, Zenon DEF Inv

\* The state that was entered is stored.
<1>StoreStateInv.
    ASSUME Inv, StoreState
    PROVE  Inv'
  <2> USE <1>StoreStateInv
  <2>1. /\ pc \in {"store", "store then enter"} /\ cur.id \in UpdateStates /\ to = cur
        /\ cur \in State /\ DataOK /\ call = "none" /\ upd \in Info
        /\ UNCHANGED <<memory, artifactName, backend, world>>
    BY TypeSplit, Zenon DEF StoreState, Inv, TypeOK, PositionInv, CallInv
  <2>2. /\ stateData' \in Entry
        /\ stateData' = stateData \/ stateData'.name = StoredName(cur.id)
        /\ Stored(cur.id, upd) => stateData'.name = StoredName(cur.id)
    BY <2>1, <1>StoreShape, Zenon DEF StoreState
  <2>3. DataOK' /\ upd' = upd /\ UNCHANGED finished
    BY <2>1, <2>2, Zenon DEF DataOK, memory, backend, world
  <2>4. stateData'.name = "Reboot" => stateData.name = "Reboot" \/ (Installed /\ ~Quiet(cur))
    BY <2>1, <2>2, Zenon DEF Inv, PositionInv, Needs, Quiet, StoredName
  <2>5. CASE Stored(cur.id, upd) /\ pc' \in {"enter", "handle"} /\ UNCHANGED <<cur, to, call, ret, called>>
    <3>1. TypeOK'
      BY <2>3, <2>5, Zenon DEF Inv, TypeOK, DataOK
    <3>2. PositionInv'
      BY <2>1, <2>3, <2>5, Zenon DEF Inv, PositionInv, Needs, Fresh, Downloaded, Installed, Verified
    <3>3. StoredInv'
      BY <2>1, <2>2, <2>3, <2>4, <2>5, Zenon DEF Inv, StoredInv, Quiet, Fresh, Downloaded, Installed
    <3>4. CallInv'
      BY <2>1, <2>5, Zenon DEF CallInv
    <3> QED BY <3>1, <3>2, <3>3, <3>4, Zenon DEF Inv
  <2>6. CASE StoreFailed /\ HandleError(cur, "fatal")
    <3>1. stateData' = stateData /\ (cur.id = "ReportError" => stateData.name # "Reboot")
      BY <2>6, Zenon DEF StoreFailed, Inv, StoredInv, Quiet
    <3> QED BY <2>1, <2>3, <2>6, <3>1, <1>ErrorKeeps, Zenon
  <2>7. CASE StoreExceeded(cur.id, upd)
    BY <2>1, <2>3, <2>4, <2>7, <1>ExceededEnds, Zenon
  <2> QED BY <2>5, <2>6, <2>7, Zenon DEF StoreState

\* The enter scripts run.
<1>EnterInv.
    ASSUME Inv, Enter
    PROVE  Inv'
  <2> USE <1>EnterInv
  <2>1. CASE pc' = "handle" /\ UNCHANGED <<cur, to, call, ret, called>>
    <3>1. pc = "enter" /\ UNCHANGED <<memory, disk, backend, world>>
      BY Zenon DEF Enter
    <3>2. TypeOK'
      BY <2>1, <3>1, Zenon DEF Inv, TypeOK, memory, disk, backend, world
    <3>3. PositionInv' /\ StoredInv'
      BY <2>1, <3>1, Zenon DEF Inv, PositionInv, StoredInv, Needs, Quiet, Fresh, Downloaded, Installed,
                        Verified, memory, disk, world
    <3>4. CallInv'
      BY <2>1, <3>1, Zenon DEF Inv, CallInv
    <3> QED BY <3>2, <3>3, <3>4, Zenon DEF Inv
  <2> QED BY <2>1, <1>ScriptFails, Zenon DEF Enter

\* The artifact is marked as broken.
<1>SetBrokenArtifactFlagInv.
    ASSUME Inv, SetBrokenArtifactFlag
    PROVE  Inv'
  <2> USE <1>SetBrokenArtifactFlagInv
  <2>1. /\ pc = "flag" /\ pc' = "transit" /\ artifactName' \in {artifactName, "broken"}
        /\ UNCHANGED <<cur, to, call, ret, called, memory, stateData, backend, deployments, crashes,
                       finished>>
    BY Zenon DEF SetBrokenArtifactFlag
  <2>2. TypeOK'
    <3>1. cut' \in BOOLEAN
      BY Zenon DEF SetBrokenArtifactFlag
    <3> QED BY <2>1, <3>1, Zenon DEF Inv, TypeOK, memory, backend
  <2>3. PositionInv' /\ StoredInv'
    BY <2>1, Zenon DEF Inv, PositionInv, StoredInv, Needs, Quiet, Fresh, Downloaded, Installed,
                Verified, memory
  <2>4. CallInv'
    BY <2>1, Zenon DEF Inv, CallInv
  <2> QED BY <2>2, <2>3, <2>4, Zenon DEF Inv

(* The payload and the machine.                                            *)

\* So does the most general payload, whatever it answers.
<1>AnswerInv.
    ASSUME Inv, Answer
    PROVE  Inv'
  <2> USE <1>AnswerInv
  <2>1. PICK r \in Answers(call) : AnswerWith(r)
    BY Zenon DEF Answer
  <2>2. /\ r \in {"ok", "err", "supported", "unsupported", "no reboot", "custom", "automatic"}
        /\ call = "SupportsRollback" => r \in {"err", "supported", "unsupported"}
        /\ call = "NeedsArtifactReboot" => r \in {"err", "no reboot", "custom", "automatic"}
    BY ChoicesAssumption, Zenon DEF Answers
  <2> QED BY <2>1, <2>2, AnswerWithInv, Zenon

<1> SUFFICES ASSUME Inv, [Next]_vars PROVE Inv'
  OBVIOUS
<1>1. CASE Daemon
  BY <1>1, <1>HandleInv, <1>ExitInv, <1>TransitInv, <1>StoreStateInv, <1>EnterInv,
     <1>SetBrokenArtifactFlagInv,
     <1>ScriptFails, Zenon DEF Daemon, LeaveFails
<1>2. CASE Answer
  BY <1>2, <1>AnswerInv, Zenon
<1>3. CASE Machine
  BY <1>3, MachineInv, Zenon
<1>4. CASE Signal
  BY <1>4, <1>ForceInv, Zenon DEF Signal
<1>5. CASE UNCHANGED vars
  <2>1. TypeOK'
    BY ZenonT(60), <1>5 DEF vars, Inv, TypeOK
  <2>2. PositionInv'
    BY <1>5, Zenon DEF vars, Inv, PositionInv, Needs, Fresh, Downloaded, Installed, Verified
  <2>3. StoredInv'
    BY <1>5, Zenon DEF vars, Inv, StoredInv, Quiet, Fresh, Downloaded, Installed
  <2>4. CallInv'
    BY <1>5, Zenon DEF vars, Inv, CallInv, Fresh, Downloaded, Installed
  <2> QED BY <2>1, <2>2, <2>3, <2>4, Zenon DEF Inv
<1> QED BY <1>1, <1>2, <1>3, <1>4, <1>5, Zenon DEF Next

\* The invariant holds in every state of every behaviour.
LEMMA SpecInv == Spec => []Inv
BY InitInv, NextInv, PTL DEF Spec

\* Every variable of the daemon keeps its type, for every bound and every
\* choice of faults: no handler builds a malformed state, the store count
\* written to the database stays within MaximumStateDataStoreCount, and only
\* payload operations are called.
THEOREM TypeCorrect == Spec => []TypeOK
<1>1. Inv => TypeOK
  BY Zenon DEF Inv
<1> QED BY <1>1, SpecInv, PTL

\* updateCommitState commits only a payload that was downloaded and installed,
\* was not rolled back, and passed ArtifactVerifyReboot if it asked for a
\* reboot, however often the daemon is interrupted and resumed by initState.
THEOREM CommitIsVerified == Spec => []CommitVerified
<1>1. Inv => CommitVerified
  BY Zenon DEF Inv, PositionInv, CallInv, Needs, Verified, Installed, Downloaded, Fresh, CommitVerified
<1> QED BY <1>1, SpecInv, PTL
==============================================================================
