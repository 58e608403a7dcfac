---------------------------- MODULE OutcomeProofs ----------------------------
(***************************************************************************)
(* How every deployment is accounted for when it is over, whatever the     *)
(* payload, the scripts and the server do and however often the daemon is  *)
(* interrupted, as long as the database can be written; and which way a    *)
(* deployment takes on a device with two root filesystems.                 *)
(***************************************************************************)
EXTENDS UpdateRefinementProofs

\* The states in which no update is in progress, and an absent entry.
Resting == {"Idle", "AuthorizeWait", "Authorize", "CheckWait", "InventoryUpdate", "UpdateCheck",
            "Error", "none"}
Fetching == {"UpdateFetch", "FetchStoreRetry"}
Carrying == UpdateStates \union {"FetchStoreRetry", "PreCommitRetry"}

Unpacked == "Download" \in called
Touched == "ArtifactInstall" \in called

\* What must have been done by the time a state of this kind is reached, or
\* its name is in the database, on a device with this artifact name.
Due(id, name) ==
    /\ id \in Fetching => ~Unpacked
    /\ id \in {"UpdateStore", "AfterStore"} => ~Touched
    /\ id \in {"UpdateError", "Cleanup"} \union Final \union Resting =>
           (Touched /\ name = "prev" => "ArtifactRollback" \in finished)
    /\ id \in {"Cleanup"} \union Final \union Resting =>
           (Touched /\ name = "prev" => "ArtifactFailure" \in called)
    /\ id \in Final \union Resting => (Unpacked /\ ~cut => "Cleanup" \in called)

\* The artifact's name once the flag that is due is set.
Named == IF pc = "flag" THEN "broken" ELSE artifactName

\* The loop detection has just ended the deployment, and the flag is due.
CutShort == pc = "flag" /\ to.id = "StatusReport"

\* While an update that was unpacked is carried on, its payload is known and
\* its installers are there to be called.
MemoryInv ==
    Unpacked /\ (cur.id \in Carrying \/ to.id \in Carrying) =>
        /\ upd.payload
        /\ inst = "none" => Named = "broken" /\ (cut \/ CutShort)

PathInv ==
    /\ cur.id = "AfterStore" => ~Touched
    /\ cur.id = "PreCommitRetry" => pc # "enter"
    /\ to.id = "PreCommitRetry" => cur.id \in {"Commit", "PreCommitRetry"}
    /\ to.id = "UpdateStore" /\ call \in {"none", "ReadHeaders"} => ~Unpacked

HistoryInv ==
    /\ finished \subseteq called
    /\ Touched => Unpacked

TargetInv == CutShort \/ Due(to.id, Named)

AccountInv ==
    /\ HistoryInv
    /\ PathInv
    /\ MemoryInv
    /\ TargetInv
    /\ cur.id \in Resting => Due(cur.id, artifactName)
    /\ Due(stateData.name, artifactName)
    /\ Unpacked /\ stateData # NoEntry => stateData.info.payload

------------------------------------------------------------------------------
(* The signal, the payload and the machine.                                *)

\* What the step leaves alone in most cases.
NothingElse == UNCHANGED <<upd, inst, stateData, artifactName, finished, cut>>

\* States of an update that is under way owe nothing.
Underway == {"Install", "Reboot", "VerifyReboot", "AfterReboot", "Commit", "PreCommitRetry", "Rollback"}
            \union Committed \union RolledBack

\* A signal forces another state at rest.
LEMMA ForceAccount ==
    ASSUME Inv, AccountInv, NEW id \in {"UpdateCheck", "InventoryUpdate"}, ForceToState(id)
    PROVE  AccountInv'
<1>1. /\ UNCHANGED <<cur, pc, call, called>> /\ NothingElse /\ to' = Plain(id)
      /\ pc = "transit" /\ to.id \in {"Idle", "CheckWait", "UpdateCheck", "InventoryUpdate"}
  BY Zenon DEF ForceToState, memory, disk, world, NothingElse
<1>2. to'.id = id
  BY <1>1, PlainShape, Zenon DEF StateIds
<1>3. HistoryInv' /\ PathInv'
  BY <1>1, <1>2, Zenon DEF AccountInv, HistoryInv, PathInv, Touched, Unpacked, NothingElse
<1>4. MemoryInv'
  BY <1>1, <1>2, Zenon DEF AccountInv, MemoryInv, Named, CutShort, Unpacked, NothingElse, Carrying, UpdateStates
<1>5. TargetInv'
  BY <1>1, <1>2, Zenon DEF AccountInv, Due, TargetInv, Named, CutShort, Touched, Unpacked, NothingElse, Fetching, Final, Resting
<1>6. /\ (cur.id \in Resting => Due(cur.id, artifactName))'
      /\ Due(stateData.name, artifactName)'
  BY <1>1, Zenon DEF AccountInv, Due, Touched, Unpacked, NothingElse
<1> QED BY <1>1, <1>3, <1>4, <1>5, <1>6, Zenon DEF AccountInv, Unpacked, NothingElse

\* A new process has nothing but what is on disk.
LEMMA RestartAccount ==
    ASSUME Inv, AccountInv, Restart, finished' \subseteq called, finished \subseteq finished'
    PROVE  AccountInv'
<1>1. /\ cur' = Plain("Init") /\ to' = Plain("Init") /\ pc' = "handle"
      /\ UNCHANGED <<called, stateData, artifactName, cut>>
  BY Zenon DEF Restart, disk
<1>2. Plain("Init").id = "Init"
  BY PlainShape, Zenon DEF StateIds
<1>3. HistoryInv' /\ PathInv' /\ MemoryInv'
  BY <1>1, <1>2, Zenon DEF AccountInv, HistoryInv, PathInv, MemoryInv, CutShort, Touched, Unpacked, Carrying,
     UpdateStates
<1>4. /\ TargetInv' /\ (cur.id \in Resting => Due(cur.id, artifactName))'
  BY <1>1, <1>2, Zenon DEF TargetInv, CutShort, Due, Fetching, Final, Resting
<1>5. Due(stateData.name, artifactName)'
  BY <1>1, Zenon DEF AccountInv, Due, Touched, Unpacked
<1> QED BY <1>1, <1>3, <1>4, <1>5, Zenon DEF AccountInv, Unpacked

\* An answer adds to what has succeeded.
LEMMA AnswerAccount ==
    ASSUME Inv, OutcomeInv, AccountInv, NEW r, AnswerWith(r)
    PROVE  AccountInv'
<1>1. /\ UNCHANGED <<cur, to, pc, call, called, upd, inst, stateData, artifactName, cut>>
      /\ finished \subseteq finished' /\ finished' \subseteq finished \union {call}
      /\ call \in called
  BY Zenon DEF AnswerWith, memory, disk, OutcomeInv, InProgressInv
<1>2. HistoryInv' /\ PathInv' /\ MemoryInv' /\ Named' = Named
  BY <1>1, Zenon DEF AccountInv, HistoryInv, PathInv, MemoryInv, Touched, Unpacked, Named, CutShort
<1>3. /\ TargetInv' /\ (cur.id \in Resting => Due(cur.id, artifactName))'
      /\ Due(stateData.name, artifactName)'
  BY <1>1, <1>2, Zenon DEF AccountInv, TargetInv, CutShort, Due, Touched, Unpacked
<1> QED BY <1>1, <1>2, <1>3, Zenon DEF AccountInv, Unpacked

\* A new process starts.
LEMMA MachineAccount ==
    ASSUME Inv, OutcomeInv, AccountInv, Machine
    PROVE  AccountInv'
<1>1. /\ Restart /\ finished \subseteq finished'
      /\ finished' \subseteq finished \union ({call} \ {"none"})
  BY Zenon DEF Machine, Reboots, Crash, StartAgain, RebootOps
<1>2. finished' \subseteq called
  BY <1>1, Zenon DEF AccountInv, HistoryInv, OutcomeInv, InProgressInv
<1> QED BY <1>1, <1>2, RestartAccount, Zenon

------------------------------------------------------------------------------
(* The steps of the daemon.                                                *)

\* Every step of the daemon keeps it.
LEMMA DaemonAccount ==
    Inv /\ OutcomeInv /\ AccountInv /\ Daemon /\ "db" \notin Faults => AccountInv'
(* The ways a step of the daemon ends.                                     *)

\* The daemon goes to state s, with or without the flag being due.
<1>Settles.
    ASSUME AccountInv, pc # "flag", NEW s, NEW name, NothingElse,
           \/ Goto(s) /\ name = artifactName
           \/ GotoBroken(s) /\ name = "broken",
           Due(s.id, name),
           cur.id \in Carrying \/ s.id \notin Carrying \/ ~Unpacked,
           s.id = "PreCommitRetry" => cur.id = "Commit",
           s.id = "UpdateStore" => ~Unpacked
    PROVE  AccountInv'
  <2> USE <1>Settles
  <2>1. /\ to' = s /\ cur' = cur /\ called' = called /\ call' = "none"
        /\ pc' \in {"transit", "flag"} /\ Named' = name
        /\ UNCHANGED <<upd, inst, stateData, artifactName, finished, cut>>
    BY Zenon DEF Goto, GotoBroken, Named, CutShort, NothingElse
  <2>2. HistoryInv'
    BY <2>1, Zenon DEF AccountInv, HistoryInv, Touched, Unpacked
  <2>3. PathInv'
    BY <2>1, Zenon DEF AccountInv, PathInv, Touched, Unpacked
  <2>4. MemoryInv'
    <3>1. name # "broken" => Named = name
      BY Zenon DEF Named, CutShort
    <3> QED BY <2>1, <3>1, Zenon DEF AccountInv, MemoryInv, CutShort, Unpacked
  <2>5. TargetInv'
    BY <2>1, Zenon DEF TargetInv, CutShort, Due, Touched, Unpacked
  <2>6. /\ (cur.id \in Resting => Due(cur.id, artifactName))'
        /\ Due(stateData.name, artifactName)'
    BY <2>1, Zenon DEF AccountInv, Due, Touched, Unpacked
  <2>7. (Unpacked /\ stateData # NoEntry => stateData.info.payload)'
    BY <2>1, Zenon DEF AccountInv, Unpacked
  <2> QED BY <2>2, <2>3, <2>4, <2>5, <2>6, <2>7, Zenon DEF AccountInv

\* A call begins.  Only a state that owes nothing calls the installation.
<1>Begins.
    ASSUME Inv, AccountInv, pc = "handle", NEW op \in Operations \ {"Download"}, Call(op), NothingElse,
           op = "ArtifactInstall" => cur.id = "Install",
           op = "ReadHeaders" => call = "none"
    PROVE  AccountInv'
  <2> USE <1>Begins
  <2>1. /\ to' = to /\ cur' = cur /\ pc' = pc /\ called' = called \union {op} /\ call' = op
        /\ UNCHANGED <<upd, inst, stateData, artifactName, finished, cut>> /\ to = cur
    BY Zenon DEF Call, Inv, PositionInv, NothingElse
  <2>2. Unpacked' = Unpacked /\ (op # "ArtifactInstall" => Touched' = Touched)
    BY <2>1 DEF Unpacked, Touched
  <2>3. op = "ArtifactInstall" => Unpacked /\ stateData.name = "Install"
    BY InHandle, Zenon DEF AccountInv, HistoryInv, Needs, Downloaded, Unpacked, StoredName, UpdateStates
  <2>4. HistoryInv'
    BY <2>1, <2>2, <2>3 DEF AccountInv, HistoryInv
  <2>5. PathInv'
    BY <2>1, <2>2 DEF AccountInv, PathInv, Operations
  <2>6. MemoryInv'
    BY <2>1, <2>2, Zenon DEF AccountInv, MemoryInv, Named, CutShort
  <2>7. /\ TargetInv' /\ (cur.id \in Resting => Due(cur.id, artifactName))'
        /\ Due(stateData.name, artifactName)'
    BY <2>1, <2>2, <2>3 DEF AccountInv, TargetInv, Due, Named, CutShort, Fetching, Final, Resting
  <2> QED BY <2>1, <2>2, <2>4, <2>5, <2>6, <2>7, Zenon DEF AccountInv

\* HandleError leads to a state that owes nothing, or marks the artifact.
<1>ErrorSettles.
    ASSUME Inv, AccountInv, pc # "flag", NEW s \in State, s = cur \/ s = Plain("Commit"),
           NEW severity \in {"transient", "fatal"}, HandleError(s, severity), NothingElse,
           cur.id \in Carrying \/ (s = cur /\ cur.id \in Resting),
           s.id \in EndsUpdate \ {"ReportError"} \/ s.id \in Resting \union Fetching,
           s.id = "UpdateStore" => ~Touched,
           s.id \in Fetching => ~Unpacked
    PROVE  AccountInv'
  <2> USE <1>ErrorSettles
  <2>1. CASE s.id \in {"UpdateStore", "AfterStore"}
    <3> DEFINE t == Make("Cleanup", "failure")
    <3>1. Goto(t) /\ t.id = "Cleanup"
      BY <2>1, MakeShape, Zenon DEF HandleError, StateIds, UpdateStates, Statuses
    <3>2. s = cur /\ ~Touched
      BY <2>1, PlainShape, Zenon DEF StateIds, UpdateStates, AccountInv, PathInv
    <3> HIDE DEF t
    <3>3. Due(t.id, artifactName)
      BY <3>1, <3>2, Zenon DEF Due, Fetching, Final, Resting
    <3> QED BY <2>1, <3>1, <3>2, <3>3, <1>Settles, Zenon DEF Carrying, UpdateStates
  <2>2. CASE s.id \in {"AfterFirstCommit", "AfterCommit"}
    <3> DEFINE t == Make("Cleanup", "failure")
    <3>1. GotoBroken(t) /\ t.id = "Cleanup"
      BY <2>2, MakeShape, Zenon DEF HandleError, StateIds, UpdateStates, Statuses
    <3>2. s = cur
      BY <2>2, PlainShape, Zenon DEF StateIds, UpdateStates
    <3> HIDE DEF t
    <3>3. Due(t.id, "broken")
      BY <3>1, Zenon DEF Due, Fetching, Final, Resting
    <3> QED BY <2>2, <3>1, <3>2, <3>3, <1>Settles, Zenon DEF Carrying, UpdateStates
  <2>3. ASSUME NEW t, t.id \in {"RollbackReboot", "VerifyRollbackReboot", "Rollback"}, Goto(t),
               cur.id \in Carrying
        PROVE  AccountInv'
    <3>1. Due(t.id, artifactName)
      BY <2>3, Zenon DEF Due, Fetching, Final, Resting
    <3> QED BY <2>3, <3>1, <1>Settles, Zenon
  <2>4. ASSUME NEW t, t.id = "UpdateError", GotoBroken(t), cur.id \in Carrying
        PROVE  AccountInv'
    <3>1. Due(t.id, "broken")
      BY <2>4, Zenon DEF Due, Fetching, Final, Resting
    <3> QED BY <2>4, <3>1, <1>Settles, Zenon
  <2>5. /\ Plain("Rollback").id = "Rollback" /\ Plain("UpdateError").id = "UpdateError"
        /\ Plain("RollbackReboot").id = "RollbackReboot"
        /\ Plain("VerifyRollbackReboot").id = "VerifyRollbackReboot" /\ Plain("Commit").id = "Commit"
    BY PlainShape, Zenon DEF StateIds, UpdateStates
  <2>6. CASE s.id \in {"Rollback", "RollbackReboot", "VerifyRollbackReboot"}
    <3>1. cur.id \in Carrying
      BY <2>5, <2>6, Zenon DEF Carrying, UpdateStates
    <3> QED BY <2>3, <2>4, <2>5, <2>6, <3>1 DEF HandleError
  <2>7. CASE s.id \in {"Install", "Reboot", "VerifyReboot", "AfterReboot", "Commit",
                       "AfterRollbackReboot", "Cleanup", "StatusReport"}
    <3>1. RollbackOrFail(upd)
      BY <2>7, Zenon DEF HandleError
    <3>2. CASE cur.id \in Carrying
      BY <2>3, <2>4, <2>5, <3>1, <3>2 DEF RollbackOrFail
    <3> QED BY <2>5, <2>7, <3>2, Zenon DEF Carrying, UpdateStates, Resting
  <2>8. CASE s.id \in Resting \union Fetching
    <3> DEFINE t == Make("Error", severity)
    <3>1. Goto(t) /\ t.id = "Error"
      BY <2>8, MakeShape DEF HandleError, StateIds, Statuses, Resting, Fetching
    <3>2. s = cur
      BY <2>5, <2>8, Zenon DEF Resting, Fetching
    <3> HIDE DEF t
    <3>3. Due(t.id, artifactName)
      BY <2>8, <3>1, <3>2, Zenon DEF AccountInv, HistoryInv, Due, Fetching, Final, Resting
    <3> QED BY <3>1, <3>3, <1>Settles, Zenon DEF Carrying, UpdateStates
  <2> QED BY <2>1, <2>2, <2>6, <2>7, <2>8, Zenon DEF EndsUpdate

(* The actions: Run.                                                       *)

\* Nothing but the position in the iteration changes.
<1>RunAccount.
    ASSUME Inv, AccountInv, Exit \/ Transit
    PROVE  AccountInv'
  <2> USE <1>RunAccount
  <2>1. /\ UNCHANGED <<to, call, called>> /\ NothingElse
        /\ cur' \in {cur, to} /\ pc = "transit" /\ pc' # "flag" /\ call = "none"
        /\ Named = artifactName /\ Named' = artifactName
    BY Zenon DEF Exit, Transit, Inv, CallInv, memory, disk, world, NothingElse, Named, CutShort
  <2>2. HistoryInv' /\ MemoryInv'
    BY <2>1, Zenon DEF AccountInv, HistoryInv, MemoryInv, CutShort, Touched, Unpacked, NothingElse
  <2>3. PathInv'
    <3>1. cur' # cur /\ to.id = "PreCommitRetry" => pc' # "enter"
      <4>1. Transit /\ to.id = "PreCommitRetry" => Transition(cur) = Transition(to)
        BY Zenon DEF AccountInv, PathInv, Transition
      <4> QED BY <2>1, <4>1, Zenon DEF Transit, Exit, UpdateStates
    <3>2. cur' = cur /\ cur.id = "PreCommitRetry" => pc' # "enter"
      <4>1. Transit /\ cur' = cur /\ cur.id = "PreCommitRetry" => Transition(cur) = Transition(to)
        BY Zenon DEF Transit
      <4> QED BY <2>1, <4>1, Zenon DEF Transit, Exit, UpdateStates
    <3> QED BY <2>1, <3>1, <3>2, Zenon DEF AccountInv, PathInv, TargetInv, CutShort, Due, Touched, Unpacked
  <2>4. /\ TargetInv' /\ (cur.id \in Resting => Due(cur.id, artifactName))'
        /\ Due(stateData.name, artifactName)'
    BY <2>1, Zenon DEF AccountInv, TargetInv, CutShort, Due, Touched, Unpacked, NothingElse
  <2> QED BY <2>1, <2>2, <2>3, <2>4, Zenon DEF AccountInv, Unpacked, NothingElse

\* A script fails when the current state is left.
<1>LeaveFailsAccount.
    ASSUME Inv, AccountInv, LeaveFails
    PROVE  AccountInv'
  <2> USE <1>LeaveFailsAccount
  <2>1. /\ HandleError(cur, "transient") /\ cur \in State /\ pc # "flag" /\ NothingElse
    BY Zenon DEF LeaveFails, memory, disk, world, Inv, TypeOK, NothingElse
  <2>2. /\ cur.id \in EndsUpdate \ {"ReportError", "UpdateStore"} \/ cur.id \in Resting
        /\ cur.id \in Carrying \/ cur.id \in Resting
        /\ cur.id \notin Fetching /\ cur.id # "UpdateStore"
    BY <2>1, StateShape, Zenon DEF LeaveFails, LeaveCanFail, Transition, EndsUpdate, Resting, Carrying,
       Fetching, StateIds, UpdateStates
  <2> QED BY <2>1, <2>2, <1>ErrorSettles, Zenon

\* A script fails when the current state is entered.
<1>EnterAccount.
    ASSUME Inv, AccountInv, Enter
    PROVE  AccountInv'
  <2> USE <1>EnterAccount
  <2>1. /\ pc = "enter" /\ cur \in State /\ NothingElse /\ to = cur /\ call = "none"
    BY Zenon DEF Enter, memory, disk, world, Inv, TypeOK, NothingElse, PositionInv, CallInv
  <2>2. CASE pc' = "handle" /\ UNCHANGED <<cur, to, call, ret, called>>
    <3>1. Named = artifactName /\ Named' = artifactName
      BY <2>1, <2>2, Zenon DEF Named, CutShort, NothingElse
    <3>2. HistoryInv' /\ MemoryInv' /\ PathInv'
      BY <2>1, <2>2, <3>1, Zenon DEF AccountInv, HistoryInv, MemoryInv, CutShort, PathInv, Touched, Unpacked, NothingElse
    <3> QED BY <2>1, <2>2, <3>1, <3>2, Zenon DEF AccountInv, TargetInv, CutShort, Due, Touched, Unpacked, NothingElse
  <2>3. CASE Transition(cur) \in EnterCanFail /\ HandleError(cur, "transient")
    <3>1. /\ cur.id \in EndsUpdate \ {"ReportError"} \/ cur.id \in Resting \union Fetching
          /\ cur.id \in Carrying \/ cur.id \in Resting
      BY <2>1, <2>3, StateShape, Zenon DEF EnterCanFail, Transition, EndsUpdate, Resting, Carrying,
         Fetching, StateIds, UpdateStates, AccountInv, PathInv
    <3>2. /\ cur.id = "UpdateStore" => ~Touched
          /\ cur.id \in Fetching => ~Unpacked
      BY <2>1, Zenon DEF AccountInv, TargetInv, CutShort, Due
    <3> QED BY <2>1, <2>3, <3>1, <3>2, <1>ErrorSettles, Zenon
  <2> QED BY <2>2, <2>3, Zenon DEF Enter

\* The artifact is marked as broken, as it was to be.
<1>FlagAccount.
    ASSUME Inv, AccountInv, SetBrokenArtifactFlag, "db" \notin Faults
    PROVE  AccountInv'
  <2> USE <1>FlagAccount
  <2>1. /\ UNCHANGED <<cur, to, call, called, upd, inst, stateData, finished>>
        /\ (cut => cut') /\ (CutShort => cut')
        /\ pc = "flag" /\ pc' = "transit" /\ artifactName' = "broken"
        /\ Named = "broken" /\ Named' = "broken"
    BY DEF SetBrokenArtifactFlag, memory, Named, CutShort
  <2>2. HistoryInv' /\ MemoryInv' /\ PathInv'
    BY <2>1, Zenon DEF AccountInv, HistoryInv, MemoryInv, PathInv, Touched, Unpacked
  <2>3. /\ TargetInv' /\ (cur.id \in Resting => Due(cur.id, artifactName))'
        /\ Due(stateData.name, artifactName)'
    <3>1. CutShort => Due(to.id, Named)'
      BY <2>1, Zenon DEF Due, CutShort, Fetching, Final, Resting
    <3>2. Due(to.id, Named) => Due(to.id, Named)'
      BY <2>1, Zenon DEF Due, Touched, Unpacked
    <3>3. /\ (cur.id \in Resting => Due(cur.id, artifactName))'
          /\ Due(stateData.name, artifactName)'
      BY <2>1, Zenon DEF AccountInv, Due, Touched, Unpacked
    <3> QED BY <3>1, <3>2, <3>3, Zenon DEF AccountInv, TargetInv
  <2> QED BY <2>1, <2>2, <2>3, Zenon DEF AccountInv, Unpacked

\* The count has run out: the artifact is to be marked as broken.
<1>ExceededAccount.
    ASSUME AccountInv, NEW info, StoreExceeded(cur.id, info), "db" \notin Faults,
           cur.id \in UpdateStates, Due(cur.id, artifactName), UNCHANGED <<finished, cut>>,
           artifactName' = artifactName \/ cur.id = "Commit",
           Unpacked => info.payload /\ upd'.payload
    PROVE  AccountInv'
  <2> USE <1>ExceededAccount
  <2> DEFINE s == Make("StatusReport", "failure")
  <2>1. s.id = "StatusReport"
    BY MakeShape DEF StateIds, UpdateStates, Statuses
  <2>2. /\ to' = s /\ cur' = cur /\ called' = called /\ call' = "none" /\ pc' = "flag"
        /\ Named' = "broken" /\ finished' = finished /\ cut' = cut
        /\ stateData'.name = StoredName(cur.id) /\ stateData'.info = info
    BY DEF StoreExceeded, GotoBroken, Named, CutShort, WriteState
  <2> HIDE DEF s
  <2>3. HistoryInv' /\ PathInv'
    BY <2>1, <2>2, Zenon DEF AccountInv, HistoryInv, PathInv, Touched, Unpacked
  <2>4. MemoryInv'
    BY <2>1, <2>2, Zenon DEF MemoryInv, CutShort, Unpacked
  <2>5. TargetInv'
    BY <2>1, <2>2, Zenon DEF TargetInv, CutShort, Due, Fetching, Final, Resting
  <2>6. Due(stateData.name, artifactName)' /\ cur.id \notin Resting
    <3>1. StoredName(cur.id) \in {cur.id, "AfterReboot"} /\ (cur.id = "Commit" => StoredName(cur.id) = "Commit")
      BY Zenon DEF StoredName
    <3>2. CASE cur.id = "Commit" \/ StoredName(cur.id) = "AfterReboot"
      BY <2>2, <3>1, <3>2, Zenon DEF Due, Fetching, Final, Resting, UpdateStates
    <3>3. CASE artifactName' = artifactName /\ StoredName(cur.id) = cur.id
      <4>1. cur.id \notin Resting
        BY Zenon DEF Resting, UpdateStates
      <4>2. Due(stateData.name, artifactName)' = Due(cur.id, artifactName)
        BY <2>2, <3>3 DEF Due, Touched, Unpacked
      <4> QED BY <4>1, <4>2, Zenon
    <3> QED BY <3>1, <3>2, <3>3, Zenon
  <2> QED BY <2>2, <2>3, <2>4, <2>5, <2>6, Zenon DEF AccountInv, Unpacked

\* transitionState stores the state it has entered.
<1>StoreStateAccount.
    ASSUME Inv, AccountInv, StoreState, "db" \notin Faults
    PROVE  AccountInv'
  <2> USE <1>StoreStateAccount
  <2>1. /\ UNCHANGED <<upd, inst, artifactName, finished, cut>> /\ to = cur /\ call = "none"
        /\ pc \in {"store", "store then enter"} /\ cur.id \in UpdateStates
    BY Zenon DEF StoreState, memory, world, Inv, PositionInv, CallInv
  <2>2. Due(cur.id, artifactName) /\ (Unpacked => upd.payload)
    BY <2>1, Zenon DEF AccountInv, TargetInv, Named, CutShort, MemoryInv, Carrying
  <2>3. CASE /\ Stored(cur.id, upd) /\ pc' \in {"handle", "enter"}
             /\ UNCHANGED <<cur, to, call, ret, called>>
    <3>1. stateData'.name = StoredName(cur.id) /\ stateData'.info = upd
      BY <2>3, Zenon DEF Stored, WriteState
    <3>2. Named = artifactName /\ Named' = artifactName
      BY <2>1, <2>3, Zenon DEF Named, CutShort
    <3>3. HistoryInv' /\ MemoryInv' /\ PathInv'
      BY <2>1, <2>3, <3>2, Zenon DEF AccountInv, HistoryInv, MemoryInv, CutShort, PathInv, Touched, Unpacked,
         UpdateStates
    <3>4. TargetInv' /\ (cur.id \in Resting => Due(cur.id, artifactName))'
      BY <2>1, <2>3, <3>2, Zenon DEF AccountInv, TargetInv, CutShort, Due, Touched, Unpacked
    <3>5. Due(stateData.name, artifactName)'
      BY <2>1, <2>2, <2>3, <3>1, Zenon DEF Due, StoredName, Touched, Unpacked, Fetching, Final, Resting
    <3> QED BY <2>1, <2>2, <2>3, <3>1, <3>3, <3>4, <3>5, Zenon DEF AccountInv, Unpacked
  <2>4. CASE StoreExceeded(cur.id, upd)
    BY <2>1, <2>2, <2>4, <1>ExceededAccount, Zenon
  <2> QED BY <2>3, <2>4, Zenon DEF StoreState, StoreFailed

(* The actions: the states outside of an update, and a restart.            *)

\* A step from one state at rest to another.
<1>Rests.
    ASSUME AccountInv, pc = "handle", cur.id \in Resting, NEW s, Goto(s), s.id \in Resting, NothingElse
    PROVE  AccountInv'
  <2> USE <1>Rests
  <2>1. Due(s.id, artifactName)
    BY Zenon DEF AccountInv, Due, Fetching, Final, Resting
  <2>2. s.id \notin Carrying /\ s.id # "PreCommitRetry" /\ s.id # "UpdateStore"
    BY Zenon DEF Resting, Carrying, UpdateStates
  <2> QED BY <2>1, <2>2, <1>Settles, Zenon

\* The states outside of an update lead to each other.
<1>RestAccount.
    ASSUME Inv, AccountInv, AuthorizeWait \/ Authorize \/ CheckWait \/ InventoryUpdate \/ Error
    PROVE  AccountInv'
  <2> USE <1>RestAccount
  <2>1. pc = "handle" /\ cur.id \in Resting /\ NothingElse
    BY Zenon DEF AuthorizeWait, Authorize, CheckWait, InventoryUpdate, Error, Handling, Resting,
           memory, disk, world, NothingElse
  <2>2. PICK s \in {Plain("Idle"), Plain("Authorize"), Plain("AuthorizeWait"), Plain("CheckWait"),
                    Plain("UpdateCheck"), Plain("InventoryUpdate"), Make("Error", "transient"),
                    Make("Error", "fatal")} : Goto(s)
    BY Zenon DEF AuthorizeWait, Authorize, CheckWait, InventoryUpdate, Error
  <2>3. s.id \in Resting
    BY PlainShape, MakeShape DEF StateIds, Statuses, Resting
  <2> QED BY <2>1, <2>2, <2>3, <1>Rests, Zenon

\* The update is over for good: Idle removes the state data.
<1>IdleAccount.
    ASSUME Inv, AccountInv, Idle, "db" \notin Faults
    PROVE  AccountInv'
  <2> USE <1>IdleAccount
  <2>1. PICK s \in {Plain("CheckWait"), Plain("AuthorizeWait")} : Goto(s)
    BY Zenon DEF Idle
  <2>2. s.id \in {"CheckWait", "AuthorizeWait"}
    BY PlainShape, Zenon DEF StateIds
  <2>3. /\ pc = "handle" /\ cur.id = "Idle" /\ stateData' = NoEntry
        /\ UNCHANGED <<upd, inst, artifactName, finished, cut>>
        /\ to' = s /\ cur' = cur /\ called' = called /\ call' = "none" /\ pc' = "transit"
        /\ Due("Idle", artifactName)
    BY <2>1, Zenon DEF Idle, Handling, memory, world, Goto, AccountInv, Resting
  <2>4. HistoryInv' /\ PathInv'
    BY <2>2, <2>3, Zenon DEF AccountInv, HistoryInv, PathInv, Touched, Unpacked
  <2>5. MemoryInv'
    BY <2>2, <2>3, Zenon DEF MemoryInv, CutShort, Carrying, UpdateStates
  <2>6. /\ TargetInv' /\ Due(cur.id, artifactName)' /\ Due(stateData.name, artifactName)'
    BY <2>2, <2>3, NothingKnown, Zenon DEF TargetInv, Due, Named, CutShort, Touched, Unpacked, Fetching, Final, Resting
  <2> QED BY <2>3, <2>4, <2>5, <2>6, Zenon DEF AccountInv

\* A deployment begins, and owes nothing yet.
<1>UpdateCheckAccount.
    ASSUME Inv, AccountInv, UpdateCheck
    PROVE  AccountInv'
  <2> USE <1>UpdateCheckAccount
  <2>1. pc = "handle" /\ cur.id = "UpdateCheck"
    BY Zenon DEF UpdateCheck, Handling
  <2>2. CASE NewDeployment /\ to' \in {Plain("UpdateFetch"), Make("StatusReport", "already")}
    <3>1. called' = {} /\ finished' = {} /\ cur' = cur
      BY <2>2, Zenon DEF NewDeployment
    <3>2. to'.id \in {"UpdateFetch", "StatusReport"}
      BY <2>2 DEF Plain, Make
    <3> QED BY <2>1, <3>1, <3>2, Zenon DEF AccountInv, HistoryInv, PathInv, MemoryInv, CutShort, TargetInv, Due, Touched, Unpacked
  <2>3. CASE /\ Goto(Plain("CheckWait")) \/ Goto(Make("Error", "transient"))
             /\ UNCHANGED <<memory, disk, backend, world>>
    <3>1. Plain("CheckWait").id = "CheckWait" /\ Make("Error", "transient").id = "Error"
      BY PlainShape, MakeShape DEF StateIds, Statuses
    <3> QED BY <2>1, <2>3, <3>1, <1>Rests, Zenon DEF NothingElse, memory, disk, world, Resting
  <2> QED BY <2>2, <2>3, Zenon DEF UpdateCheck

\* A start without state data.
<1>InitAccount.
    ASSUME Inv, AccountInv, InitIdle
    PROVE  AccountInv'
  <2> USE <1>InitAccount
  <2>1. pc = "handle" /\ stateData = NoEntry /\ Goto(Plain("Idle")) /\ NothingElse
    BY Zenon DEF InitIdle, Handling, NothingElse, memory, disk, world
  <2>2. Plain("Idle").id = "Idle"
    BY PlainShape, Zenon DEF StateIds
  <2>3. Due("Idle", artifactName)
    BY <2>1, NothingKnown, Zenon DEF AccountInv, Due, Fetching, Final, Resting
  <2> QED BY <2>1, <2>2, <2>3, <1>Settles, Zenon DEF Carrying, UpdateStates

\* The daemon goes to state s and has learned or stored something.
<1>SettlesAnew.
    ASSUME AccountInv, cur' = cur, called' = called, call' = "none", pc' \in {"transit", "flag"},
           UNCHANGED <<artifactName, finished, cut>>,
           CutShort' \/ Due(to'.id, IF pc' = "flag" THEN "broken" ELSE artifactName),
           to'.id \notin {"PreCommitRetry", "UpdateStore"},
           Due(stateData'.name, artifactName),
           Unpacked /\ stateData' # NoEntry => stateData'.info.payload,
           Unpacked /\ (cur.id \in Carrying \/ to'.id \in Carrying) =>
               upd'.payload /\ (inst' = "none" => CutShort')
    PROVE  AccountInv'
  <2> USE <1>SettlesAnew
  <2>1. HistoryInv' /\ PathInv'
    BY Zenon DEF AccountInv, HistoryInv, PathInv, Touched, Unpacked
  <2>2. MemoryInv'
    BY Zenon DEF MemoryInv, Unpacked, Named, CutShort
  <2>3. /\ TargetInv' /\ (cur.id \in Resting => Due(cur.id, artifactName))'
        /\ Due(stateData.name, artifactName)'
    BY DEF AccountInv, TargetInv, Due, Touched, Unpacked, Named, CutShort
  <2> QED BY <2>1, <2>2, <2>3, Zenon DEF AccountInv, Unpacked

\* A restarted daemon goes on with what the stored state still owes.
<1>ResumeDue.
    ASSUME Inv, AccountInv, NextAfterRestart(stateData.name, stateData.info), artifactName' = artifactName
    PROVE  /\ Due(to'.id, IF pc' = "flag" THEN "broken" ELSE artifactName)
           /\ to'.id \in Carrying \ {"PreCommitRetry", "UpdateStore"}
  <2> USE <1>ResumeDue
  <2> DEFINE name == stateData.name
  <2>1. Due(name, artifactName)
    BY Zenon DEF AccountInv
  <2>2. CASE name \in {"UpdateStore", "AfterStore", "Cleanup"}
    <3>1. to' = Make("Cleanup", "failure") /\ pc' = "transit"
      BY <2>2, Zenon DEF NextAfterRestart, Goto
    <3>2. to'.id = "Cleanup"
      BY <3>1, MakeShape, Zenon DEF StateIds, UpdateStates, Statuses
    <3> QED BY <2>1, <2>2, <3>1, <3>2, Zenon DEF Due, Fetching, Final, Resting, Carrying, UpdateStates
  <2>3. CASE name \in {"Reboot"} \union RolledBack \union Committed
    <3>1. /\ to' \in {Plain("VerifyReboot"), Plain("VerifyRollbackReboot"), Plain("AfterFirstCommit"),
                      Plain("AfterCommit")}
          /\ pc' = "transit"
      BY <2>3, Zenon DEF NextAfterRestart, Goto, RolledBack, Committed
    <3>2. to'.id \in {"VerifyReboot", "VerifyRollbackReboot", "AfterFirstCommit", "AfterCommit"}
      BY <3>1, PlainShape, Zenon DEF StateIds, UpdateStates
    <3> QED BY <3>1, <3>2, Zenon DEF Due, Fetching, Final, Resting, Carrying, UpdateStates
  <2>4. CASE name = "UpdateError"
    <3>1. to' = Plain("UpdateError") /\ pc' = "transit"
      BY <2>4, Zenon DEF NextAfterRestart, Goto
    <3>2. to'.id = "UpdateError"
      BY <3>1, PlainShape, Zenon DEF StateIds, UpdateStates
    <3> QED BY <2>1, <2>4, <3>1, <3>2, Zenon DEF Due, Fetching, Final, Resting, Carrying, UpdateStates
  <2>5. CASE name \notin {"UpdateStore", "AfterStore", "Cleanup", "Reboot", "UpdateError"}
                          \union RolledBack \union Committed
    <3>1. RollbackOrFail(stateData.info)
      BY <2>5, Zenon DEF NextAfterRestart, RolledBack, Committed
    <3>2. \/ to' = Plain("UpdateError") /\ pc' = "flag"
          \/ to' = Plain("Rollback") /\ pc' = "transit"
      BY <3>1, Zenon DEF RollbackOrFail, Goto, GotoBroken
    <3>3. \/ to'.id = "UpdateError" /\ pc' = "flag"
          \/ to'.id = "Rollback" /\ pc' = "transit"
      BY <3>2, PlainShape, Zenon DEF StateIds, UpdateStates
    <3> QED BY <3>3, Zenon DEF Due, Fetching, Final, Resting, Carrying, UpdateStates
  <2> QED BY <2>2, <2>3, <2>4, <2>5, Zenon

\* A restarted daemon goes on where the entry says.
<1>InitResumeAccount.
    ASSUME Inv, AccountInv, InitResume, "db" \notin Faults
    PROVE  AccountInv'
  <2> USE <1>InitResumeAccount
  <2>1. /\ cur.id = "Init" /\ upd' = stateData.info /\ UNCHANGED <<artifactName, finished, cut>>
        /\ stateData \in Entry /\ stateData # NoEntry /\ cur.id \notin Carrying
        /\ Unpacked => stateData.info.payload
    BY Zenon DEF InitResume, Handling, world, Inv, TypeOK, Carrying, UpdateStates, AccountInv
  <2>2. ASSUME stateData' = [stateData EXCEPT !.count = NextCount(stateData.count)]
        PROVE  /\ Due(stateData'.name, artifactName)
               /\ Unpacked => stateData'.info.payload
    <3>1. stateData'.name = stateData.name /\ stateData'.info = stateData.info
      BY <2>1, <2>2, Zenon DEF Entry
    <3> QED BY <2>1, <3>1, Zenon DEF AccountInv
  <2>3. CASE /\ GotoBroken(Make("StatusReport", "failure"))
             /\ stateData' = [stateData EXCEPT !.count = NextCount(stateData.count)]
    <3>1. /\ to' = Make("StatusReport", "failure") /\ cur' = cur /\ called' = called
          /\ call' = "none" /\ pc' = "flag"
      BY <2>3, Zenon DEF GotoBroken
    <3>2. to'.id = "StatusReport"
      BY <3>1, MakeShape, Zenon DEF StateIds, UpdateStates, Statuses
    <3>3. CutShort'
      BY <3>1, <3>2, Zenon DEF CutShort
    <3> QED BY <2>1, <2>2, <2>3, <3>1, <3>2, <3>3, <1>SettlesAnew, Zenon
  <2>4. CASE /\ NextAfterRestart(stateData.name, stateData.info)
             /\ inst' = IF stateData.info.payload THEN "current" ELSE "none"
             /\ stateData' = [stateData EXCEPT !.count = NextCount(stateData.count)]
    <3>1. /\ cur' = cur /\ called' = called /\ call' = "none" /\ pc' \in {"transit", "flag"}
      BY <2>4, Zenon DEF NextAfterRestart, RollbackOrFail, Goto, GotoBroken
    <3>2. Unpacked => upd'.payload /\ inst' # "none"
      BY <2>1, <2>4, Zenon
    <3>3. /\ Due(to'.id, IF pc' = "flag" THEN "broken" ELSE artifactName)
          /\ to'.id \notin {"PreCommitRetry", "UpdateStore"}
      BY <2>1, <2>4, <1>ResumeDue, Zenon
    <3> QED BY <2>1, <2>2, <2>4, <3>1, <3>2, <3>3, <1>SettlesAnew, Zenon
  <2>5. CASE stateData.name = "UpdateFetch" /\ stateData' = NoEntry /\ Goto(Plain("Idle"))
    <3>1. ~Unpacked /\ ~Touched
      BY <2>5, Zenon DEF AccountInv, HistoryInv, Due, Fetching
    <3>2. to' = Plain("Idle") /\ cur' = cur /\ called' = called /\ call' = "none" /\ pc' = "transit"
      BY <2>5, Zenon DEF Goto
    <3>3. to'.id = "Idle"
      BY <3>2, PlainShape, Zenon DEF StateIds
    <3>4. Due(to'.id, artifactName) /\ Due(stateData'.name, artifactName)
      BY <3>1, Zenon DEF Due
    <3> QED BY <2>1, <2>5, <3>1, <3>2, <3>3, <3>4, <1>SettlesAnew, Zenon
  <2> QED BY <2>3, <2>4, <2>5, Zenon DEF InitResume

(* The actions: download, installation and commit.                         *)

\* What a handler of an update state finds.
<1>InAccount.
    ASSUME Inv, AccountInv, pc = "handle"
    PROVE  /\ to = cur /\ Named = artifactName /\ Due(cur.id, artifactName)
           /\ cur.id \in Carrying /\ Unpacked =>
                  upd.payload /\ (inst = "none" => artifactName = "broken" /\ cut)
  BY <1>InAccount, Zenon DEF Inv, PositionInv, AccountInv, TargetInv, MemoryInv, Named, CutShort

\* The download begins, is retried, or is given up, with nothing unpacked.
<1>FetchAccount.
    ASSUME Inv, AccountInv, UpdateFetch \/ FetchStoreRetry
    PROVE  AccountInv'
  <2> USE <1>FetchAccount
  <2>1. pc = "handle" /\ cur.id \in Fetching /\ NothingElse
    BY Zenon DEF UpdateFetch, FetchStoreRetry, Handling, memory, disk, world, NothingElse, Fetching
  <2>2. ~Unpacked /\ ~Touched
    BY <2>1, <1>InAccount, Zenon DEF Due, AccountInv, HistoryInv
  <2>3. PICK s \in {Make("StatusReport", "failure"), Plain("UpdateStore"), Plain("FetchStoreRetry"),
                    Plain("UpdateFetch"), Plain("UpdateError")} : Goto(s)
    BY Zenon DEF UpdateFetch, FetchStoreRetry
  <2>4. s.id \in {"StatusReport", "UpdateStore", "FetchStoreRetry", "UpdateFetch", "UpdateError"}
    BY DEF Plain, Make
  <2>5. Due(s.id, artifactName)
    BY <2>2, Zenon DEF Due
  <2> QED BY <2>1, <2>2, <2>3, <2>4, <2>5, <1>Settles, Zenon

\* The artifact is opened.
<1>UpdateStoreAccount.
    ASSUME Inv, AccountInv, UpdateStore
    PROVE  AccountInv'
  <2> USE <1>UpdateStoreAccount
  <2>1. pc = "handle" /\ cur.id = "UpdateStore" /\ NothingElse /\ call = "none"
    BY Zenon DEF UpdateStore, Handling, memory, disk, world, NothingElse
  <2>2. ~Unpacked /\ ~Touched
    BY <2>1, <1>InAccount, Zenon DEF AccountInv, PathInv, HistoryInv
  <2>3. CASE Goto(Make("StatusReport", "failure"))
    <3>1. Make("StatusReport", "failure").id = "StatusReport"
      BY MakeShape, Zenon DEF StateIds, UpdateStates, Statuses
    <3>2. Due("StatusReport", artifactName)
      BY <2>2, Zenon DEF Due, Fetching
    <3> QED BY <2>1, <2>2, <2>3, <3>1, <3>2, <1>Settles, Zenon
  <2>4. CASE Call("ReadHeaders")
    BY <2>1, <2>4, <1>Begins, Zenon DEF Operations
  <2> QED BY <2>3, <2>4, Zenon DEF UpdateStore

\* The headers are read; with the payload's type stored, its data is.
<1>UpdateStoreHeadersAccount.
    ASSUME Inv, AccountInv, UpdateStoreHeaders, "db" \notin Faults
    PROVE  AccountInv'
  <2> USE <1>UpdateStoreHeadersAccount
  <2>1. /\ pc = "handle" /\ cur.id = "UpdateStore" /\ call = "ReadHeaders" /\ upd \in Info
        /\ UNCHANGED <<artifactName, finished, cut>> /\ to = cur
    BY <1>InAccount, Zenon DEF UpdateStoreHeaders, Answered, world, Inv, TypeOK
  <2>2. ~Unpacked /\ ~Touched
    BY <2>1, Zenon DEF AccountInv, PathInv, HistoryInv
  <2>3. CASE /\ stateData' = stateData
             /\ Goto(Plain("FetchStoreRetry")) \/ Goto(Make("StatusReport", "failure"))
    <3>1. /\ to' \in {Plain("FetchStoreRetry"), Make("StatusReport", "failure")}
          /\ cur' = cur /\ called' = called /\ call' = "none" /\ pc' = "transit"
      BY <2>3, Zenon DEF Goto
    <3>2. to'.id \in {"FetchStoreRetry", "StatusReport"}
      BY <3>1, PlainShape, MakeShape DEF StateIds, UpdateStates, Statuses
    <3>3. Due(to'.id, artifactName) /\ Due(stateData'.name, artifactName)
      BY <2>2, <2>3, Zenon DEF Due, AccountInv
    <3> QED BY <2>1, <2>2, <3>1, <3>2, <3>3, <1>SettlesAnew, Zenon
  <2>4. CASE Stored("UpdateStore", upd') /\ Call("Download") /\ ret = "ok"
    <3>1. /\ to' = to /\ cur' = cur /\ pc' = pc /\ call' = "Download"
          /\ called' = called \union {"Download"} /\ upd'.payload /\ inst' = "current"
      BY <2>1, <2>4, Zenon DEF Call, UpdateStoreHeaders, Info
    <3>2. stateData'.name = "UpdateStore" /\ stateData'.info = upd'
      BY <2>4, Zenon DEF Stored, WriteState, StoredName
    <3>3. ~Touched'
      BY <2>2, <3>1, Zenon DEF Touched
    <3>4. HistoryInv' /\ PathInv' /\ MemoryInv'
      BY <2>1, <3>1, <3>3, Zenon DEF AccountInv, HistoryInv, PathInv, MemoryInv, CutShort
    <3>5. /\ TargetInv' /\ Due(stateData.name, artifactName)' /\ cur'.id \notin Resting
      BY <2>1, <3>1, <3>2, <3>3, Zenon DEF TargetInv, CutShort, Due, Fetching, Final, Resting
    <3> QED BY <3>1, <3>2, <3>4, <3>5, Zenon DEF AccountInv
  <2>5. CASE StoreExceeded("UpdateStore", upd')
    <3>1. Due("UpdateStore", artifactName)
      BY <2>2, Zenon DEF Due, Fetching, Final, Resting
    <3> QED BY <2>1, <2>2, <2>5, <3>1, <1>ExceededAccount, Zenon DEF UpdateStates
  <2> QED BY <2>3, <2>4, <2>5, Zenon DEF UpdateStoreHeaders, StoreFailed

\* The payload is downloaded.
<1>UpdateStorePayloadsAccount.
    ASSUME Inv, AccountInv, UpdateStorePayloads
    PROVE  AccountInv'
  <2> USE <1>UpdateStorePayloadsAccount
  <2>1. pc = "handle" /\ cur.id = "UpdateStore" /\ NothingElse
    BY Zenon DEF UpdateStorePayloads, Answered, memory, disk, world, NothingElse
  <2>2. ~Touched /\ cur.id \in Carrying
    BY <2>1, <1>InAccount, Zenon DEF Due, Carrying, UpdateStates
  <2>3. CASE Goto(Make("Cleanup", "failure"))
    <3>1. Make("Cleanup", "failure").id = "Cleanup"
      BY MakeShape, Zenon DEF StateIds, UpdateStates, Statuses
    <3>2. Due("Cleanup", artifactName)
      BY <2>2, Zenon DEF Due, Fetching, Final, Resting
    <3> QED BY <2>1, <2>2, <2>3, <3>1, <3>2, <1>Settles, Zenon
  <2>4. CASE Call("SupportsRollback")
    BY <2>1, <2>4, <1>Begins, Zenon DEF Operations
  <2> QED BY <2>3, <2>4, Zenon DEF UpdateStorePayloads

\* Whether the payload can be rolled back is known before it is installed.
<1>UpdateStoreRollbackAccount.
    ASSUME Inv, OutcomeInv, AccountInv, UpdateStoreRollback, "db" \notin Faults
    PROVE  AccountInv'
  <2> USE <1>UpdateStoreRollbackAccount
  <2>1. /\ pc = "handle" /\ cur.id = "UpdateStore" /\ upd.payload /\ inst # "none" /\ upd \in Info
        /\ UNCHANGED <<inst, artifactName, finished, cut>>
    BY Zenon DEF UpdateStoreRollback, Answered, world, Inv, TypeOK, OutcomeInv, InProgressInv
  <2>2. ~Touched /\ upd'.payload
    BY <2>1, <1>InAccount, Zenon DEF Due, UpdateStoreRollback, Info
  <2>3. ASSUME Goto(Plain("UpdateError")) \/ Goto(Plain("AfterStore")),
               \/ Stored("UpdateStore", upd')
               \/ stateData' = stateData
        PROVE  AccountInv'
    <3>1. /\ to' \in {Plain("UpdateError"), Plain("AfterStore")}
          /\ cur' = cur /\ called' = called /\ call' = "none" /\ pc' = "transit"
      BY <2>3, Zenon DEF Goto
    <3>2. to'.id \in {"UpdateError", "AfterStore"}
      BY <3>1, PlainShape, Zenon DEF StateIds, UpdateStates
    <3>3. \/ stateData' = stateData
          \/ stateData'.name = "UpdateStore" /\ stateData'.info = upd'
      BY <2>3 DEF Stored, WriteState, StoredName
    <3>4. Due(to'.id, artifactName) /\ Due(stateData'.name, artifactName)
      BY <2>2, <3>2, <3>3, Zenon DEF Due, AccountInv, Fetching, Final, Resting
    <3>5. Unpacked /\ stateData' # NoEntry => stateData'.info.payload
      BY <2>2, <3>3, Zenon DEF AccountInv
    <3> QED BY <2>1, <2>2, <3>1, <3>2, <3>4, <3>5, <1>SettlesAnew, Zenon
  <2>4. CASE StoreExceeded("UpdateStore", upd')
    <3>1. Due("UpdateStore", artifactName)
      BY <2>1, <1>InAccount, Zenon
    <3> QED BY <2>1, <2>2, <2>4, <3>1, <1>ExceededAccount, Zenon DEF UpdateStates
  <2> QED BY <2>3, <2>4, Zenon DEF UpdateStoreRollback, StoreFailed

\* The update goes on.
<1>GoesOn.
    ASSUME AccountInv, pc = "handle", cur.id \in Carrying, NEW s, Goto(s), NothingElse,
           s.id \in Underway, s.id = "PreCommitRetry" => cur.id = "Commit"
    PROVE  AccountInv'
  <2> USE <1>GoesOn
  <2>1. Due(s.id, artifactName) /\ s.id # "UpdateStore"
    BY Zenon DEF Due, Underway, Committed, RolledBack, Fetching, Final, Resting
  <2> QED BY <2>1, <1>Settles, Zenon

\* States on the way forward lead to each other.
<1>ForthAccount.
    ASSUME Inv, AccountInv, AfterStore \/ AfterReboot \/ AfterFirstCommit
    PROVE  AccountInv'
  <2> USE <1>ForthAccount
  <2>1. pc = "handle" /\ cur.id \in {"AfterStore", "AfterReboot", "AfterFirstCommit"} /\ NothingElse
    BY Zenon DEF AfterStore, AfterReboot, AfterFirstCommit, Handling, memory, disk, world, NothingElse
  <2>2. PICK id \in {"Install", "Commit", "AfterCommit"} : Goto(Plain(id))
    BY Zenon DEF AfterStore, AfterReboot, AfterFirstCommit
  <2>3. Plain(id).id = id
    BY PlainShape, Zenon DEF StateIds, UpdateStates
  <2> QED BY <2>1, <2>2, <2>3, <1>GoesOn, Zenon DEF Underway, Committed, Carrying, UpdateStates

\* An error of a handler on the way.
<1>Fails.
    ASSUME Inv, AccountInv, pc = "handle", NothingElse, NEW severity \in {"transient", "fatal"},
           cur.id \in Underway,
           IF cur.id = "PreCommitRetry" THEN HandleError(Plain("Commit"), severity)
           ELSE HandleError(cur, severity)
    PROVE  AccountInv'
  <2> USE <1>Fails
  <2>1. Plain("Commit") \in State /\ Plain("Commit").id = "Commit" /\ cur \in State
    BY PlainShape, Zenon DEF StateIds, UpdateStates, Inv, TypeOK
  <2>2. cur.id \in Carrying /\ cur.id \notin Fetching \union {"UpdateStore"}
    BY Zenon DEF Underway, Carrying, UpdateStates, Committed, RolledBack, Fetching
  <2>3. CASE cur.id # "PreCommitRetry"
    <3>1. HandleError(cur, severity) /\ cur.id \in EndsUpdate \ {"ReportError"}
      BY <2>3, Zenon DEF Underway, EndsUpdate, Committed, RolledBack
    <3> QED BY <2>1, <2>2, <3>1, <1>ErrorSettles, Zenon
  <2>4. CASE cur.id = "PreCommitRetry"
    BY <2>1, <2>2, <2>4, <1>ErrorSettles, Zenon DEF EndsUpdate, Fetching
  <2> QED BY <2>3, <2>4, Zenon

\* The payload is installed and asked whether it needs a reboot.
<1>InstallAccount.
    ASSUME Inv, AccountInv, Install \/ InstallInstalled
    PROVE  AccountInv'
  <2> USE <1>InstallAccount
  <2>1. pc = "handle" /\ cur.id = "Install" /\ NothingElse
    BY Zenon DEF Install, InstallInstalled, Handling, Answered, memory, disk, world, NothingElse
  <2>2. CASE HandleError(cur, "fatal") \/ HandleError(cur, "transient")
    BY <2>1, <2>2, <1>Fails, Zenon DEF Underway
  <2>3. CASE Call("ArtifactInstall") \/ Call("NeedsArtifactReboot")
    BY <2>1, <2>3, <1>Begins, Zenon DEF Operations
  <2> QED BY <2>2, <2>3, Zenon DEF Install, InstallInstalled

\* The way to reboot is known and stored.
<1>InstallRebootTypeAccount.
    ASSUME Inv, OutcomeInv, AccountInv, InstallRebootType, "db" \notin Faults
    PROVE  AccountInv'
  <2> USE <1>InstallRebootTypeAccount
  <2>1. /\ pc = "handle" /\ cur.id = "Install" /\ inst # "none" /\ upd \in Info
        /\ UNCHANGED <<inst, artifactName, finished, cut>>
    BY Zenon DEF InstallRebootType, Answered, world, Inv, TypeOK, OutcomeInv, Vouches, Forth
  <2>2. Unpacked => upd.payload
    BY <2>1, <1>InAccount, Zenon DEF Carrying, UpdateStates
  <2>3. CASE ret = "err"
    BY <2>1, <2>3, <1>Fails, Zenon DEF InstallRebootType, NothingElse, Underway
  <2>4. CASE ret # "err"
    <3>1. Unpacked => upd'.payload
      BY <2>1, <2>2, <2>4, Zenon DEF InstallRebootType, Info
    <3>2. Due("Install", artifactName)
      BY <2>1, <1>InAccount, Zenon
    <3>3. CASE /\ Stored("Install", upd')
               /\ Goto(Plain(IF ret = "no reboot" THEN "Commit" ELSE "Reboot"))
      <4>1. /\ to' \in {Plain("Commit"), Plain("Reboot")}
            /\ cur' = cur /\ called' = called /\ call' = "none" /\ pc' = "transit"
        BY <3>3, Zenon DEF Goto
      <4>2. to'.id \in {"Commit", "Reboot"}
        BY <4>1, PlainShape, Zenon DEF StateIds, UpdateStates
      <4>3. stateData'.name = "Install" /\ stateData'.info = upd'
        BY <3>3, Zenon DEF Stored, WriteState, StoredName
      <4>4. Due(to'.id, artifactName) /\ Due(stateData'.name, artifactName)
        BY <3>2, <4>2, <4>3, Zenon DEF Due, Fetching, Final, Resting
      <4> QED BY <2>1, <3>1, <4>1, <4>2, <4>3, <4>4, <1>SettlesAnew, Zenon
    <3>4. CASE StoreExceeded("Install", upd')
      BY <2>1, <3>1, <3>2, <3>4, <1>ExceededAccount, Zenon DEF UpdateStates
    <3> QED BY <2>4, <3>3, <3>4, Zenon DEF InstallRebootType, StoreFailed
  <2> QED BY <2>3, <2>4, Zenon

\* The device is rebooted, and the reboot verified.
<1>RebootAccount.
    ASSUME Inv, AccountInv, Reboot \/ RebootReturns \/ VerifyReboot
    PROVE  AccountInv'
  <2> USE <1>RebootAccount
  <2>1. pc = "handle" /\ cur.id \in {"Reboot", "VerifyReboot"} /\ NothingElse
    BY Zenon DEF Reboot, RebootReturns, VerifyReboot, Handling, Answered, memory, disk, world, NothingElse
  <2>2. CASE HandleError(cur, "transient")
    BY <2>1, <2>2, <1>Fails, Zenon DEF Underway
  <2>3. CASE \E op \in {"ArtifactReboot", "SystemReboot", "ArtifactVerifyReboot"} : Call(op)
    BY <2>1, <2>3, <1>Begins, Zenon DEF Operations
  <2>4. CASE \E id \in {"Rollback", "VerifyReboot", "AfterReboot"} : Goto(Plain(id))
    <3>1. PICK id \in {"Rollback", "VerifyReboot", "AfterReboot"} : Goto(Plain(id))
      BY <2>4, Zenon
    <3>2. Plain(id).id = id
      BY PlainShape, Zenon DEF StateIds, UpdateStates
    <3> QED BY <2>1, <3>1, <3>2, <1>GoesOn, Zenon DEF Underway, Carrying, UpdateStates
  <2>5. CASE Reboot
    BY <2>3, <2>4, <2>5, Zenon DEF Reboot
  <2>6. CASE RebootReturns
    BY <2>2, <2>4, <2>6, Zenon DEF RebootReturns
  <2>7. CASE VerifyReboot
    BY <2>2, <2>3, <2>4, <2>7, Zenon DEF VerifyReboot
  <2> QED BY <2>5, <2>6, <2>7, Zenon

\* The commit is reported, begun, retried or given up.
<1>CommitAccount.
    ASSUME Inv, AccountInv, Commit \/ PreCommitRetry
    PROVE  AccountInv'
  <2> USE <1>CommitAccount
  <2>1. /\ pc = "handle" /\ cur.id \in {"Commit", "PreCommitRetry"} /\ NothingElse /\ cur \in State
        /\ cur.id \in Underway /\ cur.id \in Carrying
    BY Zenon DEF Commit, PreCommitRetry, Handling, memory, disk, world, NothingElse, Inv, TypeOK,
       Underway,
       Carrying, UpdateStates
  <2>2. CASE cur.id = "Commit" /\ (HandleError(cur, "fatal") \/ HandleError(cur, "transient"))
    BY <2>1, <2>2, <1>Fails, Zenon
  <2>3. CASE cur.id = "PreCommitRetry" /\ HandleError(Plain("Commit"), "transient")
    BY <2>1, <2>3, <1>Fails, Zenon
  <2>4. CASE Call("ArtifactCommit")
    BY <2>1, <2>4, <1>Begins, Zenon DEF Operations
  <2>5. ASSUME NEW id \in {"Commit", "PreCommitRetry"}, NEW k \in Nat,
               Goto([Plain(id) EXCEPT !.tries = k]), id = "PreCommitRetry" => cur.id = "Commit"
        PROVE  AccountInv'
    <3>1. PICK s : s = [Plain(id) EXCEPT !.tries = k]
      BY Zenon
    <3>2. Plain(id) \in State /\ Plain(id).id = id
      BY PlainShape, Zenon DEF StateIds, UpdateStates
    <3>3. s.id = id
      BY <3>1, <3>2, TriesShape, Zenon
    <3> QED BY <2>1, <2>5, <3>1, <3>3, <1>GoesOn, Zenon DEF Underway
  <2>6. CASE Commit
    <3>1. cur.id = "Commit"
      BY <2>6, Zenon DEF Commit, Handling
    <3>2. cur.tries + 1 \in Nat
      BY <2>1, StateShape
    <3> QED BY <2>2, <2>4, <2>5, <2>6, <3>1, <3>2, Zenon DEF Commit
  <2>7. CASE PreCommitRetry
    <3>1. cur.tries \in Nat /\ cur.id = "PreCommitRetry"
      BY <2>1, <2>7, StateShape, Zenon DEF PreCommitRetry, Handling
    <3> QED BY <2>3, <2>5, <2>7, <3>1, Zenon DEF PreCommitRetry
  <2> QED BY <2>6, <2>7, Zenon

\* The new name is stored with the commit.
<1>CommitStoreAccount.
    ASSUME Inv, OutcomeInv, AccountInv, CommitStore, "db" \notin Faults
    PROVE  AccountInv'
  <2> USE <1>CommitStoreAccount
  <2>1. /\ pc = "handle" /\ cur.id = "Commit" /\ inst # "none" /\ UNCHANGED <<upd, inst, finished, cut>>
    BY Zenon DEF CommitStore, Answered, memory, world, OutcomeInv, Vouches, Forth
  <2>2. (Unpacked => upd.payload) /\ Due("Commit", artifactName)
    BY <2>1, <1>InAccount, Zenon DEF Carrying, UpdateStates
  <2>3. CASE HandleError(cur, "transient") /\ UNCHANGED disk
    BY <2>1, <2>3, <1>Fails, Zenon DEF disk, NothingElse, Underway
  <2>4. CASE Stored("Commit", upd) /\ artifactName' = "next" /\ Goto(Plain("AfterFirstCommit"))
    <3>1. stateData'.name = "Commit" /\ stateData'.info = upd
      BY <2>4, Zenon DEF Stored, WriteState, StoredName
    <3>2. /\ cur' = cur /\ called' = called /\ call' = "none" /\ pc' = "transit"
          /\ to' = Plain("AfterFirstCommit")
      BY <2>4, Zenon DEF Goto
    <3>3. to'.id = "AfterFirstCommit"
      BY <3>2, PlainShape, Zenon DEF StateIds, UpdateStates
    <3>4. HistoryInv' /\ PathInv' /\ MemoryInv'
      BY <2>1, <2>2, <3>2, <3>3, Zenon DEF AccountInv, HistoryInv, PathInv, MemoryInv, CutShort, Touched, Unpacked
    <3>5. TargetInv' /\ Due(stateData.name, artifactName)' /\ cur'.id \notin Resting
      BY <2>1, <3>1, <3>2, <3>3, Zenon DEF TargetInv, CutShort, Due, Fetching, Final, Resting
    <3> QED BY <2>1, <2>2, <3>1, <3>2, <3>4, <3>5, Zenon DEF AccountInv, Unpacked
  <2>5. CASE StoreExceeded("Commit", upd)
    BY <2>1, <2>2, <2>5, <1>ExceededAccount, Zenon DEF UpdateStates
  <2> QED BY <2>3, <2>4, <2>5, Zenon DEF CommitStore, StoreFailed

\* A committed payload is cleaned up; its device has a new name.
<1>AfterCommitAccount.
    ASSUME Inv, OutcomeInv, AccountInv, AfterCommit
    PROVE  AccountInv'
  <2> USE <1>AfterCommitAccount
  <2> DEFINE s == Make("Cleanup", "success")
  <2>1. /\ pc = "handle" /\ artifactName # "prev" /\ Goto(s) /\ NothingElse /\ cur.id \in Carrying
    BY Zenon DEF AfterCommit, Handling, memory, disk, world, OutcomeInv, Vouches, Owes, Renamed, Committed,
       NothingElse, Carrying, UpdateStates
  <2>2. s.id = "Cleanup"
    BY MakeShape, Zenon DEF StateIds, UpdateStates, Statuses
  <2> HIDE DEF s
  <2>3. Due(s.id, artifactName)
    BY <2>1, <2>2, Zenon DEF Due, Fetching, Final, Resting
  <2> QED BY <2>1, <2>2, <2>3, <1>Settles, Zenon

(* The actions: rollback, failure, cleanup and the final report.           *)

\* The daemon goes to UpdateError after the rollback.
<1>RolledBackFails.
    ASSUME AccountInv, pc = "handle", cur.id \in Carrying, NothingElse, Goto(Plain("UpdateError")),
           Touched /\ artifactName = "prev" => "ArtifactRollback" \in finished
    PROVE  AccountInv'
  <2> USE <1>RolledBackFails
  <2>1. Plain("UpdateError").id = "UpdateError"
    BY PlainShape, Zenon DEF StateIds, UpdateStates
  <2>2. Due("UpdateError", artifactName)
    BY Zenon DEF Due, Fetching, Final, Resting
  <2> QED BY <2>1, <2>2, <1>Settles, Zenon

\* The payload is rolled back, and the device rebooted.
<1>RollbackAccount.
    ASSUME Inv, OutcomeInv, AccountInv,
           Rollback \/ RollbackReboot \/ VerifyRollbackReboot \/ AfterRollbackReboot
    PROVE  AccountInv'
  <2> USE <1>RollbackAccount
  <2>1. /\ pc = "handle" /\ cur.id \in {"Rollback"} \union RolledBack /\ NothingElse
        /\ cur.id \in Carrying /\ cur.id \in Underway
        /\ cur.id \in RolledBack => "ArtifactRollback" \in finished
    BY Zenon DEF Rollback, RollbackReboot, VerifyRollbackReboot, AfterRollbackReboot, Handling, Answered,
       memory, disk, world, NothingElse, OutcomeInv, Vouches, Owes, RolledBack, Carrying, UpdateStates,
       Underway
  <2>2. CASE HandleError(cur, "fatal") \/ HandleError(cur, "transient")
    BY <2>1, <2>2, <1>Fails, Zenon DEF RolledBack
  <2>3. CASE \E op \in {"ArtifactRollback", "ArtifactRollbackReboot", "SystemReboot",
                        "ArtifactVerifyRollbackReboot"} : Call(op)
    BY <2>1, <2>3, <1>Begins, Zenon DEF Operations
  <2>4. CASE \E id \in RolledBack : Goto(Plain(id))
    <3>1. PICK id \in RolledBack : Goto(Plain(id))
      BY <2>4, Zenon
    <3>2. Plain(id).id = id
      BY PlainShape, Zenon DEF StateIds, UpdateStates, RolledBack
    <3> QED BY <2>1, <3>1, <3>2, <1>GoesOn, Zenon DEF Underway, RolledBack
  <2>5. CASE Rollback
    <3>1. CASE Answered("Rollback", "ArtifactRollback") /\ ret # "err" /\ AfterRollback
      <4>1. "ArtifactRollback" \in finished
        BY <3>1, Zenon DEF Answered, Inv, CallInv
      <4> QED BY <2>1, <2>4, <3>1, <4>1, <1>RolledBackFails, Zenon DEF AfterRollback, RolledBack
    <3>2. CASE inst = "none" /\ Goto(Plain("UpdateError"))
      <4>1. ~(Touched /\ artifactName = "prev")
        BY <2>1, <3>2, <1>InAccount, Zenon DEF AccountInv, HistoryInv
      <4> QED BY <2>1, <3>2, <4>1, <1>RolledBackFails, Zenon
    <3> QED BY <2>2, <2>3, <2>5, <3>1, <3>2, Zenon DEF Rollback
  <2>6. CASE RollbackReboot
    BY <2>3, <2>4, <2>6, Zenon DEF RollbackReboot, RolledBack
  <2>7. CASE VerifyRollbackReboot
    BY <2>2, <2>3, <2>4, <2>7, Zenon DEF VerifyRollbackReboot, RolledBack
  <2>8. CASE AfterRollbackReboot
    BY <2>1, <2>8, <1>RolledBackFails, Zenon DEF AfterRollbackReboot, Handling, RolledBack
  <2> QED BY <2>5, <2>6, <2>7, <2>8, Zenon

\* The failed update is told to its payload.
<1>UpdateErrorAccount.
    ASSUME Inv, OutcomeInv, AccountInv, UpdateError
    PROVE  AccountInv'
  <2> USE <1>UpdateErrorAccount
  <2>1. pc = "handle" /\ cur.id = "UpdateError" /\ NothingElse /\ cur.id \in Carrying
    BY Zenon DEF UpdateError, Handling, Answered, memory, disk, world, NothingElse, Carrying, UpdateStates
  <2>2. CASE Call("ArtifactFailure")
    BY <2>1, <2>2, <1>Begins, Zenon DEF Operations
  <2>3. CASE /\ inst = "none" \/ call = "ArtifactFailure"
             /\ Goto(Make("Cleanup", "failure"))
    <3>1. Make("Cleanup", "failure").id = "Cleanup"
      BY MakeShape, Zenon DEF StateIds, UpdateStates, Statuses
    <3>2. Touched /\ artifactName = "prev" => "ArtifactFailure" \in called
      BY <2>1, <2>3, <1>InAccount, Zenon DEF AccountInv, HistoryInv, OutcomeInv, InProgressInv
    <3>3. Due("Cleanup", artifactName)
      BY <2>1, <3>2, <1>InAccount, Zenon DEF Due, Fetching, Final, Resting
    <3> QED BY <2>1, <2>3, <3>1, <3>3, <1>Settles, Zenon
  <2> QED BY <2>2, <2>3, Zenon DEF UpdateError, Answered

\* The payload is cleaned up.
<1>CleanupAccount.
    ASSUME Inv, OutcomeInv, AccountInv, Cleanup
    PROVE  AccountInv'
  <2> USE <1>CleanupAccount
  <2>1. /\ pc = "handle" /\ cur.id = "Cleanup" /\ NothingElse /\ cur.id \in Carrying
        /\ cur.status \in Statuses
    BY StateShape, Zenon DEF Cleanup, Handling, Answered, memory, disk, world, NothingElse, Carrying,
       UpdateStates, Inv, TypeOK
  <2>2. CASE Call("Cleanup")
    BY <2>1, <2>2, <1>Begins, Zenon DEF Operations
  <2>3. ASSUME NEW status \in Statuses, inst = "none" \/ call = "Cleanup",
               Goto(Make("StatusReport", status))
        PROVE  AccountInv'
    <3>1. Make("StatusReport", status).id = "StatusReport"
      BY MakeShape, Zenon DEF StateIds, UpdateStates
    <3>2. Unpacked /\ ~cut => "Cleanup" \in called
      BY <2>1, <2>3, <1>InAccount, Zenon DEF OutcomeInv, InProgressInv
    <3>3. Due("StatusReport", artifactName)
      BY <2>1, <3>2, <1>InAccount, Zenon DEF Due, Fetching, Final, Resting
    <3> QED BY <2>1, <2>3, <3>1, <3>3, <1>Settles, Zenon
  <2>4. (IF ret = "err" THEN "failure" ELSE cur.status) \in Statuses
    BY <2>1, Zenon DEF Statuses
  <2> QED BY <2>1, <2>2, <2>3, <2>4, Zenon DEF Cleanup, Answered

\* The report is sent, retried or given up.
<1>FinalAccount.
    ASSUME Inv, AccountInv, StatusReport \/ StatusReportRetry \/ ReportError
    PROVE  AccountInv'
  <2> USE <1>FinalAccount
  <2>1. /\ pc = "handle" /\ cur.id \in Final /\ NothingElse /\ cur.id \in Carrying
        /\ cur.status \in Statuses /\ cur \in State
    BY StateShape, Zenon DEF StatusReport, StatusReportRetry, ReportError, Handling, memory, disk,
       world,
       NothingElse, Carrying, UpdateStates, Inv, TypeOK, Final
  <2>2. ASSUME NEW s, Goto(s), s.id \in Final \union {"Idle"}
        PROVE  AccountInv'
    <3>1. Due(s.id, artifactName) /\ s.id \notin {"PreCommitRetry", "UpdateStore"}
      BY <2>1, <2>2, <1>InAccount, Zenon DEF Due, Fetching, Final, Resting
    <3> QED BY <2>1, <2>2, <3>1, <1>Settles, Zenon
  <2>3. /\ Make("ReportError", cur.status).id \in Final
        /\ Plain("Idle").id = "Idle" /\ Plain("Rollback").id = "Rollback"
    BY <2>1, PlainShape, MakeShape, Zenon DEF StateIds, UpdateStates, Final
  <2>4. CASE StatusReport
    <3> DEFINE sent == [cur EXCEPT !.tries = @ + 1]
               logged == [sent EXCEPT !.logTries = @ + 1]
    <3>1. CASE Retry(sent, sent.tries)
      <4>1. PICK s : s = [sent EXCEPT !.id = "StatusReportRetry", !.sending = sent.tries]
        OBVIOUS
      <4>2. s.id \in Final
        BY <2>1, <4>1, Zenon DEF State, Final
      <4> QED BY <2>2, <3>1, <4>1, <4>2, Zenon DEF Retry
    <3>2. CASE Retry(logged, logged.logTries)
      <4>1. PICK s : s = [logged EXCEPT !.id = "StatusReportRetry", !.sending = logged.logTries]
        OBVIOUS
      <4>2. s.id \in Final
        BY <2>1, <4>1, Zenon DEF State, Final
      <4> QED BY <2>2, <3>2, <4>1, <4>2, Zenon DEF Retry
    <3> HIDE DEF sent, logged
    <3> QED BY <2>2, <2>3, <2>4, <3>1, <3>2, Zenon DEF StatusReport, sent, logged
  <2>5. CASE StatusReportRetry
    <3>1. CASE Goto([cur EXCEPT !.id = "StatusReport", !.sending = 0])
      <4>1. PICK s : s = [cur EXCEPT !.id = "StatusReport", !.sending = 0]
        OBVIOUS
      <4>2. s.id \in Final
        BY <2>1, <4>1, Zenon DEF State, Final
      <4> QED BY <2>2, <3>1, <4>1, <4>2, Zenon
    <3> QED BY <2>2, <2>3, <2>5, <3>1, Zenon DEF StatusReportRetry
  <2>6. CASE ReportError
    <3>1. CASE Goto(Plain("Rollback"))
      BY <2>1, <2>3, <3>1, <1>GoesOn, Zenon DEF Underway
    <3> QED BY <2>2, <2>3, <2>6, <3>1, Zenon DEF ReportError
  <2> QED BY <2>4, <2>5, <2>6, Zenon

(* All steps together.                                                     *)

\* Every Handle method keeps the invariant.
<1>HandleAccount.
    ASSUME Inv, OutcomeInv, AccountInv, Handle, "db" \notin Faults
    PROVE  AccountInv'
  BY <1>HandleAccount, <1>InitAccount, <1>InitResumeAccount, <1>IdleAccount, <1>RestAccount,
     <1>UpdateCheckAccount, <1>FetchAccount,
     <1>UpdateStoreAccount, <1>UpdateStoreHeadersAccount, <1>UpdateStorePayloadsAccount,
     <1>UpdateStoreRollbackAccount, <1>ForthAccount, <1>InstallAccount, <1>InstallRebootTypeAccount,
     <1>RebootAccount, <1>CommitAccount, <1>CommitStoreAccount, <1>AfterCommitAccount,
     <1>RollbackAccount,
     <1>UpdateErrorAccount, <1>CleanupAccount, <1>FinalAccount, Zenon DEF Handle, InitLoadFails

<1> SUFFICES
    ASSUME Inv, OutcomeInv, AccountInv, Daemon, "db" \notin Faults
    PROVE  AccountInv'
  OBVIOUS
<1> QED BY <1>HandleAccount, <1>RunAccount, <1>LeaveFailsAccount, <1>StoreStateAccount,
           <1>EnterAccount, <1>FlagAccount, Zenon
     DEF Daemon

\* So does a step that changes nothing.
LEMMA StillAccount ==
    ASSUME AccountInv, UNCHANGED vars
    PROVE  AccountInv'
<1>1. /\ UNCHANGED <<cur, to, pc, call, called, upd, inst>>
      /\ UNCHANGED <<stateData, artifactName, finished, cut>>
  BY Zenon DEF vars
<1>2. HistoryInv' /\ PathInv' /\ MemoryInv' /\ Named' = Named
  BY <1>1, Zenon DEF AccountInv, HistoryInv, PathInv, MemoryInv, Touched, Unpacked, Named, CutShort
<1>3. /\ TargetInv' /\ (cur.id \in Resting => Due(cur.id, artifactName))'
      /\ Due(stateData.name, artifactName)'
  BY <1>1, <1>2, Zenon DEF AccountInv, TargetInv, CutShort, Due, Touched, Unpacked
<1> QED BY <1>1, <1>2, <1>3, Zenon DEF AccountInv, Unpacked

\* The first start of the daemon satisfies the invariant.
LEMMA AccountInit == Init => AccountInv
<1> SUFFICES ASSUME Init PROVE AccountInv
  OBVIOUS
<1>1. cur = Plain("Init") /\ to = Plain("Init") /\ called = {} /\ finished = {}
  BY Zenon DEF Init
<1>2. Plain("Init").id = "Init"
  BY PlainShape, Zenon DEF StateIds
<1> QED BY <1>1, <1>2, Zenon DEF AccountInv, HistoryInv, PathInv, MemoryInv, CutShort, TargetInv, Due, Touched, Unpacked

\* Every step keeps the invariant.
LEMMA AccountNext ==
    ASSUME "db" \notin Faults
    PROVE  Inv /\ OutcomeInv /\ AccountInv /\ [Next]_vars => AccountInv'
<1> SUFFICES ASSUME Inv, OutcomeInv, AccountInv, [Next]_vars PROVE AccountInv'
  OBVIOUS
<1>1. CASE Daemon
  BY <1>1, DaemonAccount, Zenon
<1>2. CASE Answer
  BY <1>2, AnswerAccount, Zenon DEF Answer
<1>3. CASE Machine
  BY <1>3, MachineAccount, Zenon
<1>4. CASE Signal
  BY <1>4, ForceAccount, Zenon DEF Signal
<1>5. CASE UNCHANGED vars
  BY <1>5, StillAccount, Zenon
<1> QED BY <1>1, <1>2, <1>3, <1>4, <1>5, Zenon DEF Next

\* At rest, what the invariant says is owed has been done.
LEMMA AccountAtRest == AccountInv => OutcomeRecorded /\ CleanedUp
<1> SUFFICES ASSUME AccountInv, AtRest PROVE OutcomeRecorded /\ CleanedUp
  BY Zenon DEF OutcomeRecorded, CleanedUp
<1>1. cur.id \in Resting
  BY Zenon DEF AtRest, Resting
<1>2. Due(cur.id, artifactName)
  BY <1>1, Zenon DEF AccountInv
<1> QED BY <1>1, <1>2, Zenon DEF Due, Touched, Unpacked, OutcomeRecorded, CleanedUp

\* The invariant holds in every state of every behaviour.
LEMMA SpecAccount ==
    ASSUME "db" \notin Faults
    PROVE  Spec => []AccountInv
<1>1. Inv /\ OutcomeInv /\ AccountInv /\ [Next]_vars => AccountInv'
  BY AccountNext, Zenon
<1> QED BY <1>1, AccountInit, SpecOutcome, PTL DEF Spec

\* As long as the database can be written, a device that began to install and
\* is at rest under its old name has rolled the payload back and has run
\* ArtifactFailure: no interleaving of restarts, failing scripts, operations
\* and reports, and no signal, leads past HandleError and initState.
THEOREM OutcomeIsRecorded ==
    ASSUME "db" \notin Faults
    PROVE  Spec => []OutcomeRecorded
BY SpecAccount, AccountAtRest, PTL

\* As long as the database can be written, whatever was unpacked has been
\* cleaned up when the device is at rest, unless the loop detection ended
\* the deployment (handleStateDataError): updateCleanupState comes after a
\* success, after a failure and after a rollback that failed alike.
THEOREM DownloadsAreCleanedUp ==
    ASSUME "db" \notin Faults
    PROVE  Spec => []CleanedUp
BY SpecAccount, AccountAtRest, PTL
------------------------------------------------------------------------------
(* The way of a deployment on a device with two root filesystems.          *)

\* The states between a successful reboot and the commit, and those before
\* the reboot.
Verifying == {"VerifyReboot", "AfterReboot", "Commit", "PreCommitRetry"}
Before == {"UpdateFetch", "FetchStoreRetry", "UpdateStore", "AfterStore", "Install"}
GivenUp == {"UpdateError", "Cleanup", "StatusReport"}

\* What a device with two root filesystems can say of itself.
Dual(info) == info.rollback # "unsupported" /\ info.reboot \in {"unset", "custom"}

\* Where a daemon on such a device can be: the flag is set only on the way to
\* the end, and before the reboot the old artifact is the one installed.
RouteInv ==
    /\ to.id = "Init" => cur.id = "Init" /\ pc = "handle"
    /\ pc = "flag" => to.id \in GivenUp
    /\ to.id \in Before => artifactName = "prev" /\ "ArtifactCommit" \notin finished
    /\ ret \notin {"unsupported", "no reboot", "automatic"}
    /\ call \in RebootOps => ret \in {"none", "err"}
    /\ Dual(upd)
    /\ Dual(stateData.info)

\* The handler of Install, or of UpdateStore, knows of a success.
HasInstalled == (call = "ArtifactInstall" /\ ret \notin {"none", "err"}) \/ call = "NeedsArtifactReboot"
HasStored == (call = "Download" /\ ret \notin {"none", "err"}) \/ call = "SupportsRollback"

\* A step of the daemon comes from where it must.
Onward ==
    /\ to'.id # "Init"
    /\ call' # "none" => ret' = "none"
    /\ to'.id \in {"AfterStore", "Install"} \/ call' = "SupportsRollback" =>
           to.id \in {"AfterStore", "Install"} \/ HasStored
    /\ to'.id = "Reboot" \/ call' = "NeedsArtifactReboot" => to.id = "Reboot" \/ HasInstalled
    /\ to'.id \in Verifying => to.id \in Verifying \/ (to.id = "Init" /\ stateData.name = "Reboot")
    /\ stateData'.name = "Reboot" => stateData.name = "Reboot" \/ to.id = "Reboot"

\* What a handler finds.
LEMMA InHandler ==
    ASSUME Inv, OutcomeInv, pc = "handle"
    PROVE  /\ to = cur /\ cur \in State /\ upd \in Info /\ stateData \in Entry
           /\ cur.id \in UpdateStates => stateData.name = StoredName(cur.id) /\ stateData.info = upd
           /\ call # "none" => call \in Calls(cur.id)
BY Zenon DEF Inv, TypeOK, PositionInv, StoredInv, OutcomeInv, EntryInv, InProgressInv

\* The flag is set only on the way to the end of the update.
LEMMA ErrorFlag ==
    ASSUME NEW s \in State, NEW severity, HandleError(s, severity), pc' = "flag"
    PROVE  to'.id \in GivenUp
<1>1. to' = Plain("UpdateError") \/ to' = Make("Cleanup", "failure")
  BY Zenon DEF HandleError, RollbackOrFail, Goto, GotoBroken
<1> QED BY <1>1 DEF GivenUp, Plain, Make

\* Every step of the daemon.
LEMMA DaemonOnward ==
    Inv /\ OutcomeInv /\ RouteInv /\ Daemon => RouteInv' /\ Onward
\* The step leads out of the update, or gives it up.
<1>Aside.
    ASSUME RouteInv, call' = "none", ret' = "none",
           to'.id \notin Before \union Verifying \union {"Init", "Reboot"},
           pc' = "flag" => to'.id \in GivenUp,
           stateData'.name = "Reboot" => stateData.name = "Reboot" \/ to.id = "Reboot",
           Dual(stateData'.info), Dual(upd')
    PROVE  RouteInv' /\ Onward
  BY <1>Aside, Zenon DEF RouteInv, Onward, Dual, Before, RebootOps

\* An error leads out of the update, or gives it up.
<1>ErrorAside.
    ASSUME RouteInv, NEW s \in State, NEW severity \in {"transient", "fatal"}, HandleError(s, severity),
           stateData' = stateData, Dual(upd')
    PROVE  RouteInv' /\ Onward
  <2> USE <1>ErrorAside
  <2>1. PICK t \in State : ErrorLeadsTo(s, severity, t)
    BY HandleErrorShape, Zenon
  <2>2. /\ to' = t /\ call' = "none" /\ ret' = "none"
        /\ t.id \notin Before \union Verifying \union {"Init", "Reboot"}
    BY <2>1, Zenon DEF ErrorLeadsTo, Goto, GotoBroken, Before, Verifying
  <2>3. pc' = "flag" => to'.id \in GivenUp
    BY ErrorFlag, Zenon
  <2> QED BY <2>2, <2>3, <1>Aside, Zenon DEF RouteInv

\* So does a count that has run out.
<1>ExceededAside.
    ASSUME RouteInv, NEW id, NEW info, StoreExceeded(id, info), id # "Reboot" \/ to.id = "Reboot",
           Dual(info), Dual(upd')
    PROVE  RouteInv' /\ Onward
  <2> USE <1>ExceededAside
  <2>1. to' = Make("StatusReport", "failure") /\ call' = "none" /\ ret' = "none"
    BY Zenon DEF StoreExceeded, GotoBroken
  <2>2. to'.id = "StatusReport"
    BY <2>1, MakeShape, Zenon DEF StateIds, UpdateStates, Statuses
  <2>3. \/ stateData' = stateData
        \/ stateData'.name = StoredName(id) /\ stateData'.info = info
    BY DEF StoreExceeded, WriteState
  <2> QED BY <2>1, <2>2, <2>3, <1>Aside, Zenon DEF RouteInv, GivenUp, Before, Verifying, StoredName

\* A handler goes to a state outside of the way from download to commit.
<1>GotoAside.
    ASSUME RouteInv, NEW s, Goto(s), s.id \notin Before \union Verifying \union {"Init", "Reboot"},
           stateData'.name = "Reboot" => stateData.name = "Reboot" \/ to.id = "Reboot",
           Dual(stateData'.info), Dual(upd')
    PROVE  RouteInv' /\ Onward
  <2> USE <1>GotoAside
  <2>1. to' = s /\ call' = "none" /\ ret' = "none" /\ pc' # "flag"
    BY Zenon DEF Goto
  <2> QED BY <2>1, <1>Aside, Zenon

\* A handler calls the payload.
<1>CallOnward.
    ASSUME Inv, RouteInv, pc = "handle", cur.id # "Init", NEW op \in Operations, Call(op),
           op = "SupportsRollback" => HasStored,
           op = "NeedsArtifactReboot" => HasInstalled,
           stateData'.name = "Reboot" => stateData.name = "Reboot" \/ to.id = "Reboot",
           Dual(stateData'.info), Dual(upd'), UNCHANGED <<artifactName, finished>>
    PROVE  RouteInv' /\ Onward
  <2> USE <1>CallOnward
  <2>1. to' = to /\ cur' = cur /\ pc' = pc /\ ret' = "none" /\ call' = op /\ to = cur
    BY Zenon DEF Call, Inv, PositionInv
  <2> QED BY <2>1, Zenon DEF RouteInv, Onward, RebootOps

\* The steps of Run.
<1>RunOnward.
    ASSUME Inv, OutcomeInv, RouteInv, Exit \/ Transit \/ Enter \/ SetBrokenArtifactFlag
    PROVE  RouteInv' /\ Onward
  <2> USE <1>RunOnward
  <2>1. call = "none" /\ UNCHANGED <<upd, stateData, finished>> /\ cur \in State
    BY Zenon DEF Exit, Transit, Enter, SetBrokenArtifactFlag, memory, disk, world, Inv, CallInv, TypeOK
  <2>2. CASE Exit \/ Transit
    <3>1. /\ UNCHANGED <<to, call, ret, artifactName>> /\ pc = "transit" /\ pc' # "flag"
          /\ to.id # "Init"
      BY <2>2, Zenon DEF Exit, Transit, disk, RouteInv
    <3> QED BY <2>1, <3>1, Zenon DEF RouteInv, Onward, Dual
  <2>3. CASE Enter
    <3>1. CASE pc' = "handle" /\ UNCHANGED <<cur, to, call, ret, called>>
      BY <2>1, <2>3, <3>1, Zenon DEF Enter, RouteInv, Onward, Dual, disk
    <3>2. CASE HandleError(cur, "transient")
      BY <2>1, <3>2, <1>ErrorAside, Zenon DEF RouteInv
    <3> QED BY <2>3, <3>1, <3>2, Zenon DEF Enter
  <2>4. CASE SetBrokenArtifactFlag
    <3>1. /\ UNCHANGED <<to, call, ret>> /\ pc = "flag" /\ pc' = "transit"
      BY <2>4, Zenon DEF SetBrokenArtifactFlag
    <3> QED BY <2>1, <3>1, Zenon DEF RouteInv, Onward, Dual, GivenUp, Before, Verifying
  <2> QED BY <2>2, <2>3, <2>4, Zenon

\* transitionState stores the state it has entered.
<1>StoreStateOnward.
    ASSUME Inv, OutcomeInv, RouteInv, StoreState
    PROVE  RouteInv' /\ Onward
  <2> USE <1>StoreStateOnward
  <2>1. /\ call = "none" /\ UNCHANGED <<upd, finished, artifactName>> /\ cur \in State /\ to = cur
        /\ pc \in {"store", "store then enter"} /\ cur.id \in UpdateStates
    BY Zenon DEF StoreState, memory, world, Inv, CallInv, TypeOK, PositionInv
  <2>2. CASE Stored(cur.id, upd) /\ pc' \in {"handle", "enter"} /\ UNCHANGED <<cur, to, call, ret>>
    <3>1. stateData'.name = StoredName(cur.id) /\ stateData'.info = upd
      BY <2>2, Zenon DEF Stored, WriteState
    <3> QED BY <2>1, <2>2, <3>1, Zenon DEF RouteInv, Onward, Dual, StoredName, UpdateStates
  <2>3. CASE StoreFailed /\ HandleError(cur, "fatal")
    BY <2>1, <2>3, <1>ErrorAside, Zenon DEF RouteInv, StoreFailed
  <2>4. CASE StoreExceeded(cur.id, upd)
    BY <2>1, <2>4, <1>ExceededAside, Zenon DEF RouteInv
  <2> QED BY <2>2, <2>3, <2>4, Zenon DEF StoreState

\* A script fails when a state is left.
<1>LeaveFailsOnward.
    ASSUME Inv, OutcomeInv, RouteInv, LeaveFails
    PROVE  RouteInv' /\ Onward
  <2> USE <1>LeaveFailsOnward
  <2>1. cur \in State /\ UNCHANGED <<stateData, upd>> /\ HandleError(cur, "transient")
    BY Zenon DEF Inv, TypeOK, LeaveFails, memory, disk
  <2> QED BY <2>1, <1>ErrorAside, Zenon DEF RouteInv

\* The handlers of the states outside of an update, and of its last states.
<1>RestOnward.
    ASSUME Inv, OutcomeInv, RouteInv,
           \/ InitIdle \/ InitLoadFails \/ Idle \/ AuthorizeWait \/ Authorize \/ CheckWait
           \/ InventoryUpdate \/ Error \/ AfterFirstCommit \/ AfterCommit \/ AfterRollbackReboot
           \/ ReportError
    PROVE  RouteInv' /\ Onward
  <2> USE <1>RestOnward
  <2>1. /\ UNCHANGED upd
        /\ stateData' = stateData \/ stateData' = NoEntry
    BY Zenon DEF InitIdle, InitLoadFails, Idle, AuthorizeWait, Authorize, CheckWait, InventoryUpdate, Error,
       AfterFirstCommit, AfterCommit, AfterRollbackReboot, ReportError, memory, disk
  <2>2. Dual(upd') /\ Dual(stateData'.info) /\ (stateData'.name = "Reboot" => stateData.name = "Reboot")
    <3>1. NoEntry.name = "none" /\ Dual(NoEntry.info)
      BY Zenon DEF Dual, NoEntry, NoInfo
    <3> QED BY <2>1, <3>1, Zenon DEF RouteInv
  <2>3. PICK s \in {Plain("Idle"), Plain("UpdateError"), Plain("CheckWait"), Plain("AuthorizeWait"),
                    Plain("Authorize"), Make("Error", "fatal"), Make("Error", "transient"),
                    Plain("UpdateCheck"), Plain("InventoryUpdate"), Plain("AfterCommit"),
                    Make("Cleanup", "success"), Plain("Rollback")} : Goto(s)
    BY Zenon DEF InitIdle, InitLoadFails, Idle, AuthorizeWait, Authorize, CheckWait, InventoryUpdate, Error,
       AfterFirstCommit, AfterCommit, AfterRollbackReboot, ReportError
  <2>4. s.id \in {"Idle", "UpdateError", "CheckWait", "AuthorizeWait", "Authorize", "Error",
                  "UpdateCheck", "InventoryUpdate", "AfterCommit", "Cleanup", "Rollback"}
    BY <2>3 DEF Plain, Make
  <2>5. s.id \notin Before \union Verifying \union {"Init", "Reboot"}
    BY <2>4, Zenon DEF Before, Verifying
  <2> QED BY <2>2, <2>3, <2>5, <1>GotoAside, Zenon

\* A restarted daemon goes on where the entry says.
<1>InitResumeOnward.
    ASSUME Inv, OutcomeInv, RouteInv, InitResume
    PROVE  RouteInv' /\ Onward
  <2> USE <1>InitResumeOnward
  <2>1. /\ to = cur /\ cur.id = "Init" /\ stateData \in Entry /\ Dual(upd')
        /\ UNCHANGED <<artifactName, finished>>
    BY InHandler, Zenon DEF InitResume, Handling, RouteInv, world
  <2>2. /\ stateData'.name = "Reboot" => stateData.name = "Reboot"
        /\ Dual(stateData'.info)
    <3>1. CASE stateData' = [stateData EXCEPT !.count = NextCount(stateData.count)]
      BY <2>1, <3>1, Zenon DEF Entry, RouteInv
    <3>2. CASE stateData' = NoEntry
      BY <3>2, Zenon DEF NoEntry, NoInfo, Dual
    <3>3. CASE stateData' = stateData
      BY <3>3, Zenon DEF RouteInv
    <3> QED BY <3>1, <3>2, <3>3, Zenon DEF InitResume
  <2>3. CASE GotoBroken(Make("StatusReport", "failure"))
    <3>1. to' = Make("StatusReport", "failure") /\ call' = "none" /\ ret' = "none"
      BY <2>3, Zenon DEF GotoBroken
    <3>2. to'.id = "StatusReport"
      BY <3>1, MakeShape, Zenon DEF StateIds, UpdateStates, Statuses
    <3> QED BY <2>1, <2>2, <3>1, <3>2, <1>Aside, Zenon DEF GivenUp, Before, Verifying
  <2>4. CASE Goto(Plain("Idle")) \/ Goto(Make("Error", "fatal"))
    <3>1. Plain("Idle").id = "Idle" /\ Make("Error", "fatal").id = "Error"
      BY PlainShape, MakeShape DEF StateIds, Statuses
    <3> QED BY <2>1, <2>2, <2>4, <3>1, <1>GotoAside, Zenon DEF Before, Verifying
  <2>5. CASE NextAfterRestart(stateData.name, stateData.info)
    <3>1. CASE stateData.name = "Reboot"
      <4>1. to' = Plain("VerifyReboot") /\ call' = "none" /\ ret' = "none" /\ pc' = "transit"
        BY <2>5, <3>1, Zenon DEF NextAfterRestart, Goto
      <4>2. to'.id = "VerifyReboot"
        BY <4>1, PlainShape, Zenon DEF StateIds, UpdateStates
      <4> QED BY <2>1, <2>2, <3>1, <4>1, <4>2, Zenon DEF RouteInv, Onward, Before, Verifying, RebootOps
    <3>2. CASE stateData.name # "Reboot"
      <4>1. \/ /\ to' = Plain("UpdateError")
               /\ pc' \in {"transit", "flag"}
            \/ /\ to' \in {Make("Cleanup", "failure"), Plain("VerifyRollbackReboot"),
                          Plain("AfterFirstCommit"), Plain("AfterCommit"), Plain("Rollback")}
               /\ pc' = "transit"
        BY <2>5, <3>2, Zenon DEF NextAfterRestart, RollbackOrFail, Goto, GotoBroken
      <4>2. call' = "none" /\ ret' = "none"
        BY <2>5, Zenon DEF NextAfterRestart, RollbackOrFail, Goto, GotoBroken
      <4>3. /\ Plain("UpdateError").id = "UpdateError" /\ Make("Cleanup", "failure").id = "Cleanup"
            /\ Plain("VerifyRollbackReboot").id = "VerifyRollbackReboot"
            /\ Plain("AfterFirstCommit").id = "AfterFirstCommit"
            /\ Plain("AfterCommit").id = "AfterCommit" /\ Plain("Rollback").id = "Rollback"
        BY Zenon DEF Plain, Make
      <4>4. /\ pc' = "flag" => to'.id \in GivenUp
            /\ to'.id \notin Before \union Verifying \union {"Init", "Reboot"}
        BY <4>1, <4>3, Zenon DEF Before, Verifying, GivenUp
      <4> QED BY <2>1, <2>2, <4>2, <4>4, <1>Aside, Zenon
    <3> QED BY <3>1, <3>2, Zenon
  <2> QED BY <2>3, <2>4, <2>5, Zenon DEF InitResume

\* A deployment begins, or not.
<1>UpdateCheckOnward.
    ASSUME Inv, OutcomeInv, RouteInv, UpdateCheck
    PROVE  RouteInv' /\ Onward
  <2> USE <1>UpdateCheckOnward
  <2>1. /\ to = cur /\ cur.id = "UpdateCheck" /\ pc = "handle" /\ call = "none"
        /\ UNCHANGED stateData
    BY InHandler, Zenon DEF UpdateCheck, Handling, NewDeployment, disk
  <2>2. CASE UNCHANGED memory /\ (Goto(Plain("CheckWait")) \/ Goto(Make("Error", "transient")))
    <3>1. Plain("CheckWait").id = "CheckWait" /\ Make("Error", "transient").id = "Error"
      BY PlainShape, MakeShape DEF StateIds, Statuses
    <3> QED BY <2>1, <2>2, <3>1, <1>GotoAside, Zenon DEF RouteInv, memory, Before, Verifying
  <2>3. CASE NewDeployment /\ to' \in {Plain("UpdateFetch"), Make("StatusReport", "already")}
    <3>1. to'.id \in {"UpdateFetch", "StatusReport"}
      BY <2>3 DEF Plain, Make
    <3>2. /\ artifactName' = "prev" /\ finished' = {} /\ upd' = NoInfo /\ pc' = "transit"
          /\ call' = "none" /\ ret' = ret
      BY <2>1, <2>3, Zenon DEF NewDeployment
    <3> QED BY <2>1, <3>1, <3>2, Zenon DEF RouteInv, Onward, Dual, NoInfo, Verifying, RebootOps
  <2> QED BY <2>2, <2>3, Zenon DEF UpdateCheck

\* The download is retried, goes on, or is given up.
<1>FetchOnward.
    ASSUME Inv, OutcomeInv, RouteInv, UpdateFetch \/ FetchStoreRetry
    PROVE  RouteInv' /\ Onward
  <2> USE <1>FetchOnward
  <2>1. /\ to = cur /\ cur.id \in {"UpdateFetch", "FetchStoreRetry"} /\ call = "none"
        /\ UNCHANGED <<upd, stateData, artifactName, finished>>
    BY InHandler, Zenon DEF UpdateFetch, FetchStoreRetry, Handling, memory, disk, world
  <2>2. PICK s \in {Make("StatusReport", "failure"), Plain("UpdateStore"), Plain("FetchStoreRetry"),
                    Plain("UpdateFetch"), Plain("UpdateError")} : Goto(s)
    BY Zenon DEF UpdateFetch, FetchStoreRetry
  <2>3. s.id \in {"StatusReport", "UpdateStore", "FetchStoreRetry", "UpdateFetch", "UpdateError"}
    BY DEF Plain, Make
  <2>4. to' = s /\ pc' = "transit" /\ call' = "none" /\ ret' = "none"
    BY <2>2, Zenon DEF Goto
  <2> QED BY <2>1, <2>3, <2>4, Zenon DEF RouteInv, Onward, Before, Verifying, RebootOps

\* The handler of UpdateStore, up to the download.
<1>UpdateStoreOnward.
    ASSUME Inv, OutcomeInv, RouteInv, UpdateStore \/ UpdateStoreHeaders
    PROVE  RouteInv' /\ Onward
  <2> USE <1>UpdateStoreOnward
  <2>1. /\ to = cur /\ cur.id = "UpdateStore" /\ pc = "handle" /\ upd \in Info
        /\ stateData.name = "UpdateStore"
        /\ UNCHANGED <<artifactName, finished>>
    BY InHandler, Zenon DEF UpdateStore, UpdateStoreHeaders, Handling, Answered, disk, world, UpdateStates,
       StoredName
  <2>2. Dual(upd')
    BY <2>1, Zenon DEF UpdateStore, UpdateStoreHeaders, memory, RouteInv, Dual, Info
  <2>3. CASE UNCHANGED stateData /\ (\/ Goto(Make("StatusReport", "failure"))
                                     \/ Goto(Make("Cleanup", "failure")))
    <3>1. /\ Make("StatusReport", "failure").id = "StatusReport"
          /\ Make("Cleanup", "failure").id = "Cleanup"
      BY MakeShape, Zenon DEF StateIds, Statuses, UpdateStates
    <3> QED BY <2>2, <2>3, <3>1, <1>GotoAside, Zenon DEF RouteInv, Before, Verifying
  <2>4. CASE UNCHANGED stateData /\ Goto(Plain("FetchStoreRetry"))
    <3>1. Plain("FetchStoreRetry").id = "FetchStoreRetry"
      BY PlainShape, Zenon DEF StateIds
    <3> QED BY <2>1, <2>2, <2>4, <3>1, Zenon DEF Goto, RouteInv, Onward, Before, Verifying, RebootOps
  <2>5. CASE UNCHANGED stateData /\ Call("ReadHeaders")
    BY <2>1, <2>2, <2>5, <1>CallOnward, Zenon DEF Operations, RouteInv
  <2>6. CASE Stored("UpdateStore", upd') /\ Call("Download")
    <3>1. stateData'.name = "UpdateStore" /\ stateData'.info = upd'
      BY <2>6, Zenon DEF Stored, WriteState, StoredName
    <3> QED BY <2>1, <2>2, <2>6, <3>1, <1>CallOnward, Zenon DEF Operations
  <2>7. CASE StoreExceeded("UpdateStore", upd')
    BY <2>2, <2>7, <1>ExceededAside, Zenon
  <2> QED BY <2>3, <2>4, <2>5, <2>6, <2>7, Zenon DEF UpdateStore, UpdateStoreHeaders, StoreFailed, disk

\* The payload is downloaded, and what it supports is stored.
<1>StoredOnward.
    ASSUME Inv, OutcomeInv, RouteInv, UpdateStorePayloads \/ UpdateStoreRollback \/ AfterStore
    PROVE  RouteInv' /\ Onward
  <2> USE <1>StoredOnward
  <2>1. /\ to = cur /\ pc = "handle" /\ upd \in Info
        /\ UNCHANGED <<artifactName, finished>>
    BY InHandler, Zenon DEF UpdateStorePayloads, UpdateStoreRollback, AfterStore, Handling, Answered,
       disk, world
  <2>2. CASE UpdateStorePayloads
    <3>1. UNCHANGED <<upd, stateData>> /\ cur.id = "UpdateStore" /\ call = "Download" /\ ret # "none"
      BY <2>2, Zenon DEF UpdateStorePayloads, Answered, memory, disk
    <3>2. CASE ret = "err" /\ Goto(Make("Cleanup", "failure"))
      <4>1. Make("Cleanup", "failure").id = "Cleanup"
        BY MakeShape, Zenon DEF StateIds, Statuses, UpdateStates
      <4> QED BY <3>1, <3>2, <4>1, <1>GotoAside, Zenon DEF RouteInv, Before, Verifying
    <3>3. CASE ret # "err" /\ Call("SupportsRollback")
      BY <2>1, <3>1, <3>3, <1>CallOnward, Zenon DEF RouteInv, Operations, HasStored
    <3> QED BY <2>2, <3>2, <3>3, Zenon DEF UpdateStorePayloads
  <2>3. CASE UpdateStoreRollback
    <3>1. /\ cur.id = "UpdateStore" /\ call = "SupportsRollback"
          /\ ret \in {"err", "supported", "unsupported"}
      BY <2>3, Zenon DEF UpdateStoreRollback, Answered, Inv, CallInv
    <3>2. Dual(upd')
      BY <2>1, <2>3, <3>1, Zenon DEF UpdateStoreRollback, RouteInv, Dual, Info
    <3>3. CASE /\ stateData' = stateData \/ Stored("UpdateStore", upd')
               /\ Goto(Plain("UpdateError")) \/ Goto(Plain("AfterStore"))
      <4>1. Plain("UpdateError").id = "UpdateError" /\ Plain("AfterStore").id = "AfterStore"
        BY PlainShape, Zenon DEF StateIds, UpdateStates
      <4>2. stateData' = stateData \/ (stateData'.name = "UpdateStore" /\ stateData'.info = upd')
        BY <3>3 DEF Stored, WriteState, StoredName
      <4>3. to'.id \in {"UpdateError", "AfterStore"} /\ pc' = "transit" /\ call' = "none" /\ ret' = "none"
        BY <3>3, <4>1, Zenon DEF Goto
      <4> QED BY <2>1, <3>1, <3>2, <4>2, <4>3, Zenon DEF RouteInv, Onward, Before, Verifying,
                 HasStored, RebootOps
    <3>4. CASE StoreExceeded("UpdateStore", upd')
      BY <3>2, <3>4, <1>ExceededAside, Zenon
    <3> QED BY <2>3, <3>3, <3>4, Zenon DEF UpdateStoreRollback, StoreFailed
  <2>4. CASE AfterStore
    <3>1. Plain("Install").id = "Install"
      BY PlainShape, Zenon DEF StateIds, UpdateStates
    <3>2. /\ UNCHANGED <<upd, stateData>> /\ cur.id = "AfterStore"
          /\ to'.id = "Install" /\ pc' = "transit" /\ call' = "none" /\ ret' = "none"
      BY <2>4, <3>1, Zenon DEF AfterStore, Handling, Goto, memory, disk
    <3> QED BY <2>1, <3>2, Zenon DEF RouteInv, Onward, Before, Verifying, RebootOps
  <2> QED BY <2>2, <2>3, <2>4, Zenon

\* The payload is installed, and how to reboot is stored.
<1>InstallOnward.
    ASSUME Inv, OutcomeInv, RouteInv, Install \/ InstallInstalled \/ InstallRebootType
    PROVE  RouteInv' /\ Onward
  <2> USE <1>InstallOnward
  <2>1. /\ to = cur /\ cur.id = "Install" /\ cur \in State /\ pc = "handle" /\ upd \in Info
        /\ UNCHANGED <<artifactName, finished>>
    BY InHandler, Zenon DEF Install, InstallInstalled, InstallRebootType, Handling, Answered, disk,
       world
  <2>2. CASE Install
    BY <2>1, <2>2, <1>ErrorAside, <1>CallOnward, Zenon DEF Install, RouteInv, memory, disk, Operations
  <2>3. CASE InstallInstalled
    <3>1. UNCHANGED <<upd, stateData>> /\ call = "ArtifactInstall" /\ ret # "none"
      BY <2>3, Zenon DEF InstallInstalled, Answered, memory, disk
    <3>2. CASE ret = "err" /\ HandleError(cur, "transient")
      BY <2>1, <3>1, <3>2, <1>ErrorAside, Zenon DEF RouteInv
    <3>3. CASE ret # "err" /\ Call("NeedsArtifactReboot")
      BY <2>1, <3>1, <3>3, <1>CallOnward, Zenon DEF RouteInv, Operations, HasInstalled
    <3> QED BY <2>3, <3>2, <3>3, Zenon DEF InstallInstalled
  <2>4. CASE InstallRebootType
    <3>1. /\ call = "NeedsArtifactReboot" /\ ret \in {"err", "no reboot", "custom", "automatic"}
          /\ ret \notin {"no reboot", "automatic"}
      BY <2>4, Zenon DEF InstallRebootType, Answered, Inv, CallInv, RouteInv
    <3>2. Dual(upd')
      BY <2>1, <2>4, <3>1, Zenon DEF InstallRebootType, RouteInv, Dual, Info
    <3>3. CASE stateData' = stateData /\ HandleError(cur, "transient")
      BY <2>1, <3>2, <3>3, <1>ErrorAside, Zenon
    <3>4. CASE Stored("Install", upd') /\ Goto(Plain("Reboot"))
      <4>1. Plain("Reboot").id = "Reboot"
        BY PlainShape, Zenon DEF StateIds, UpdateStates
      <4>2. stateData'.name = "Install" /\ stateData'.info = upd'
        BY <3>4, Zenon DEF Stored, WriteState, StoredName
      <4>3. to'.id = "Reboot" /\ pc' = "transit" /\ call' = "none" /\ ret' = "none"
        BY <3>4, <4>1, Zenon DEF Goto
      <4> QED BY <2>1, <3>1, <3>2, <4>2, <4>3, Zenon
              DEF RouteInv, Onward, Before, Verifying, HasInstalled, RebootOps
    <3>5. CASE StoreExceeded("Install", upd')
      BY <3>2, <3>5, <1>ExceededAside, Zenon
    <3> QED BY <2>4, <3>1, <3>3, <3>4, <3>5, Zenon DEF InstallRebootType, StoreFailed
  <2> QED BY <2>2, <2>3, <2>4, Zenon

\* The reboot of a device with two root filesystems does not return, unless
\* with an error.
<1>RebootOnward.
    ASSUME Inv, OutcomeInv, RouteInv, Reboot \/ RebootReturns
    PROVE  RouteInv' /\ Onward
  <2> USE <1>RebootOnward
  <2>1. /\ to = cur /\ cur.id = "Reboot" /\ cur \in State /\ pc = "handle"
        /\ UNCHANGED <<artifactName, finished, upd, stateData>>
    BY InHandler, Zenon DEF Reboot, RebootReturns, Handling, Answered, disk, world, memory
  <2>2. Plain("Rollback").id = "Rollback"
    BY PlainShape, Zenon DEF StateIds, UpdateStates
  <2>3. CASE Goto(Plain("Rollback"))
    BY <2>1, <2>2, <2>3, <1>GotoAside, Zenon DEF RouteInv, Before, Verifying
  <2>4. CASE HandleError(cur, "transient")
    BY <2>1, <2>4, <1>ErrorAside, Zenon DEF RouteInv
  <2>5. CASE \E op \in {"ArtifactReboot", "SystemReboot"} : Call(op)
    BY <2>1, <2>5, <1>CallOnward, Zenon DEF RouteInv, Operations
  <2> QED BY <2>3, <2>4, <2>5, Zenon DEF Reboot, RebootReturns, Answered, RouteInv, RebootOps

\* The reboot is verified, and the payload committed.
<1>VerifyOnward.
    ASSUME Inv, OutcomeInv, RouteInv, VerifyReboot \/ AfterReboot \/ Commit \/ PreCommitRetry
    PROVE  RouteInv' /\ Onward
  <2> USE <1>VerifyOnward
  <2>1. /\ to = cur /\ cur.id \in Verifying /\ cur \in State /\ pc = "handle"
        /\ UNCHANGED <<artifactName, finished, upd, stateData>>
    BY InHandler, Zenon DEF VerifyReboot, AfterReboot, Commit, PreCommitRetry, Handling, Answered,
       disk, world,
       memory, Verifying
  <2>2. Plain("Commit") \in State /\ Plain("AfterReboot") \in State /\ Plain("PreCommitRetry") \in State
    BY PlainShape, Zenon DEF StateIds, UpdateStates
  <2>3. CASE \E s \in State : HandleError(s, "transient") \/ HandleError(s, "fatal")
    BY <2>1, <2>3, <1>ErrorAside, Zenon DEF RouteInv
  <2>4. CASE \E op \in {"ArtifactVerifyReboot", "ArtifactCommit"} : Call(op)
    BY <2>1, <2>4, <1>CallOnward, Zenon DEF RouteInv, Operations, Verifying
  <2>5. ASSUME NEW s, Goto(s), s.id \in Verifying
        PROVE  RouteInv' /\ Onward
    <3>1. to' = s /\ pc' = "transit" /\ call' = "none" /\ ret' = "none"
      BY <2>5, Zenon DEF Goto
    <3> QED BY <2>1, <2>5, <3>1, Zenon DEF RouteInv, Onward, Before, Verifying, RebootOps
  <2>6. /\ Plain("AfterReboot").id \in Verifying /\ Plain("Commit").id \in Verifying
        /\ [Plain("PreCommitRetry") EXCEPT !.tries = cur.tries + 1].id \in Verifying
        /\ [Plain("Commit") EXCEPT !.tries = cur.tries].id \in Verifying
    BY <2>1, <2>2, PlainShape DEF Verifying, StateIds, UpdateStates, State
  <2> QED BY <2>1, <2>2, <2>3, <2>4, <2>5, <2>6, Zenon DEF VerifyReboot, AfterReboot, Commit,
             PreCommitRetry

\* The commit is stored together with the name.
<1>CommitStoreOnward.
    ASSUME Inv, OutcomeInv, RouteInv, CommitStore
    PROVE  RouteInv' /\ Onward
  <2> USE <1>CommitStoreOnward
  <2>1. /\ to = cur /\ cur.id = "Commit" /\ cur \in State /\ UNCHANGED upd /\ Dual(upd)
    BY InHandler, Zenon DEF CommitStore, Answered, memory, RouteInv
  <2>2. CASE HandleError(cur, "transient") /\ UNCHANGED disk
    BY <2>1, <2>2, <1>ErrorAside, Zenon DEF disk
  <2>3. CASE /\ Stored("Commit", upd) \/ StoreFailed
             /\ Goto(Plain("AfterFirstCommit")) \/ Goto(Plain("UpdateError"))
    <3>1. /\ Plain("AfterFirstCommit").id = "AfterFirstCommit"
          /\ Plain("UpdateError").id = "UpdateError"
      BY PlainShape, Zenon DEF StateIds, UpdateStates
    <3>2. stateData' = stateData \/ (stateData'.name = "Commit" /\ stateData'.info = upd)
      BY <2>3 DEF Stored, StoreFailed, WriteState, StoredName
    <3>3. Dual(stateData'.info) /\ (stateData'.name = "Reboot" => stateData.name = "Reboot")
      BY <2>1, <3>2, Zenon DEF RouteInv
    <3> QED BY <2>1, <2>3, <3>1, <3>3, <1>GotoAside, Zenon DEF Before, Verifying
  <2>4. CASE StoreExceeded("Commit", upd)
    BY <2>1, <2>4, <1>ExceededAside, Zenon
  <2> QED BY <2>2, <2>3, <2>4, Zenon DEF CommitStore

\* The update is rolled back, failed and cleaned up.
<1>RollbackOnward.
    ASSUME Inv, OutcomeInv, RouteInv,
           Rollback \/ RollbackReboot \/ VerifyRollbackReboot \/ UpdateError \/ Cleanup
    PROVE  RouteInv' /\ Onward
  <2> USE <1>RollbackOnward
  <2>1. /\ to = cur /\ cur.id # "Init" /\ cur \in State /\ pc = "handle" /\ cur.status \in Statuses
        /\ UNCHANGED <<artifactName, finished, upd, stateData>>
    BY InHandler, StateShape, Zenon DEF Rollback, RollbackReboot, VerifyRollbackReboot, UpdateError, Cleanup,
       Handling, Answered, disk, world, memory
  <2>2. CASE HandleError(cur, "transient") \/ HandleError(cur, "fatal")
    BY <2>1, <2>2, <1>ErrorAside, Zenon DEF RouteInv
  <2>3. CASE \E op \in {"ArtifactRollback", "ArtifactRollbackReboot", "SystemReboot",
                        "ArtifactVerifyRollbackReboot", "ArtifactFailure", "Cleanup"} : Call(op)
    BY <2>1, <2>3, <1>CallOnward, Zenon DEF RouteInv, Operations
  <2>4. ASSUME NEW s, Goto(s), s.id \in {"UpdateError", "RollbackReboot", "VerifyRollbackReboot",
                                          "AfterRollbackReboot", "Cleanup", "StatusReport"}
        PROVE  RouteInv' /\ Onward
    BY <2>1, <2>4, <1>GotoAside, Zenon DEF RouteInv, Before, Verifying
  <2>5. /\ Plain("UpdateError").id = "UpdateError" /\ Plain("RollbackReboot").id = "RollbackReboot"
        /\ Plain("VerifyRollbackReboot").id = "VerifyRollbackReboot"
        /\ Plain("AfterRollbackReboot").id = "AfterRollbackReboot"
        /\ Make("Cleanup", "failure").id = "Cleanup"
        /\ Make("StatusReport", cur.status).id = "StatusReport"
        /\ Make("StatusReport", "failure").id = "StatusReport"
    BY <2>1, Zenon DEF Plain, Make
  <2>6. CASE Rollback
    BY <2>2, <2>3, <2>4, <2>5, <2>6, Zenon DEF Rollback, AfterRollback
  <2>7. CASE RollbackReboot \/ VerifyRollbackReboot
    BY <2>2, <2>3, <2>4, <2>5, <2>7, Zenon DEF RollbackReboot, VerifyRollbackReboot
  <2>8. CASE UpdateError \/ Cleanup
    BY <2>3, <2>4, <2>5, <2>8, Zenon DEF UpdateError, Cleanup
  <2> QED BY <2>6, <2>7, <2>8, Zenon

\* The result is reported.
<1>ReportOnward.
    ASSUME Inv, OutcomeInv, RouteInv, StatusReport \/ StatusReportRetry
    PROVE  RouteInv' /\ Onward
  <2> USE <1>ReportOnward
  <2>1. cur \in State /\ UNCHANGED <<upd, stateData>> /\ cur.status \in Statuses
    BY InHandler, StateShape, Zenon DEF StatusReport, StatusReportRetry, Handling, memory, disk
  <2>2. ASSUME NEW s, Goto(s), s.id \in Final \union {"Idle"}
        PROVE  RouteInv' /\ Onward
    BY <2>1, <2>2, <1>GotoAside, Zenon DEF RouteInv, Before, Verifying, Final
  <2>3. Make("ReportError", cur.status).id \in Final /\ Plain("Idle").id = "Idle"
    BY <2>1, PlainShape, MakeShape, Zenon DEF StateIds, UpdateStates, Final
  <2>4. CASE StatusReport
    <3> DEFINE sent == [cur EXCEPT !.tries = @ + 1]
    <3> DEFINE logged == [sent EXCEPT !.logTries = @ + 1]
    <3>1. CASE Retry(sent, sent.tries)
      <4>1. PICK s : s = [sent EXCEPT !.id = "StatusReportRetry", !.sending = sent.tries]
        OBVIOUS
      <4>2. s.id \in Final
        BY <2>1, <4>1, Zenon DEF State, Final
      <4> QED BY <2>2, <3>1, <4>1, <4>2, Zenon DEF Retry
    <3>2. CASE Retry(logged, logged.logTries)
      <4>1. PICK s : s = [logged EXCEPT !.id = "StatusReportRetry", !.sending = logged.logTries]
        OBVIOUS
      <4>2. s.id \in Final
        BY <2>1, <4>1, Zenon DEF State, Final
      <4> QED BY <2>2, <3>2, <4>1, <4>2, Zenon DEF Retry
    <3> HIDE DEF sent, logged
    <3> QED BY <2>2, <2>3, <2>4, <3>1, <3>2, Zenon DEF StatusReport, sent, logged
  <2>5. CASE StatusReportRetry
    <3>1. CASE Goto([cur EXCEPT !.id = "StatusReport", !.sending = 0])
      <4>1. PICK s : s = [cur EXCEPT !.id = "StatusReport", !.sending = 0]
        OBVIOUS
      <4>2. s.id \in Final
        BY <2>1, <4>1, Zenon DEF State, Final
      <4> QED BY <2>2, <3>1, <4>1, <4>2, Zenon
    <3> QED BY <2>2, <2>3, <2>5, <3>1, Zenon DEF StatusReportRetry
  <2> QED BY <2>4, <2>5, Zenon

<1> SUFFICES
    ASSUME Inv, OutcomeInv, RouteInv, Daemon
    PROVE  RouteInv' /\ Onward
  OBVIOUS
<1>1. CASE Handle
  BY <1>1, <1>RestOnward, <1>InitResumeOnward, <1>UpdateCheckOnward, <1>FetchOnward,
     <1>UpdateStoreOnward,
     <1>StoredOnward, <1>InstallOnward, <1>RebootOnward, <1>VerifyOnward, <1>CommitStoreOnward,
     <1>RollbackOnward,
     <1>ReportOnward, Zenon DEF Handle
<1> QED BY <1>1, <1>RunOnward, <1>StoreStateOnward, <1>LeaveFailsOnward, Zenon DEF Daemon

==============================================================================
