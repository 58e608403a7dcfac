----------------------- MODULE UpdateRefinementProofs ------------------------
(***************************************************************************)
(* The daemon of UpdateDaemon implements UpdatePromise, and has on disk    *)
(* what a restart needs, for every bound and every choice of faults.       *)
(***************************************************************************)
EXTENDS UpdateDaemonProofs, UpdateRefinement

\* States by what must have happened for the daemon to be in them, or to find
\* their names in the database.
Committed == {"AfterFirstCommit", "AfterCommit"}
RolledBack == {"RollbackReboot", "VerifyRollbackReboot", "AfterRollbackReboot"}
Forth == {"AfterStore", "Install", "Reboot", "VerifyReboot", "AfterReboot", "Commit",
          "PreCommitRetry"} \union Committed
Final == {"StatusReport", "StatusReportRetry", "ReportError"}

Renamed == "ArtifactCommit" \in finished /\ artifactName # "prev"

Owes(id) ==
    /\ id \in Committed => Renamed
    /\ id \in RolledBack => "ArtifactRollback" \in finished

\* What must be known of the update in a state of this kind.
Knows(id, info) ==
    /\ id \in Forth => info.rollback # "unknown"
    /\ id \in {"Reboot"} \union RolledBack => info.reboot \in {"custom", "automatic"}
    /\ id = "Rollback" => info.payload

\* The facts about an update are learned in this order.
Coherent(info) ==
    /\ info.rollback # "unknown" => info.payload
    /\ info.reboot # "unset" => info.rollback # "unknown"

\* What must have happened for a state to carry its status.
Earned(s) ==
    /\ s.status = "success" =>
           /\ s.id \in {"Cleanup"} \union Final
           /\ Renamed
           /\ upd.payload
           /\ inst # "none"
           /\ s.id # "Cleanup" => "Cleanup" \in finished
    /\ s.status = "already" => s.id \in Final /\ called = {}

Vouches(s) ==
    /\ Owes(s.id)
    /\ Knows(s.id, upd)
    /\ s.id \in Forth => inst # "none"
    /\ Earned(s)

\* The states whose handlers make a call.
Calls(id) ==
    CASE id = "UpdateStore" -> {"ReadHeaders", "Download", "SupportsRollback"}
      [] id = "Install" -> {"ArtifactInstall", "NeedsArtifactReboot"}
      [] id = "Reboot" -> {"ArtifactReboot", "SystemReboot"}
      [] id = "VerifyReboot" -> {"ArtifactVerifyReboot"}
      [] id = "Commit" -> {"ArtifactCommit"}
      [] id = "Rollback" -> {"ArtifactRollback"}
      [] id = "RollbackReboot" -> {"ArtifactRollbackReboot", "SystemReboot"}
      [] id = "VerifyRollbackReboot" -> {"ArtifactVerifyRollbackReboot"}
      [] id = "UpdateError" -> {"ArtifactFailure"}
      [] id = "Cleanup" -> {"Cleanup"}
      [] OTHER -> {}

\* What the database says is true, also after a restart; when the update is
\* over it names no state that a restart would resume.
EntryInv ==
    /\ Owes(stateData.name)
    /\ Knows(stateData.name, stateData.info)
    /\ Coherent(stateData.info)
    /\ pc \in {"enter", "handle"} /\ cur.id \in UpdateStates => stateData.info = upd
    /\ Quiet(cur) \/ Quiet(to) => stateData.name \notin Committed \union RolledBack

InProgressInv ==
    /\ call # "none" => call \in called /\ call \in Calls(cur.id)
    /\ call \in {"Download", "SupportsRollback"} => upd.payload /\ inst # "none"

OutcomeInv ==
    /\ Vouches(cur)
    /\ Vouches(to)
    /\ Coherent(upd)
    /\ EntryInv
    /\ InProgressInv

\* A step that takes nothing back.
Grows ==
    /\ finished \subseteq finished'
    /\ artifactName' = artifactName \/ artifactName' # "prev"

\* A state that needs nothing.
Free(s) ==
    /\ s.id \notin Forth \union RolledBack \union {"Rollback"}
    /\ s.status \notin {"success", "already"}

Decisive == Committed \union RolledBack

------------------------------------------------------------------------------
(* Entries, states and restarts.                                           *)

\* A state without a status is free.
LEMMA PlainFree ==
    ASSUME NEW id \in StateIds, id \notin Forth \union RolledBack \union {"Rollback"}
    PROVE  Free(Plain(id)) /\ Plain(id).id = id
BY PlainShape, Zenon DEF Free

\* A free state vouches for nothing.
LEMMA FreeVouches ==
    ASSUME NEW s, Free(s)
    PROVE  Vouches(s)
BY Zenon DEF Free, Vouches, Owes, Knows, Earned, Forth

\* What the entry says stays true.
LEMMA EntryStays ==
    ASSUME EntryInv, Grows, stateData' = stateData
    PROVE  /\ Owes(stateData.name)'
           /\ Knows(stateData.name, stateData.info)'
           /\ Coherent(stateData.info)'
BY Zenon DEF EntryInv, Owes, Knows, Coherent, Renamed, Grows

\* A new process has nothing but what is on disk, and that is still true.
LEMMA RestartOutcome ==
    ASSUME Inv, OutcomeInv, Restart, Grows
    PROVE  OutcomeInv'
<1>1. /\ cur' = Plain("Init") /\ to' = Plain("Init") /\ call' = "none" /\ upd' = NoInfo
      /\ stateData' = stateData
  BY Zenon DEF Restart, disk
<1>2. Free(Plain("Init")) /\ Plain("Init").id = "Init"
  BY PlainFree, Zenon DEF StateIds, UpdateStates, Forth, Committed, RolledBack
<1>3. Vouches(cur)' /\ Vouches(to)' /\ Coherent(upd)'
  BY <1>1, <1>2, Zenon DEF Free, Vouches, Owes, Knows, Earned, Forth, Coherent, NoInfo
<1>4. EntryInv'
  BY <1>1, <1>2, EntryStays, Zenon DEF OutcomeInv, EntryInv, Quiet, UpdateStates
<1> QED BY <1>1, <1>3, <1>4, Zenon DEF OutcomeInv, InProgressInv

\* What a handler of an update state finds in the database.
LEMMA InUpdate ==
    ASSUME Inv, OutcomeInv, pc = "handle", cur.id \in UpdateStates
    PROVE  stateData.name = StoredName(cur.id) /\ stateData.info = upd
BY Zenon DEF Inv, StoredInv, OutcomeInv, EntryInv

------------------------------------------------------------------------------
(* The payload's answers, and all steps together.                          *)

\* An answer adds to what has happened.
LEMMA AnswerOutcome ==
    ASSUME Inv, OutcomeInv, NEW r, AnswerWith(r)
    PROVE  OutcomeInv'
<1>1. /\ UNCHANGED <<cur, to, pc, call, called, upd, inst, stateData, artifactName>>
      /\ finished \subseteq finished'
  BY Zenon DEF AnswerWith, memory, disk
<1>2. Vouches(cur)' /\ Vouches(to)' /\ Coherent(upd)'
  BY <1>1 DEF OutcomeInv, Vouches, Owes, Knows, Earned, Renamed, Coherent
<1>3. EntryInv'
  BY <1>1, Zenon DEF OutcomeInv, EntryInv, Owes, Knows, Coherent, Renamed, Quiet
<1> QED BY <1>1, <1>2, <1>3, Zenon DEF OutcomeInv, InProgressInv

\* A new process starts.
LEMMA MachineOutcome ==
    ASSUME Inv, OutcomeInv, Machine
    PROVE  OutcomeInv'
<1>1. Restart /\ Grows
  BY Zenon DEF Machine, Reboots, Crash, StartAgain, Restart, Grows, disk
<1> QED BY <1>1, RestartOutcome, Zenon

\* The first start of the daemon satisfies the invariant.
LEMMA OutcomeInit == Init => OutcomeInv
<1> SUFFICES ASSUME Init PROVE OutcomeInv
  OBVIOUS
<1>1. /\ cur = Plain("Init") /\ to = Plain("Init") /\ call = "none" /\ upd = NoInfo
      /\ stateData = NoEntry
  BY Zenon DEF Init
<1>2. Free(Plain("Init")) /\ Plain("Init").id = "Init"
  BY PlainFree, Zenon DEF StateIds, UpdateStates, Forth, Committed, RolledBack
<1>3. Vouches(cur) /\ Vouches(to) /\ Coherent(upd)
  BY <1>1, <1>2, FreeVouches, Zenon DEF Coherent, NoInfo
<1>4. EntryInv
  BY <1>1, <1>2, Zenon DEF EntryInv, NoEntry, NoInfo, Owes, Knows, Coherent, Forth, Committed, RolledBack,
     UpdateStates
<1> QED BY <1>1, <1>3, <1>4, Zenon DEF OutcomeInv, InProgressInv

\* Every step keeps the invariant.
LEMMA OutcomeNext == Inv /\ OutcomeInv /\ [Next]_vars => OutcomeInv'
(* The ways a step of the daemon ends.                                     *)

\* A constructor makes a free state.
<1>MakeFree.
    ASSUME NEW id \in StateIds, NEW status \in Statuses,
           id \notin Forth \union RolledBack \union {"Rollback"},
           status \notin {"success", "already"}
    PROVE  Free(Make(id, status)) /\ Make(id, status).id = id
  BY <1>MakeFree, MakeShape, Zenon DEF Free

\* What the current state vouches for stays true.
<1>CurVouches.
    ASSUME Vouches(cur), Grows, cur' = cur, called' = called, UNCHANGED <<upd, inst>>
    PROVE  Vouches(cur)'
  BY <1>CurVouches, Zenon DEF Vouches, Owes, Knows, Earned, Renamed, Grows

\* The daemon stays in its state and decides where to go.
<1>Decides.
    ASSUME cur' = cur, called' = called, call' = "none", pc' \in {"transit", "flag"},
           Vouches(cur)', Vouches(to)', Coherent(upd)',
           Owes(stateData.name)', Knows(stateData.name, stateData.info)',
           Coherent(stateData.info)',
           Quiet(cur) \/ Quiet(to') => stateData'.name \notin Decisive
    PROVE  OutcomeInv'
  BY <1>Decides, Zenon DEF OutcomeInv, EntryInv, InProgressInv, Quiet, Decisive

\* It goes to state s; memory and database stay as they are.
<1>GoesTo.
    ASSUME OutcomeInv, NEW s, Goto(s) \/ GotoBroken(s), Vouches(s), Grows,
           UNCHANGED <<upd, inst, stateData>>,
           Quiet(s) => Quiet(cur) \/ stateData.name \notin Decisive
    PROVE  OutcomeInv'
  <2> USE <1>GoesTo
  <2>1. /\ to' = s /\ cur' = cur /\ called' = called /\ call' = "none"
        /\ pc' \in {"transit", "flag"}
    BY Zenon DEF Goto, GotoBroken
  <2>2. Vouches(cur)' /\ Coherent(upd)'
    BY <2>1, <1>CurVouches, Zenon DEF OutcomeInv, Coherent
  <2>3. Vouches(to)'
    BY <2>1, Zenon DEF Grows, Vouches, Owes, Knows, Earned, Renamed
  <2>4. /\ Owes(stateData.name)' /\ Knows(stateData.name, stateData.info)'
        /\ Coherent(stateData.info)'
    BY EntryStays, Zenon DEF OutcomeInv
  <2>5. Quiet(cur) \/ Quiet(to') => stateData'.name \notin Decisive
    BY <2>1, Zenon DEF OutcomeInv, EntryInv, Decisive
  <2> QED BY <2>1, <2>2, <2>3, <2>4, <2>5, <1>Decides, Zenon

\* It goes to a free state.
<1>GoesFree.
    ASSUME OutcomeInv, NEW s, Goto(s) \/ GotoBroken(s), Free(s), Grows,
           UNCHANGED <<upd, inst, stateData>>,
           Quiet(s) => Quiet(cur) \/ stateData.name \notin Decisive
    PROVE  OutcomeInv'
  BY <1>GoesFree, FreeVouches, <1>GoesTo, Zenon

\* It calls the payload.
<1>CallsOut.
    ASSUME Inv, OutcomeInv, NEW op \in Operations, Call(op), pc = "handle", Grows,
           op \in Calls(cur.id),
           op \in {"Download", "SupportsRollback"} => upd.payload /\ inst # "none",
           UNCHANGED <<upd, inst, stateData>>
    PROVE  OutcomeInv'
  <2> USE <1>CallsOut
  <2>1. /\ to' = to /\ cur' = cur /\ pc' = pc /\ call' = op /\ called' = called \union {op}
        /\ to = cur
    BY Zenon DEF Call, Inv, PositionInv
  <2>2. cur.status # "already"
    BY Zenon DEF OutcomeInv, Vouches, Earned, Final, Calls
  <2>3. Vouches(cur)' /\ Coherent(upd)'
    BY <2>1, <2>2, Zenon DEF OutcomeInv, Vouches, Owes, Knows, Earned, Renamed, Grows, Coherent
  <2>4. EntryInv'
    BY <2>1, EntryStays, Zenon DEF OutcomeInv, EntryInv, Quiet
  <2>5. InProgressInv'
    BY <2>1, Zenon DEF InProgressInv
  <2> QED BY <2>1, <2>3, <2>4, <2>5, Zenon DEF OutcomeInv

\* An error leads to a free state, to the rollback, or once more through its
\* reboot.
<1>ErrorVouches.
    ASSUME OutcomeInv, NEW s \in State, s = cur \/ s = Plain("Commit"),
           NEW severity \in {"transient", "fatal"}, NEW t \in State, ErrorLeadsTo(s, severity, t)
    PROVE  /\ Vouches(t)
           /\ Quiet(t) => Quiet(cur) \/ (severity = "transient" /\ s.id \notin EndsUpdate)
  <2> USE <1>ErrorVouches
  <2>1. Plain("Commit").id = "Commit"
    BY PlainShape, Zenon DEF StateIds, UpdateStates
  <2>2. t.id = "Error" => t.status = severity
    BY MakeShape DEF ErrorLeadsTo, StateIds, Statuses
  <2>3. Quiet(t) => Quiet(cur) \/ (severity = "transient" /\ s.id \notin EndsUpdate)
    BY <2>1, <2>2, Zenon DEF Quiet, ErrorLeadsTo
  <2>4. CASE t.id \in RolledBack
    <3>1. s = cur /\ s.id \in RolledBack
      BY <2>1, <2>4, Zenon DEF ErrorLeadsTo, RolledBack
    <3>2. Owes(t.id) /\ Knows(t.id, upd)
      BY <2>4, <3>1, Zenon DEF OutcomeInv, Vouches, Owes, Knows, Committed, RolledBack, Forth
    <3> QED BY <2>3, <2>4, <3>2, Zenon DEF Vouches, ErrorLeadsTo, Earned, Forth, Committed, RolledBack
  <2>5. CASE t.id = "Rollback"
    <3>1. upd.payload
      BY <2>5, Zenon DEF OutcomeInv, Coherent, ErrorLeadsTo
    <3> QED BY <2>3, <2>5, <3>1, Zenon DEF Vouches, Owes, Knows, ErrorLeadsTo, Earned, Forth, Committed,
               RolledBack
  <2>6. CASE t.id \notin RolledBack \union {"Rollback"}
    <3>1. Free(t)
      BY <2>6, Zenon DEF Free, ErrorLeadsTo, Committed, Forth
    <3> QED BY <2>3, <3>1, FreeVouches, Zenon
  <2> QED BY <2>4, <2>5, <2>6, Zenon

\* A handler ends in an error; memory and database stay as they are.
<1>Errs.
    ASSUME OutcomeInv, NEW s \in State, s = cur \/ s = Plain("Commit"),
           NEW severity \in {"transient", "fatal"}, HandleError(s, severity), Grows,
           severity = "transient" /\ s.id \notin EndsUpdate =>
               Quiet(cur) \/ stateData.name \notin Decisive,
           UNCHANGED <<upd, inst, stateData>>
    PROVE  OutcomeInv'
  <2> USE <1>Errs
  <2>1. PICK t \in State : ErrorLeadsTo(s, severity, t)
    BY HandleErrorShape, Zenon
  <2>2. Vouches(t) /\ (Quiet(t) => Quiet(cur) \/ stateData.name \notin Decisive)
    BY <2>1, <1>ErrorVouches, Zenon
  <2> QED BY <2>1, <2>2, <1>GoesTo, Zenon DEF ErrorLeadsTo

(* The actions: Run.                                                       *)

\* Nothing but the position in the iteration changes.
<1>RunOutcome.
    ASSUME Inv, OutcomeInv, Exit \/ Transit
    PROVE  OutcomeInv'
  <2> USE <1>RunOutcome
  <2>1. /\ UNCHANGED <<to, call, called, upd, inst, stateData, artifactName, finished>>
        /\ cur' \in {cur, to} /\ pc = "transit" /\ call = "none"
        /\ cur'.id \in UpdateStates => pc' \notin {"enter", "handle"}
    BY Zenon DEF Exit, Transit, Inv, CallInv, memory, disk, world
  <2>2. Vouches(cur)' /\ Vouches(to)' /\ Coherent(upd)'
    BY <2>1 DEF OutcomeInv, Vouches, Owes, Knows, Earned, Renamed, Coherent
  <2>3. EntryInv'
    BY <2>1, Zenon DEF OutcomeInv, EntryInv, Owes, Knows, Coherent, Renamed, Quiet
  <2> QED BY <2>1, <2>2, <2>3, Zenon DEF OutcomeInv, InProgressInv

\* A signal forces another state at rest.
<1>ForceOutcome.
    ASSUME Inv, OutcomeInv, NEW id \in {"UpdateCheck", "InventoryUpdate"}, ForceToState(id)
    PROVE  OutcomeInv'
  <2> USE <1>ForceOutcome
  <2>1. /\ to' = Plain(id) /\ cur' = cur /\ called' = called /\ pc' = "transit" /\ call' = "none"
        /\ UNCHANGED <<upd, inst, stateData, artifactName, finished>>
        /\ Quiet(to)
    BY Zenon DEF ForceToState, Inv, CallInv, memory, disk, world, Quiet
  <2>2. Grows /\ Coherent(upd)'
    BY <2>1, Zenon DEF Grows, OutcomeInv, Coherent
  <2>3. Free(Plain(id))
    BY PlainFree, Zenon DEF StateIds, Forth, Committed, RolledBack
  <2>4. Vouches(to)'
    BY <2>1, <2>3, Zenon DEF Free, Vouches, Owes, Knows, Earned, Forth
  <2>5. Vouches(cur)'
    BY <2>1, <2>2, <1>CurVouches, Zenon DEF OutcomeInv
  <2>6. stateData'.name \notin Decisive
    BY <2>1, Zenon DEF OutcomeInv, EntryInv, Decisive
  <2> QED BY <2>1, <2>2, <2>4, <2>5, <2>6, EntryStays, <1>Decides, Zenon DEF OutcomeInv

\* A script fails when the current state is left.
<1>LeaveFailsOutcome.
    ASSUME Inv, OutcomeInv, LeaveFails
    PROVE  OutcomeInv'
  <2> USE <1>LeaveFailsOutcome
  <2>1. /\ HandleError(cur, "transient") /\ cur \in State
        /\ UNCHANGED <<upd, inst, stateData, artifactName, finished>>
    BY Zenon DEF LeaveFails, memory, disk, world, Inv, TypeOK
  <2>2. cur.id \notin EndsUpdate => Quiet(cur)
    BY <2>1, StateShape, Zenon DEF LeaveFails, LeaveCanFail, Transition, EndsUpdate, Quiet, StateIds,
       UpdateStates, Inv, PositionInv
  <2> QED BY <2>1, <2>2, <1>Errs, Zenon DEF Grows

\* A script fails when the current state is entered.
<1>EnterOutcome.
    ASSUME Inv, OutcomeInv, Enter
    PROVE  OutcomeInv'
  <2> USE <1>EnterOutcome
  <2>1. /\ pc = "enter" /\ cur \in State
        /\ UNCHANGED <<upd, inst, stateData, artifactName, finished>>
    BY Zenon DEF Enter, memory, disk, world, Inv, TypeOK
  <2>2. CASE pc' = "handle" /\ UNCHANGED <<cur, to, call, ret, called>>
    <3>1. Vouches(cur)' /\ Vouches(to)' /\ Coherent(upd)'
      BY <2>1, <2>2 DEF OutcomeInv, Vouches, Owes, Knows, Earned, Renamed, Coherent
    <3>2. EntryInv'
      BY <2>1, <2>2, Zenon DEF OutcomeInv, EntryInv, Owes, Knows, Renamed, Coherent, Quiet
    <3> QED BY <2>1, <2>2, <3>1, <3>2, Zenon DEF OutcomeInv, InProgressInv
  <2>3. CASE Transition(cur) \in EnterCanFail /\ HandleError(cur, "transient")
    <3>1. cur.id \notin EndsUpdate => Quiet(cur) \/ cur.id = "UpdateFetch"
      BY <2>1, <2>3, StateShape, Zenon DEF EnterCanFail, Transition, EndsUpdate, Quiet, StateIds,
         UpdateStates, Inv, PositionInv
    <3>2. cur.id = "UpdateFetch" => stateData.name \notin Decisive
      BY <2>1, Zenon DEF Inv, StoredInv, StoredName, UpdateStates, Decisive, Committed, RolledBack
    <3> QED BY <2>1, <2>3, <3>1, <3>2, <1>Errs, Zenon DEF Grows
  <2> QED BY <2>2, <2>3, Zenon DEF Enter

\* The artifact is marked as broken.
<1>FlagOutcome.
    ASSUME Inv, OutcomeInv, SetBrokenArtifactFlag
    PROVE  OutcomeInv'
  <2> USE <1>FlagOutcome
  <2>1. /\ UNCHANGED <<cur, to, call, called, upd, inst, stateData, finished>>
        /\ artifactName' \in {artifactName, "broken"} /\ pc' = "transit"
    BY Zenon DEF SetBrokenArtifactFlag, memory, world
  <2>2. Renamed => Renamed'
    BY <2>1, Zenon DEF Renamed
  <2>3. Vouches(cur)' /\ Vouches(to)'
    BY <2>1, <2>2 DEF OutcomeInv, Vouches, Owes, Knows, Earned, Coherent
  <2>4. Coherent(upd)'
    BY <2>1, Zenon DEF OutcomeInv, Coherent
  <2>5. EntryInv'
    BY <2>1, <2>2, Zenon DEF OutcomeInv, EntryInv, Owes, Knows, Coherent, Quiet
  <2>6. InProgressInv'
    BY <2>1, Zenon DEF OutcomeInv, InProgressInv
  <2> QED BY <2>3, <2>4, <2>5, <2>6, Zenon DEF OutcomeInv

\* What a store of the current state says is true.
<1>StoredTrue.
    ASSUME Vouches(cur), Grows, NEW info, Knows(cur.id, info), Coherent(info),
           stateData'.name = StoredName(cur.id), stateData'.info = info
    PROVE  /\ Owes(stateData.name)'
           /\ Knows(stateData.name, stateData.info)'
           /\ Coherent(stateData.info)'
           /\ Quiet(cur) => stateData'.name \notin Decisive
  BY <1>StoredTrue, Zenon DEF Vouches, Owes, Knows, Coherent, Renamed, Grows, StoredName, Forth,
     Committed, RolledBack,
     Quiet, Decisive

\* The count has run out: the update is reported as a failure.
<1>ExceededOutcome.
    ASSUME OutcomeInv, Grows, NEW info, Knows(cur.id, info), Coherent(info),
           StoreExceeded(cur.id, info), Vouches(cur)', Coherent(upd)'
    PROVE  OutcomeInv'
  <2> USE <1>ExceededOutcome
  <2> DEFINE s == Make("StatusReport", "failure")
  <2>1. Free(s) /\ s.id = "StatusReport"
    BY <1>MakeFree, Zenon DEF StateIds, UpdateStates, Statuses, Forth, Committed, RolledBack
  <2>2. /\ to' = s /\ cur' = cur /\ called' = called
        /\ call' = "none" /\ pc' = "flag"
    BY Zenon DEF StoreExceeded, GotoBroken
  <2> HIDE DEF s
  <2>3. Vouches(to)' /\ ~Quiet(to')
    BY <2>1, <2>2, Zenon DEF Free, Vouches, Owes, Knows, Earned, Forth, Quiet
  <2>4. CASE stateData' = stateData
    <3>1. Quiet(cur) => stateData.name \notin Decisive
      BY Zenon DEF OutcomeInv, EntryInv, Decisive
    <3> QED BY <2>2, <2>3, <2>4, <3>1, EntryStays, <1>Decides, Zenon DEF OutcomeInv
  <2>5. CASE WriteState(cur.id, info)
    <3>1. stateData'.name = StoredName(cur.id) /\ stateData'.info = info
      BY <2>5, Zenon DEF WriteState
    <3>2. Vouches(cur)
      BY Zenon DEF OutcomeInv
    <3> QED BY <2>2, <2>3, <3>1, <3>2, <1>StoredTrue, <1>Decides, Zenon
  <2> QED BY <2>4, <2>5, Zenon DEF StoreExceeded

\* transitionState stores the state it has entered.
<1>StoreStateOutcome.
    ASSUME Inv, OutcomeInv, StoreState
    PROVE  OutcomeInv'
  <2> USE <1>StoreStateOutcome
  <2>1. /\ UNCHANGED <<upd, inst, artifactName, finished>> /\ cur \in State /\ to = cur
        /\ Knows(cur.id, upd) /\ Coherent(upd) /\ Vouches(cur) /\ Grows /\ call = "none"
    BY Zenon DEF StoreState, memory, world, Inv, TypeOK, PositionInv, OutcomeInv, Vouches, Grows,
       CallInv
  <2>2. WriteState(cur.id, upd) =>
          stateData'.name = StoredName(cur.id) /\ stateData'.info = upd
    BY DEF WriteState
  <2>3. CASE Stored(cur.id, upd) /\ UNCHANGED <<cur, to, call, ret, called>>
    <3>1. /\ Owes(stateData.name)' /\ Knows(stateData.name, stateData.info)'
          /\ Coherent(stateData.info)' /\ (Quiet(cur) => stateData'.name \notin Decisive)
      BY <2>1, <2>2, <2>3, <1>StoredTrue, Zenon DEF Stored
    <3>2. EntryInv'
      BY <2>1, <2>2, <2>3, <3>1, Zenon DEF EntryInv, Quiet, Decisive, Stored
    <3>3. Vouches(cur)' /\ Vouches(to)' /\ Coherent(upd)'
      BY <2>1, <2>3, <1>CurVouches, Zenon DEF Coherent
    <3> QED BY <2>1, <2>3, <3>2, <3>3, Zenon DEF OutcomeInv, InProgressInv
  <2>4. CASE StoreFailed /\ HandleError(cur, "fatal")
    BY <2>1, <2>4, <1>Errs, Zenon DEF StoreFailed
  <2>5. CASE StoreExceeded(cur.id, upd)
    <3>1. Vouches(cur)' /\ Coherent(upd)'
      BY <2>1, <2>5, <1>CurVouches, Zenon DEF Coherent, StoreExceeded, GotoBroken
    <3> QED BY <2>1, <2>5, <3>1, <1>ExceededOutcome, Zenon
  <2> QED BY <2>3, <2>4, <2>5, Zenon DEF StoreState

(* The actions: the states outside of an update, and a restart.            *)

\* The states outside of an update lead to each other.
<1>RestOutcome.
    ASSUME Inv, OutcomeInv,
           AuthorizeWait \/ Authorize \/ CheckWait \/ InventoryUpdate \/ Error
    PROVE  OutcomeInv'
  <2> USE <1>RestOutcome
  <2>1. Quiet(cur) /\ UNCHANGED <<upd, inst, stateData, artifactName, finished>>
    BY Zenon DEF AuthorizeWait, Authorize, CheckWait, InventoryUpdate, Error, Handling, Quiet,
           Inv, PositionInv, memory, disk, world
  <2>2. PICK s \in {Plain("Idle"), Plain("Authorize"), Plain("AuthorizeWait"), Plain("CheckWait"),
                    Plain("UpdateCheck"), Plain("InventoryUpdate"), Make("Error", "transient"),
                    Make("Error", "fatal")} : Goto(s)
    BY Zenon DEF AuthorizeWait, Authorize, CheckWait, InventoryUpdate, Error
  <2>3. Free(s)
    BY PlainFree, <1>MakeFree, Zenon DEF StateIds, Statuses, Forth, Committed, RolledBack
  <2> QED BY <2>1, <2>2, <2>3, <1>GoesFree, Zenon DEF Grows

\* Idle removes the state data, or fails to.
<1>IdleOutcome.
    ASSUME Inv, OutcomeInv, Idle
    PROVE  OutcomeInv'
  <2> USE <1>IdleOutcome
  <2>1. PICK s \in {Plain("CheckWait"), Plain("AuthorizeWait")} : Goto(s)
    BY Zenon DEF Idle
  <2>2. Free(s)
    BY PlainFree, Zenon DEF StateIds, UpdateStates, Forth, Committed, RolledBack
  <2>3. /\ Quiet(cur) /\ UNCHANGED <<upd, inst, artifactName, finished>> /\ Grows
        /\ stateData.name \notin Decisive /\ Vouches(cur) /\ Coherent(upd)
    BY Zenon DEF Idle, Handling, Quiet, memory, world, Grows, OutcomeInv, EntryInv, Decisive
  <2>4. CASE stateData' = stateData
    BY <2>1, <2>2, <2>3, <2>4, <1>GoesFree, Zenon
  <2>5. CASE stateData' = NoEntry
    <3>1. /\ to' = s /\ cur' = cur /\ called' = called /\ call' = "none" /\ pc' = "transit"
      BY <2>1, Zenon DEF Goto
    <3>2. /\ Owes(stateData.name)' /\ Knows(stateData.name, stateData.info)'
          /\ Coherent(stateData.info)' /\ stateData'.name \notin Decisive
      BY <2>5, Zenon DEF NoEntry, NoInfo, Owes, Knows, Coherent, Forth, Committed, RolledBack, Decisive
    <3>3. Vouches(to)'
      BY <2>2, <3>1, Zenon DEF Free, Vouches, Owes, Knows, Earned, Forth
    <3>4. Vouches(cur)' /\ Coherent(upd)'
      BY <2>3, <3>1, <1>CurVouches, Zenon DEF Coherent
    <3> QED BY <3>1, <3>2, <3>3, <3>4, <1>Decides, Zenon
  <2> QED BY <2>4, <2>5, Zenon DEF Idle

\* A deployment begins.
<1>UpdateCheckOutcome.
    ASSUME Inv, OutcomeInv, UpdateCheck
    PROVE  OutcomeInv'
  <2> USE <1>UpdateCheckOutcome
  <2>1. Quiet(cur) /\ cur.id = "UpdateCheck" /\ call = "none"
    BY Zenon DEF UpdateCheck, Handling, Quiet
  <2>2. CASE NewDeployment /\ to' \in {Plain("UpdateFetch"), Make("StatusReport", "already")}
    <3>1. /\ called' = {} /\ finished' = {} /\ pc' = "transit" /\ cur' = cur
          /\ call' = "none" /\ stateData' = stateData /\ upd' = NoInfo
      BY <2>1, <2>2, Zenon DEF NewDeployment
    <3>2. /\ to'.id \in {"UpdateFetch", "StatusReport"} /\ to'.status \in {"none", "already"}
          /\ to'.status = "already" => to'.id = "StatusReport"
      BY <2>2 DEF Plain, Make
    <3>3. cur.status \notin {"success", "already"}
      BY <2>1, Zenon DEF OutcomeInv, Vouches, Earned, Final
    <3>4. Vouches(cur)' /\ Vouches(to)' /\ Coherent(upd)'
      BY <2>1, <3>1, <3>2, <3>3, Zenon DEF Vouches, Owes, Knows, Earned, Coherent, NoInfo, Forth, Final,
         Committed, RolledBack
    <3>5. stateData.name \notin Decisive
      BY <2>1, Zenon DEF OutcomeInv, EntryInv, Decisive
    <3>6. EntryInv'
      BY <3>1, <3>5, Zenon DEF OutcomeInv, EntryInv, Owes, Knows, Coherent, Decisive
    <3> QED BY <3>1, <3>4, <3>6, Zenon DEF OutcomeInv, InProgressInv
  <2>3. CASE /\ Goto(Plain("CheckWait")) \/ Goto(Make("Error", "transient"))
             /\ UNCHANGED <<memory, disk, backend, world>>
    <3>1. PICK s \in {Plain("CheckWait"), Make("Error", "transient")} : Goto(s)
      BY <2>3, Zenon
    <3>2. Free(s)
      BY PlainFree, <1>MakeFree, Zenon DEF StateIds, Statuses, UpdateStates, Forth, Committed, RolledBack
    <3> QED BY <2>1, <2>3, <3>1, <3>2, <1>GoesFree, Zenon DEF Grows, memory, disk, world
  <2> QED BY <2>2, <2>3, Zenon DEF UpdateCheck

\* A start without state data, or with an unreadable entry.
<1>InitOutcome.
    ASSUME Inv, OutcomeInv, InitIdle \/ InitLoadFails
    PROVE  OutcomeInv'
  <2> USE <1>InitOutcome
  <2>1. PICK s \in {Plain("Idle"), Plain("UpdateError")} :
          Goto(s) /\ (s = Plain("Idle") => stateData = NoEntry)
    BY PlainShape DEF InitIdle, InitLoadFails, StateIds, UpdateStates
  <2>2. Free(s) /\ (s = Plain("Idle") \/ s.id = "UpdateError")
    BY PlainFree, Zenon DEF StateIds, UpdateStates, Forth, Committed, RolledBack
  <2>3. UNCHANGED <<upd, inst, stateData, artifactName, finished>>
    BY Zenon DEF InitIdle, InitLoadFails, memory, disk, world
  <2>4. Quiet(s) => stateData.name \notin Decisive
    BY <2>1, <2>2 DEF Quiet, NoEntry, Decisive, Committed, RolledBack
  <2> QED BY <2>1, <2>2, <2>3, <2>4, <1>GoesFree, Zenon DEF Grows

\* Where a restarted daemon goes on is what the entry accounts for.
<1>ResumeVouched.
    ASSUME Inv, OutcomeInv, NextAfterRestart(stateData.name, stateData.info),
           Grows, upd' = stateData.info,
           inst' = IF stateData.info.payload THEN "current" ELSE "none"
    PROVE  Vouches(to)' /\ ~Quiet(to')
  <2> USE <1>ResumeVouched
  <2> DEFINE name == stateData.name
             info == stateData.info
  <2>1. /\ Owes(name) /\ Knows(name, info) /\ Coherent(info)
        /\ name \in UpdateStates \union {"none"}
    BY Zenon DEF OutcomeInv, EntryInv, Inv, TypeOK, Entry
  <2>2. CASE name \in {"UpdateStore", "AfterStore", "Cleanup"}
    <3>1. to' = Make("Cleanup", "failure")
      BY <2>2, Zenon DEF NextAfterRestart, Goto
    <3>2. Free(Make("Cleanup", "failure")) /\ Make("Cleanup", "failure").id = "Cleanup"
      BY <1>MakeFree, Zenon DEF StateIds, UpdateStates, Statuses, Forth, Committed, RolledBack
    <3> QED BY <3>1, <3>2, Zenon DEF Free, Vouches, Owes, Knows, Earned, Forth, Quiet
  <2>3. CASE name = "Reboot"
    <3>1. to' = Plain("VerifyReboot")
      BY <2>3, Zenon DEF NextAfterRestart, Goto
    <3>2. to'.id = "VerifyReboot" /\ to'.status = "none"
      BY <3>1, PlainShape, Zenon DEF StateIds, UpdateStates
    <3>3. info.payload /\ info.rollback # "unknown"
      BY <2>1, <2>3, Zenon DEF Knows, Coherent, Forth
    <3> QED BY <3>2, <3>3, Zenon DEF Vouches, Owes, Knows, Earned, Forth, Quiet, Committed, RolledBack
  <2>4. CASE name \in RolledBack
    <3>1. to' = Plain("VerifyRollbackReboot")
      BY <2>4, Zenon DEF NextAfterRestart, Goto, RolledBack
    <3>2. to'.id = "VerifyRollbackReboot" /\ to'.status = "none"
      BY <3>1, PlainShape, Zenon DEF StateIds, UpdateStates
    <3>3. info.reboot \in {"custom", "automatic"} /\ "ArtifactRollback" \in finished'
      BY <2>1, <2>4, Zenon DEF Knows, Owes, Grows
    <3> QED BY <3>2, <3>3, Zenon DEF Vouches, Owes, Knows, Earned, Forth, Quiet, Committed, RolledBack
  <2>5. CASE name \in Committed
    <3>1. to' = Plain(name)
      BY <2>5, Zenon DEF NextAfterRestart, Goto, Committed
    <3>2. to'.id = name /\ to'.status = "none"
      BY <2>5, <3>1, PlainShape, Zenon DEF StateIds, UpdateStates, Committed
    <3>3. info.payload /\ info.rollback # "unknown" /\ Renamed'
      BY <2>1, <2>5, Zenon DEF Knows, Coherent, Forth, Owes, Grows, Renamed
    <3> QED BY <2>5, <3>2, <3>3, Zenon DEF Vouches, Owes, Knows, Earned, Forth, Quiet, Committed, RolledBack
  <2>6. CASE name = "UpdateError"
    <3>1. to' = Plain("UpdateError")
      BY <2>6, Zenon DEF NextAfterRestart, Goto
    <3>2. Free(Plain("UpdateError")) /\ Plain("UpdateError").id = "UpdateError"
      BY PlainFree, Zenon DEF StateIds, UpdateStates, Forth, Committed, RolledBack
    <3> QED BY <3>1, <3>2, Zenon DEF Free, Vouches, Owes, Knows, Earned, Forth, Quiet
  <2>7. CASE name \notin {"UpdateStore", "AfterStore", "Cleanup", "Reboot", "UpdateError"}
                          \union RolledBack \union Committed
    <3>1. RollbackOrFail(info)
      BY <2>7, Zenon DEF NextAfterRestart, RolledBack, Committed
    <3>2. \/ to' = Plain("UpdateError")
          \/ to' = Plain("Rollback") /\ info.rollback = "supported"
      BY <3>1, Zenon DEF RollbackOrFail, Goto, GotoBroken
    <3>3. /\ to'.id \in {"UpdateError", "Rollback"} /\ to'.status = "none"
          /\ to'.id = "Rollback" => info.rollback = "supported"
      BY <3>2, PlainShape DEF StateIds, UpdateStates
    <3> QED BY <2>1, <3>3, Zenon DEF Vouches, Owes, Knows, Earned, Forth, Quiet, Committed, RolledBack,
               Coherent
  <2> QED BY <2>2, <2>3, <2>4, <2>5, <2>6, <2>7, Zenon

\* A restarted daemon goes on where the entry says.
<1>InitResumeOutcome.
    ASSUME Inv, OutcomeInv, InitResume
    PROVE  OutcomeInv'
  <2> USE <1>InitResumeOutcome
  <2>1. /\ cur.id = "Init" /\ upd' = stateData.info /\ Grows /\ stateData \in Entry
        /\ ~Quiet(cur)
    BY Zenon DEF InitResume, Handling, Grows, world, Inv, TypeOK, Quiet
  <2>2. Coherent(upd)'
    BY <2>1, Zenon DEF OutcomeInv, EntryInv, Coherent
  <2>3. ASSUME cur' = cur PROVE Vouches(cur)'
    <3>1. cur.status \notin {"success", "already"}
      BY <2>1, Zenon DEF OutcomeInv, Vouches, Earned, Final
    <3> QED BY <2>1, <2>3, <3>1, Zenon DEF Vouches, Owes, Knows, Earned, Forth, Committed, RolledBack
  <2>4. ASSUME stateData' \in {stateData, [stateData EXCEPT !.count = NextCount(stateData.count)]}
        PROVE  /\ Owes(stateData.name)' /\ Knows(stateData.name, stateData.info)'
               /\ Coherent(stateData.info)' /\ stateData'.name = stateData.name
    <3>1. stateData'.name = stateData.name /\ stateData'.info = stateData.info
      BY <2>1, <2>4, Zenon DEF Entry
    <3> QED BY <2>1, <3>1, Zenon DEF OutcomeInv, EntryInv, Owes, Knows, Coherent, Renamed, Grows
  <2>5. CASE /\ GotoBroken(Make("StatusReport", "failure"))
             /\ stateData' \in {stateData, [stateData EXCEPT !.count = NextCount(stateData.count)]}
    <3>1. Free(Make("StatusReport", "failure")) /\ Make("StatusReport", "failure").id = "StatusReport"
      BY <1>MakeFree, Zenon DEF StateIds, UpdateStates, Statuses, Forth, Committed, RolledBack
    <3>2. /\ to' = Make("StatusReport", "failure") /\ cur' = cur /\ called' = called
          /\ call' = "none" /\ pc' = "flag"
      BY <2>5, Zenon DEF GotoBroken
    <3>3. Vouches(to)' /\ ~Quiet(to')
      BY <3>1, <3>2, Zenon DEF Free, Vouches, Owes, Knows, Earned, Forth, Quiet
    <3> QED BY <2>1, <2>2, <2>3, <2>4, <2>5, <3>2, <3>3, <1>Decides, Zenon
  <2>6. CASE /\ NextAfterRestart(stateData.name, stateData.info)
             /\ inst' = IF stateData.info.payload THEN "current" ELSE "none"
             /\ stateData' = [stateData EXCEPT !.count = NextCount(stateData.count)]
    <3>1. /\ cur' = cur /\ called' = called /\ call' = "none" /\ pc' \in {"transit", "flag"}
      BY <2>6, Zenon DEF NextAfterRestart, RollbackOrFail, Goto, GotoBroken
    <3>2. Vouches(to)' /\ ~Quiet(to')
      BY <2>1, <2>6, <1>ResumeVouched, Zenon
    <3> QED BY <2>1, <2>2, <2>3, <2>4, <2>6, <3>1, <3>2, <1>Decides, Zenon
  <2>7. CASE stateData' = NoEntry /\ Goto(Plain("Idle"))
    <3>1. Free(Plain("Idle")) /\ Plain("Idle").id = "Idle"
      BY PlainFree, Zenon DEF StateIds, UpdateStates, Forth, Committed, RolledBack
    <3>2. to' = Plain("Idle") /\ cur' = cur /\ called' = called /\ call' = "none" /\ pc' = "transit"
      BY <2>7, Zenon DEF Goto
    <3>3. /\ Owes(stateData.name)' /\ Knows(stateData.name, stateData.info)'
          /\ Coherent(stateData.info)' /\ stateData'.name \notin Decisive
      BY <2>7, Zenon DEF NoEntry, NoInfo, Owes, Knows, Coherent, Forth, Committed, RolledBack, Decisive
    <3>4. Vouches(to)'
      BY <3>1, <3>2, Zenon DEF Free, Vouches, Owes, Knows, Earned, Forth
    <3> QED BY <2>2, <2>3, <3>2, <3>3, <3>4, <1>Decides, Zenon
  <2>8. CASE /\ Goto(Make("Error", "fatal"))
             /\ stateData' = [stateData EXCEPT !.count = NextCount(stateData.count)]
    <3>1. /\ Free(Make("Error", "fatal")) /\ Make("Error", "fatal").id = "Error"
          /\ Make("Error", "fatal").status = "fatal"
      BY <1>MakeFree, MakeShape, Zenon DEF StateIds, UpdateStates, Statuses, Forth, Committed, RolledBack
    <3>2. /\ to' = Make("Error", "fatal") /\ cur' = cur /\ called' = called /\ call' = "none"
          /\ pc' = "transit"
      BY <2>8, Zenon DEF Goto
    <3>3. Vouches(to)' /\ ~Quiet(to')
      BY <3>1, <3>2, Zenon DEF Free, Vouches, Owes, Knows, Earned, Forth, Quiet
    <3> QED BY <2>1, <2>2, <2>3, <2>4, <2>8, <3>2, <3>3, <1>Decides, Zenon
  <2> QED BY <2>5, <2>6, <2>7, <2>8, Zenon DEF InitResume

(* The actions: download, installation and commit.                         *)

\* The download begins, is retried, or is given up.
<1>FetchOutcome.
    ASSUME Inv, OutcomeInv, UpdateFetch \/ FetchStoreRetry
    PROVE  OutcomeInv'
  <2> USE <1>FetchOutcome
  <2>1. /\ pc = "handle" /\ cur.id \in {"UpdateFetch", "FetchStoreRetry"}
        /\ UNCHANGED <<upd, inst, stateData, artifactName, finished>>
    BY Zenon DEF UpdateFetch, FetchStoreRetry, Handling, memory, disk, world
  <2>2. PICK s \in {Make("StatusReport", "failure"), Plain("UpdateStore"), Plain("FetchStoreRetry"),
                    Plain("UpdateFetch"), Plain("UpdateError")} : Goto(s)
    BY Zenon DEF UpdateFetch, FetchStoreRetry
  <2>3. Free(s)
    BY PlainFree, <1>MakeFree, Zenon DEF StateIds, UpdateStates, Statuses, Forth, Committed, RolledBack
  <2>4. Quiet(cur) \/ stateData.name \notin Decisive
    BY <2>1, InUpdate, Zenon DEF Quiet, UpdateStates, StoredName, Decisive, Committed, RolledBack
  <2> QED BY <2>1, <2>2, <2>3, <2>4, <1>GoesFree, Zenon DEF Grows

\* The artifact is opened.
<1>UpdateStoreOutcome.
    ASSUME Inv, OutcomeInv, UpdateStore
    PROVE  OutcomeInv'
  <2> USE <1>UpdateStoreOutcome
  <2>1. /\ pc = "handle" /\ cur.id = "UpdateStore"
        /\ UNCHANGED <<upd, inst, stateData, artifactName, finished>>
    BY Zenon DEF UpdateStore, Handling, memory, disk, world
  <2>2. CASE Goto(Make("StatusReport", "failure"))
    <3>1. Free(Make("StatusReport", "failure")) /\ Make("StatusReport", "failure").id = "StatusReport"
      BY <1>MakeFree, Zenon DEF StateIds, UpdateStates, Statuses, Forth, Committed, RolledBack
    <3> QED BY <2>1, <2>2, <3>1, <1>GoesFree, Zenon DEF Grows, Quiet
  <2>3. CASE Call("ReadHeaders")
    BY <2>1, <2>3, <1>CallsOut, Zenon DEF Grows, Calls, Operations
  <2> QED BY <2>2, <2>3, Zenon DEF UpdateStore

\* The payload's type is known and stored before its data is.
<1>UpdateStoreHeadersOutcome.
    ASSUME Inv, OutcomeInv, UpdateStoreHeaders
    PROVE  OutcomeInv'
  <2> USE <1>UpdateStoreHeadersOutcome
  <2>1. /\ pc = "handle" /\ cur.id = "UpdateStore" /\ Grows /\ to = cur /\ cur.status # "already"
        /\ cur.status # "success"
        /\ finished' = finished /\ artifactName' = artifactName /\ upd \in Info
    BY Zenon DEF UpdateStoreHeaders, Answered, Grows, world, Inv, TypeOK, PositionInv, OutcomeInv,
       Vouches,
       Earned, Final
  <2>2. stateData.name = "UpdateStore" /\ stateData.info = upd /\ stateData.name \notin Decisive
    BY <2>1, InUpdate, Zenon DEF UpdateStates, StoredName, Decisive, Committed, RolledBack
  <2>3. /\ Coherent(upd)' /\ Knows("UpdateStore", upd') /\ Coherent(upd')
    BY <2>1, Zenon DEF UpdateStoreHeaders, Info, OutcomeInv, Coherent, Knows, Forth, Committed,
       RolledBack
  <2>4. ASSUME cur' = cur PROVE Vouches(cur)'
    BY <2>1, <2>4, Zenon DEF Vouches, Owes, Knows, Earned, Forth, Committed, RolledBack
  <2>5. ASSUME NEW s, s \in {Plain("FetchStoreRetry"), Make("StatusReport", "failure"),
                            Make("Cleanup", "failure")},
               Goto(s), stateData' = stateData
        PROVE  OutcomeInv'
    <3>1. Free(s)
      BY <2>5, PlainFree, <1>MakeFree, Zenon DEF StateIds, UpdateStates, Statuses, Forth, Committed, RolledBack
    <3>2. to' = s /\ cur' = cur /\ called' = called /\ call' = "none" /\ pc' = "transit"
      BY <2>5, Zenon DEF Goto
    <3>3. Vouches(to)'
      BY <3>1, <3>2, Zenon DEF Free, Vouches, Owes, Knows, Earned, Forth
    <3> QED BY <2>1, <2>2, <2>3, <2>4, <2>5, <3>2, <3>3, EntryStays, <1>Decides, Zenon DEF OutcomeInv
  <2>6. CASE Stored("UpdateStore", upd') /\ Call("Download") /\ ret = "ok"
    <3>1. /\ to' = to /\ cur' = cur /\ call' = "Download" /\ called' = called \union {"Download"}
          /\ pc' = "handle" /\ upd'.payload /\ inst' # "none"
      BY <2>1, <2>6, Zenon DEF Call, UpdateStoreHeaders, Info
    <3>2. stateData'.name = StoredName(cur.id) /\ stateData'.info = upd'
      BY <2>1, <2>6, Zenon DEF Stored, WriteState
    <3>3. /\ Owes(stateData.name)' /\ Knows(stateData.name, stateData.info)'
          /\ Coherent(stateData.info)' /\ (Quiet(cur) => stateData'.name \notin Decisive)
      BY <2>1, <2>3, <3>2, <1>StoredTrue, Zenon DEF OutcomeInv
    <3>4. EntryInv'
      BY <2>1, <3>1, <3>2, <3>3, Zenon DEF EntryInv, Quiet, Decisive
    <3> QED BY <2>1, <2>3, <2>4, <3>1, <3>4, Zenon DEF OutcomeInv, InProgressInv, Calls
  <2>7. CASE StoreExceeded("UpdateStore", upd')
    BY <2>1, <2>3, <2>4, <2>7, <1>ExceededOutcome, Zenon DEF StoreExceeded, GotoBroken
  <2> QED BY <2>5, <2>6, <2>7, Zenon DEF UpdateStoreHeaders, StoreFailed

\* The payload is downloaded.
<1>UpdateStorePayloadsOutcome.
    ASSUME Inv, OutcomeInv, UpdateStorePayloads
    PROVE  OutcomeInv'
  <2> USE <1>UpdateStorePayloadsOutcome
  <2>1. /\ pc = "handle" /\ cur.id = "UpdateStore" /\ upd.payload /\ inst # "none"
        /\ UNCHANGED <<upd, inst, stateData, artifactName, finished>>
    BY Zenon DEF UpdateStorePayloads, Answered, memory, disk, world, OutcomeInv, InProgressInv
  <2>2. CASE Goto(Make("Cleanup", "failure"))
    <3>1. Free(Make("Cleanup", "failure")) /\ Make("Cleanup", "failure").id = "Cleanup"
      BY <1>MakeFree, Zenon DEF StateIds, UpdateStates, Statuses, Forth, Committed, RolledBack
    <3> QED BY <2>1, <2>2, <3>1, <1>GoesFree, Zenon DEF Grows, Quiet
  <2>3. CASE Call("SupportsRollback")
    BY <2>1, <2>3, <1>CallsOut, Zenon DEF Grows, Calls, Operations
  <2> QED BY <2>2, <2>3, Zenon DEF UpdateStorePayloads

\* Whether the payload can be rolled back is known and stored.
<1>UpdateStoreRollbackOutcome.
    ASSUME Inv, OutcomeInv, UpdateStoreRollback
    PROVE  OutcomeInv'
  <2> USE <1>UpdateStoreRollbackOutcome
  <2>1. /\ pc = "handle" /\ cur.id = "UpdateStore" /\ Grows /\ upd.payload /\ inst # "none"
        /\ cur.status \notin {"success", "already"}
        /\ UNCHANGED <<inst, artifactName, finished>> /\ upd \in Info
        /\ ret \in {"err", "supported", "unsupported"}
    BY Zenon DEF UpdateStoreRollback, Answered, Grows, world, Inv, CallInv, TypeOK, OutcomeInv, Vouches,
       Earned, Final, InProgressInv
  <2>2. stateData.name \notin Decisive
    BY <2>1, InUpdate, Zenon DEF UpdateStates, StoredName, Decisive, Committed, RolledBack
  <2>3. CASE ret = "err"
    <3>1. Free(Plain("UpdateError"))
      BY PlainFree, Zenon DEF StateIds, UpdateStates, Forth, Committed, RolledBack
    <3> QED BY <2>1, <2>2, <2>3, <3>1, <1>GoesFree, Zenon DEF UpdateStoreRollback
  <2>4. CASE ret # "err"
    <3>1. upd'.payload /\ upd'.rollback # "unknown" /\ upd'.reboot = upd.reboot
      BY <2>1, <2>4, Zenon DEF UpdateStoreRollback, Info
    <3>2. Coherent(upd)' /\ Coherent(upd') /\ Knows("UpdateStore", upd')
      BY <3>1, Zenon DEF Coherent, Knows, Forth, Committed, RolledBack
    <3>3. ASSUME cur' = cur PROVE Vouches(cur)'
      BY <2>1, <3>3, Zenon DEF Vouches, Owes, Knows, Earned, Forth, Committed, RolledBack
    <3>4. ASSUME Goto(Plain("UpdateError")) \/ Goto(Plain("AfterStore"))
          PROVE  /\ cur' = cur /\ called' = called /\ call' = "none" /\ pc' = "transit"
                 /\ Vouches(to)' /\ ~Quiet(to')
      <4>1. /\ cur' = cur /\ called' = called /\ call' = "none" /\ pc' = "transit"
            /\ to' \in {Plain("UpdateError"), Plain("AfterStore")}
        BY <3>4, Zenon DEF Goto
      <4>2. to'.id \in {"UpdateError", "AfterStore"} /\ to'.status = "none"
        BY <4>1, PlainShape DEF StateIds, UpdateStates
      <4> QED BY <2>1, <3>1, <4>1, <4>2, Zenon DEF Vouches, Owes, Knows, Earned, Forth, Quiet, Committed,
              RolledBack
    <3>5. CASE /\ Stored("UpdateStore", upd')
               /\ Goto(Plain("UpdateError")) \/ Goto(Plain("AfterStore"))
      <4>1. stateData'.name = StoredName(cur.id) /\ stateData'.info = upd'
        BY <2>1, <3>5, Zenon DEF Stored, WriteState
      <4>2. Vouches(cur)
        BY Zenon DEF OutcomeInv
      <4> QED BY <2>1, <3>2, <3>3, <3>4, <3>5, <4>1, <4>2, <1>StoredTrue, <1>Decides, Zenon
    <3>6. CASE StoreFailed /\ Goto(Plain("UpdateError"))
      BY <2>1, <2>2, <3>2, <3>3, <3>4, <3>6, EntryStays, <1>Decides, Zenon DEF OutcomeInv, StoreFailed
    <3>7. CASE StoreExceeded("UpdateStore", upd')
      BY <2>1, <3>2, <3>3, <3>7, <1>ExceededOutcome, Zenon DEF StoreExceeded, GotoBroken
    <3> QED BY <2>4, <3>5, <3>6, <3>7, Zenon DEF UpdateStoreRollback
  <2> QED BY <2>3, <2>4, Zenon

\* States on the way forward lead to each other without touching anything.
<1>ForthOutcome.
    ASSUME Inv, OutcomeInv, AfterStore \/ AfterReboot \/ AfterFirstCommit
    PROVE  OutcomeInv'
  <2> USE <1>ForthOutcome
  <2>1. /\ Vouches(cur) /\ UNCHANGED <<upd, inst, stateData, artifactName, finished>>
        /\ \/ cur.id = "AfterStore" /\ Goto(Plain("Install"))
           \/ cur.id = "AfterReboot" /\ Goto(Plain("Commit"))
           \/ cur.id = "AfterFirstCommit" /\ Goto(Plain("AfterCommit"))
    BY Zenon DEF AfterStore, AfterReboot, AfterFirstCommit, Handling, memory, disk, world, OutcomeInv
  <2>2. PICK id \in {"Install", "Commit", "AfterCommit"} :
          Goto(Plain(id)) /\ (id = "AfterCommit" => cur.id = "AfterFirstCommit")
    BY <2>1, Zenon
  <2>3. Plain(id).id = id /\ Plain(id).status = "none"
    BY PlainShape, Zenon DEF StateIds, UpdateStates
  <2>4. Vouches(Plain(id)) /\ ~Quiet(Plain(id))
    BY <2>1, <2>2, <2>3, Zenon DEF Vouches, Owes, Knows, Earned, Forth, Quiet, Committed, RolledBack
  <2> QED BY <2>1, <2>2, <2>4, <1>GoesTo, Zenon DEF Grows

\* The payload is installed and asked whether it needs a reboot.
<1>InstallOutcome.
    ASSUME Inv, OutcomeInv, Install \/ InstallInstalled
    PROVE  OutcomeInv'
  <2> USE <1>InstallOutcome
  <2>1. /\ pc = "handle" /\ cur.id = "Install" /\ cur \in State
        /\ UNCHANGED <<upd, inst, stateData, artifactName, finished>>
    BY Zenon DEF Install, InstallInstalled, Handling, Answered, memory, disk, world, Inv, TypeOK
  <2>2. CASE HandleError(cur, "fatal") \/ HandleError(cur, "transient")
    BY <2>1, <2>2, <1>Errs, Zenon DEF EndsUpdate, Grows
  <2>3. CASE Call("ArtifactInstall") \/ Call("NeedsArtifactReboot")
    BY <2>1, <2>3, <1>CallsOut, Zenon DEF Grows, Calls, Operations
  <2> QED BY <2>2, <2>3, Zenon DEF Install, InstallInstalled

\* The way to reboot is known and stored.
<1>InstallRebootTypeOutcome.
    ASSUME Inv, OutcomeInv, InstallRebootType
    PROVE  OutcomeInv'
  <2> USE <1>InstallRebootTypeOutcome
  <2>1. /\ pc = "handle" /\ cur.id = "Install" /\ cur \in State /\ Grows /\ inst # "none"
        /\ cur.status \notin {"success", "already"}
        /\ UNCHANGED <<inst, artifactName, finished>> /\ upd \in Info
        /\ ret \in {"err", "no reboot", "custom", "automatic"}
        /\ upd.rollback # "unknown" /\ upd.payload
    BY Zenon DEF InstallRebootType, Answered, Grows, world, Inv, CallInv, TypeOK, OutcomeInv, Vouches,
       Earned, Final, Knows, Forth, Coherent
  <2>2. CASE ret = "err"
    BY <2>1, <2>2, <1>Errs, Zenon DEF InstallRebootType, EndsUpdate
  <2>3. CASE ret # "err"
    <3>1. upd'.payload /\ upd'.rollback = upd.rollback /\ upd'.reboot = ret
      BY <2>1, <2>3, Zenon DEF InstallRebootType, Info
    <3>2. Coherent(upd)' /\ Coherent(upd') /\ Knows("Install", upd')
      BY <2>1, <3>1, Zenon DEF Coherent, Knows, Forth, Committed, RolledBack
    <3>3. ASSUME cur' = cur PROVE Vouches(cur)'
      BY <2>1, <3>1, <3>3, Zenon DEF Vouches, Owes, Knows, Earned, Forth, Committed, RolledBack
    <3>4. CASE /\ Stored("Install", upd')
               /\ Goto(Plain(IF ret = "no reboot" THEN "Commit" ELSE "Reboot"))
      <4>1. stateData'.name = StoredName(cur.id) /\ stateData'.info = upd'
        BY <2>1, <3>4, Zenon DEF Stored, WriteState
      <4>2. /\ cur' = cur /\ called' = called /\ call' = "none" /\ pc' = "transit"
            /\ to' = Plain(IF ret = "no reboot" THEN "Commit" ELSE "Reboot")
        BY <3>4, Zenon DEF Goto
      <4>3. /\ to'.id = (IF ret = "no reboot" THEN "Commit" ELSE "Reboot") /\ to'.status = "none"
        BY <4>2, PlainShape, Zenon DEF StateIds, UpdateStates
      <4>4. Vouches(to)' /\ ~Quiet(to')
        BY <2>1, <2>3, <3>1, <4>3, Zenon DEF Vouches, Owes, Knows, Earned, Forth, Quiet, Committed,
           RolledBack
      <4>5. Vouches(cur)
        BY Zenon DEF OutcomeInv
      <4> QED BY <2>1, <3>2, <3>3, <4>1, <4>2, <4>4, <4>5, <1>StoredTrue, <1>Decides, Zenon
    <3>5. CASE StoreFailed /\ HandleError(cur, "transient")
      <4>1. PICK t \in State : ErrorLeadsTo(cur, "transient", t)
        BY <2>1, <3>5, HandleErrorShape, Zenon
      <4>2. /\ to' = t /\ cur' = cur /\ called' = called /\ call' = "none"
            /\ pc' \in {"transit", "flag"}
        BY <4>1, Zenon DEF ErrorLeadsTo, Goto, GotoBroken
      <4>3. Vouches(t) /\ ~Quiet(t)
        BY <2>1, <4>1, <1>ErrorVouches, Zenon DEF Quiet, EndsUpdate
      <4>4. t.id \notin RolledBack \union Forth /\ t.status \notin {"success", "already"}
        BY <2>1, <4>1, Zenon DEF ErrorLeadsTo, Forth, Committed, RolledBack
      <4>5. Vouches(to)' /\ ~Quiet(to')
        BY <3>1, <4>2, <4>3, <4>4, Zenon DEF Vouches, Owes, Knows, Earned, Forth, Quiet
      <4>6. ~Quiet(cur)
        BY <2>1, Zenon DEF Quiet
      <4> QED BY <2>1, <3>2, <3>3, <3>5, <4>2, <4>5, <4>6, EntryStays, <1>Decides, Zenon
                 DEF OutcomeInv, StoreFailed
    <3>6. CASE StoreExceeded("Install", upd')
      BY <2>1, <3>2, <3>3, <3>6, <1>ExceededOutcome, Zenon DEF StoreExceeded, GotoBroken
    <3> QED BY <2>3, <3>4, <3>5, <3>6, Zenon DEF InstallRebootType
  <2> QED BY <2>2, <2>3, Zenon

\* The device is rebooted, and the reboot verified.
<1>RebootOutcome.
    ASSUME Inv, OutcomeInv, Reboot \/ RebootReturns \/ VerifyReboot
    PROVE  OutcomeInv'
  <2> USE <1>RebootOutcome
  <2>1. /\ pc = "handle" /\ cur.id \in {"Reboot", "VerifyReboot"} /\ cur \in State
        /\ UNCHANGED <<upd, inst, stateData, artifactName, finished>>
        /\ upd.rollback # "unknown" /\ upd.payload /\ inst # "none"
    BY Zenon DEF Reboot, RebootReturns, VerifyReboot, Handling, Answered, memory, disk, world, Inv,
       TypeOK,
       OutcomeInv, Vouches, Knows, Forth, Coherent
  <2>2. CASE HandleError(cur, "transient")
    BY <2>1, <2>2, <1>Errs, Zenon DEF EndsUpdate, Grows
  <2>3. CASE \E op \in Calls(cur.id) : Call(op)
    BY <2>1, <2>3, <1>CallsOut, Zenon DEF Grows, Calls, Operations
  <2>4. CASE \E id \in {"Rollback", "VerifyReboot", "AfterReboot"} : Goto(Plain(id))
    <3>1. PICK id \in {"Rollback", "VerifyReboot", "AfterReboot"} : Goto(Plain(id))
      BY <2>4, Zenon
    <3>2. Plain(id).id = id /\ Plain(id).status = "none"
      BY PlainShape, Zenon DEF StateIds, UpdateStates
    <3>3. Vouches(Plain(id)) /\ ~Quiet(Plain(id))
      BY <2>1, <3>2, Zenon DEF Vouches, Owes, Knows, Earned, Forth, Quiet, Committed, RolledBack
    <3> QED BY <2>1, <3>1, <3>3, <1>GoesTo, Zenon DEF Grows
  <2>5. CASE Reboot
    BY <2>3, <2>4, <2>5, Zenon DEF Reboot, Calls, Handling
  <2>6. CASE RebootReturns
    BY <2>2, <2>4, <2>6, Zenon DEF RebootReturns
  <2>7. CASE VerifyReboot
    BY <2>2, <2>3, <2>4, <2>7, Zenon DEF VerifyReboot, Calls, Handling
  <2> QED BY <2>5, <2>6, <2>7, Zenon

\* The commit is reported, begun, retried or given up.
<1>CommitOutcome.
    ASSUME Inv, OutcomeInv, Commit \/ PreCommitRetry
    PROVE  OutcomeInv'
  <2> USE <1>CommitOutcome
  <2>1. /\ pc = "handle" /\ cur.id \in {"Commit", "PreCommitRetry"} /\ cur \in State
        /\ UNCHANGED <<upd, inst, stateData, artifactName, finished>>
        /\ upd.rollback # "unknown" /\ inst # "none"
        /\ Plain("Commit") \in State /\ Plain("Commit").id = "Commit"
    BY PlainShape, Zenon DEF Commit, PreCommitRetry, Handling, memory, disk, world, Inv, TypeOK,
       StateIds,
       UpdateStates, OutcomeInv, Vouches, Knows, Forth
  <2>2. cur.id = "Commit" => stateData.name \notin Decisive
    BY <2>1, InUpdate, Zenon DEF UpdateStates, StoredName, Decisive, Committed, RolledBack
  <2>3. CASE HandleError(cur, "fatal") \/ HandleError(cur, "transient")
    BY <2>1, <2>2, <2>3, <1>Errs, Zenon DEF Grows, Quiet
  <2>4. CASE HandleError(Plain("Commit"), "transient")
    BY <2>1, <2>4, <1>Errs, Zenon DEF EndsUpdate, Grows
  <2>5. CASE cur.id = "Commit" /\ Call("ArtifactCommit")
    BY <2>1, <2>5, <1>CallsOut, Zenon DEF Grows, Calls, Operations
  <2>6. CASE /\ cur.id = "Commit"
             /\ Goto([Plain("PreCommitRetry") EXCEPT !.tries = cur.tries + 1])
    <3>1. PICK s : s = [Plain("PreCommitRetry") EXCEPT !.tries = cur.tries + 1]
      BY Zenon
    <3>2. s.id = "PreCommitRetry" /\ s.status = "none"
      <4>1. /\ Plain("PreCommitRetry") \in State /\ Plain("PreCommitRetry").id = "PreCommitRetry"
            /\ Plain("PreCommitRetry").status = "none" /\ cur.tries + 1 \in Nat
        BY <2>1, PlainShape, StateShape DEF StateIds
      <4> QED BY <3>1, <4>1, TriesShape, Zenon
    <3>3. Vouches(s)
      BY <2>1, <3>2, Zenon DEF Vouches, Owes, Knows, Earned, Forth, Committed, RolledBack
    <3> QED BY <2>1, <2>2, <2>6, <3>1, <3>3, <1>GoesTo, Zenon DEF Grows
  <2>7. CASE Goto([Plain("Commit") EXCEPT !.tries = cur.tries])
    <3>1. PICK s : s = [Plain("Commit") EXCEPT !.tries = cur.tries]
      BY Zenon
    <3>2. s.id = "Commit" /\ s.status = "none"
      <4>1. Plain("Commit").status = "none" /\ cur.tries \in Nat
        BY <2>1, PlainShape, StateShape, Zenon DEF StateIds, UpdateStates
      <4> QED BY <2>1, <3>1, <4>1, TriesShape, Zenon
    <3>3. Vouches(s) /\ ~Quiet(s)
      BY <2>1, <3>2, Zenon DEF Vouches, Owes, Knows, Earned, Forth, Committed, RolledBack, Quiet
    <3> QED BY <2>1, <2>7, <3>1, <3>3, <1>GoesTo, Zenon DEF Grows
  <2> QED BY <2>3, <2>4, <2>5, <2>6, <2>7, Zenon DEF Commit, PreCommitRetry, Handling

\* The new name is stored with the commit.
<1>CommitStoreOutcome.
    ASSUME Inv, OutcomeInv, CommitStore
    PROVE  OutcomeInv'
  <2> USE <1>CommitStoreOutcome
  <2>1. /\ pc = "handle" /\ cur.id = "Commit" /\ cur \in State /\ Grows
        /\ UNCHANGED <<upd, inst, finished>> /\ ~Quiet(cur)
        /\ upd.rollback # "unknown" /\ inst # "none"
        /\ ret = "ok" => "ArtifactCommit" \in finished
    BY Zenon DEF CommitStore, Answered, memory, disk, world, Inv, CallInv, TypeOK, Grows, Quiet,
       OutcomeInv, Vouches, Knows, Forth, StoreExceeded
  <2>2. Vouches(cur) /\ Coherent(upd) /\ Knows("Commit", upd)
    BY <2>1, Zenon DEF OutcomeInv, Vouches
  <2>3. ASSUME cur' = cur, called' = called PROVE Vouches(cur)' /\ Coherent(upd)'
    BY <2>1, <2>2, <2>3, <1>CurVouches, Zenon DEF Coherent
  <2>4. CASE HandleError(cur, "transient") /\ UNCHANGED disk
    BY <2>1, <2>4, <1>Errs, Zenon DEF EndsUpdate, disk
  <2>5. CASE /\ Stored("Commit", upd) /\ artifactName' = "next" /\ ret = "ok"
             /\ Goto(Plain("AfterFirstCommit"))
    <3>1. stateData'.name = StoredName(cur.id) /\ stateData'.info = upd
      BY <2>1, <2>5, Zenon DEF Stored, WriteState
    <3>2. /\ cur' = cur /\ called' = called /\ call' = "none" /\ pc' = "transit"
          /\ to' = Plain("AfterFirstCommit")
      BY <2>5, Zenon DEF Goto
    <3>3. to'.id = "AfterFirstCommit" /\ to'.status = "none"
      BY <3>2, PlainShape, Zenon DEF StateIds, UpdateStates
    <3>4. Vouches(to)' /\ ~Quiet(to')
      BY <2>1, <2>5, <3>3, Zenon DEF Vouches, Owes, Knows, Earned, Renamed, Forth, Quiet, Committed, RolledBack
    <3> QED BY <2>1, <2>2, <2>3, <3>1, <3>2, <3>4, <1>StoredTrue, <1>Decides, Zenon
  <2>6. CASE StoreFailed /\ Goto(Plain("UpdateError"))
    <3>1. Free(Plain("UpdateError")) /\ Plain("UpdateError").id = "UpdateError"
      BY PlainFree, Zenon DEF StateIds, UpdateStates, Forth, Committed, RolledBack
    <3> QED BY <2>1, <2>6, <3>1, <1>GoesFree, Zenon DEF StoreFailed, Quiet
  <2>7. CASE StoreExceeded("Commit", upd)
    BY <2>1, <2>2, <2>3, <2>7, <1>ExceededOutcome, Zenon DEF StoreExceeded, GotoBroken
  <2> QED BY <2>4, <2>5, <2>6, <2>7, Zenon DEF CommitStore

\* A committed payload is cleaned up.
<1>AfterCommitOutcome.
    ASSUME Inv, OutcomeInv, AfterCommit
    PROVE  OutcomeInv'
  <2> USE <1>AfterCommitOutcome
  <2> DEFINE s == Make("Cleanup", "success")
  <2>1. /\ Renamed /\ upd.payload /\ inst # "none" /\ Goto(s)
        /\ UNCHANGED <<upd, inst, stateData, artifactName, finished>>
    BY Zenon DEF AfterCommit, Handling, memory, disk, world, OutcomeInv, Vouches, Owes, Knows, Coherent,
       Forth, Committed
  <2>2. s.id = "Cleanup" /\ s.status = "success"
    BY MakeShape DEF StateIds, UpdateStates, Statuses
  <2> HIDE DEF s
  <2>3. Vouches(s) /\ ~Quiet(s)
    BY <2>1, <2>2, Zenon DEF Vouches, Owes, Knows, Earned, Forth, Quiet, Committed, RolledBack
  <2> QED BY <2>1, <2>3, <1>GoesTo, Zenon DEF Grows

(* The actions: rollback, failure, cleanup and the final report.           *)

\* The payload is rolled back, and the device rebooted.
<1>RollbackOutcome.
    ASSUME Inv, OutcomeInv,
           Rollback \/ RollbackReboot \/ VerifyRollbackReboot \/ AfterRollbackReboot
    PROVE  OutcomeInv'
  <2> USE <1>RollbackOutcome
  <2>1. /\ pc = "handle" /\ cur.id \in {"Rollback"} \union RolledBack /\ cur \in State
        /\ UNCHANGED <<upd, inst, stateData, artifactName, finished>>
        /\ cur.id \in RolledBack =>
               "ArtifactRollback" \in finished /\ upd.reboot \in {"custom", "automatic"}
    BY Zenon DEF Rollback, RollbackReboot, VerifyRollbackReboot, AfterRollbackReboot, Handling,
       Answered,
       memory, disk, world, Inv, TypeOK, OutcomeInv, Vouches, Owes, Knows, RolledBack
  <2>2. CASE HandleError(cur, "fatal") \/ HandleError(cur, "transient")
    BY <2>1, <2>2, <1>Errs, Zenon DEF EndsUpdate, Grows, RolledBack
  <2>3. CASE \E op \in Calls(cur.id) : Call(op)
    BY <2>1, <2>3, <1>CallsOut, Zenon DEF Grows, Calls, Operations, RolledBack
  <2>4. CASE Goto(Plain("UpdateError"))
    <3>1. Free(Plain("UpdateError")) /\ Plain("UpdateError").id = "UpdateError"
      BY PlainFree, Zenon DEF StateIds, UpdateStates, Forth, Committed, RolledBack
    <3> QED BY <2>1, <2>4, <3>1, <1>GoesFree, Zenon DEF Grows, Quiet
  <2>5. ASSUME NEW id \in RolledBack, Goto(Plain(id)),
               "ArtifactRollback" \in finished, upd.reboot \in {"custom", "automatic"}
        PROVE  OutcomeInv'
    <3>1. Plain(id).id = id /\ Plain(id).status = "none"
      BY <2>5, PlainShape, Zenon DEF StateIds, UpdateStates, RolledBack
    <3>2. Vouches(Plain(id)) /\ ~Quiet(Plain(id))
      BY <2>5, <3>1, Zenon DEF Vouches, Owes, Knows, Earned, Forth, Quiet, Committed, RolledBack
    <3> QED BY <2>1, <2>5, <3>2, <1>GoesTo, Zenon DEF Grows
  <2>6. CASE Rollback
    <3>1. CASE Answered("Rollback", "ArtifactRollback") /\ ret # "err" /\ AfterRollback
      <4>1. "ArtifactRollback" \in finished
        BY <3>1, Zenon DEF Answered, Inv, CallInv
      <4> QED BY <2>4, <2>5, <3>1, <4>1, Zenon DEF AfterRollback, RolledBack
    <3> QED BY <2>2, <2>3, <2>4, <2>6, <3>1, Zenon DEF Rollback, Calls, Handling
  <2>7. CASE RollbackReboot
    BY <2>1, <2>3, <2>5, <2>7, Zenon DEF RollbackReboot, Calls, Handling, Answered, RolledBack
  <2>8. CASE VerifyRollbackReboot
    BY <2>1, <2>2, <2>3, <2>5, <2>8, Zenon DEF VerifyRollbackReboot, Calls, Handling, Answered, RolledBack
  <2>9. CASE AfterRollbackReboot
    BY <2>4, <2>9, Zenon DEF AfterRollbackReboot
  <2> QED BY <2>6, <2>7, <2>8, <2>9, Zenon

\* The failed update is told to its payload.
<1>UpdateErrorOutcome.
    ASSUME Inv, OutcomeInv, UpdateError
    PROVE  OutcomeInv'
  <2> USE <1>UpdateErrorOutcome
  <2>1. /\ pc = "handle" /\ cur.id = "UpdateError"
        /\ UNCHANGED <<upd, inst, stateData, artifactName, finished>>
    BY Zenon DEF UpdateError, Handling, Answered, memory, disk, world
  <2>2. CASE Call("ArtifactFailure")
    BY <2>1, <2>2, <1>CallsOut, Zenon DEF Grows, Calls, Operations
  <2>3. CASE Goto(Make("Cleanup", "failure"))
    <3>1. Free(Make("Cleanup", "failure")) /\ Make("Cleanup", "failure").id = "Cleanup"
      BY <1>MakeFree, Zenon DEF StateIds, UpdateStates, Statuses, Forth, Committed, RolledBack
    <3> QED BY <2>1, <2>3, <3>1, <1>GoesFree, Zenon DEF Grows, Quiet
  <2> QED BY <2>2, <2>3, Zenon DEF UpdateError

\* The payload is cleaned up, and with that the status is earned or lost.
<1>CleanupOutcome.
    ASSUME Inv, OutcomeInv, Cleanup
    PROVE  OutcomeInv'
  <2> USE <1>CleanupOutcome
  <2>1. /\ pc = "handle" /\ cur.id = "Cleanup" /\ cur.status \in Statuses \ {"already"}
        /\ UNCHANGED <<upd, inst, stateData, artifactName, finished>>
        /\ cur.status = "success" => Renamed /\ upd.payload /\ inst # "none"
    BY StateShape, Zenon DEF Cleanup, Handling, Answered, memory, disk, world, Inv, TypeOK, OutcomeInv,
       Vouches, Earned, Final
  <2>2. CASE Call("Cleanup")
    BY <2>1, <2>2, <1>CallsOut, Zenon DEF Grows, Calls, Operations
  <2>3. ASSUME NEW status \in Statuses \ {"already"}, Goto(Make("StatusReport", status)),
               status = "success" => cur.status = "success" /\ "Cleanup" \in finished
        PROVE  OutcomeInv'
    <3>1. Make("StatusReport", status).id = "StatusReport" /\ Make("StatusReport", status).status = status
      BY MakeShape, Zenon DEF StateIds, UpdateStates
    <3>2. Vouches(Make("StatusReport", status)) /\ ~Quiet(Make("StatusReport", status))
      BY <2>1, <2>3, <3>1, Zenon DEF Vouches, Owes, Knows, Earned, Forth, Final, Quiet, Committed, RolledBack
    <3> QED BY <2>1, <2>3, <3>2, <1>GoesTo, Zenon DEF Grows
  <2>4. CASE inst = "none" /\ Goto(Make("StatusReport", cur.status))
    BY <2>1, <2>3, <2>4, Zenon
  <2>5. CASE /\ Answered("Cleanup", "Cleanup")
             /\ Goto(Make("StatusReport", IF ret = "err" THEN "failure" ELSE cur.status))
    <3>1. ret # "err" => "Cleanup" \in finished
      BY <2>5, Zenon DEF Answered, Inv, CallInv
    <3> QED BY <2>1, <2>3, <2>5, <3>1, Zenon DEF Statuses
  <2> QED BY <2>2, <2>4, <2>5, Zenon DEF Cleanup

\* The report is sent, retried or given up, and keeps its status.
<1>FinalOutcome.
    ASSUME Inv, OutcomeInv, StatusReport \/ StatusReportRetry
    PROVE  OutcomeInv'
  <2> USE <1>FinalOutcome
  <2>1. /\ pc = "handle" /\ cur.id \in {"StatusReport", "StatusReportRetry"} /\ cur \in State
        /\ cur.status \in Statuses /\ Vouches(cur)
        /\ UNCHANGED <<upd, inst, stateData, artifactName, finished>>
    BY StateShape, Zenon DEF StatusReport, StatusReportRetry, Handling, memory, disk, world, Inv,
       TypeOK,
       OutcomeInv
  <2>2. stateData.name \notin Decisive
    BY <2>1, InUpdate, Zenon DEF UpdateStates, StoredName, Decisive, Committed, RolledBack
  <2>3. ASSUME NEW s, Goto(s), s.id \in Final, s.status = cur.status
        PROVE  OutcomeInv'
    <3>1. Vouches(s)
      BY <2>1, <2>3, Zenon DEF Vouches, Owes, Knows, Earned, Forth, Final, Committed, RolledBack
    <3> QED BY <2>1, <2>2, <2>3, <3>1, <1>GoesTo, Zenon DEF Grows
  <2>4. CASE Goto(Make("ReportError", cur.status))
    BY <2>1, <2>3, <2>4, MakeShape, Zenon DEF StateIds, UpdateStates, Final
  <2>5. CASE Goto(Plain("Idle"))
    <3>1. Free(Plain("Idle"))
      BY PlainFree, Zenon DEF StateIds, UpdateStates, Forth, Committed, RolledBack
    <3> QED BY <2>1, <2>2, <2>5, <3>1, <1>GoesFree, Zenon DEF Grows
  <2>6. CASE StatusReport
    <3> DEFINE sent == [cur EXCEPT !.tries = @ + 1]
               logged == [sent EXCEPT !.logTries = @ + 1]
    <3>1. CASE Retry(sent, sent.tries)
      <4>1. PICK s : s = [sent EXCEPT !.id = "StatusReportRetry", !.sending = sent.tries]
        OBVIOUS
      <4>2. s.id \in Final /\ s.status = cur.status
        BY <2>1, <4>1, Zenon DEF State, Final
      <4> QED BY <2>3, <3>1, <4>1, <4>2, Zenon DEF Retry
    <3>2. CASE Retry(logged, logged.logTries)
      <4>1. PICK s : s = [logged EXCEPT !.id = "StatusReportRetry", !.sending = logged.logTries]
        OBVIOUS
      <4>2. s.id \in Final /\ s.status = cur.status
        BY <2>1, <4>1, Zenon DEF State, Final
      <4> QED BY <2>3, <3>2, <4>1, <4>2, Zenon DEF Retry
    <3> HIDE DEF sent, logged
    <3> QED BY <2>4, <2>5, <2>6, <3>1, <3>2, Zenon DEF StatusReport, sent, logged
  <2>7. CASE StatusReportRetry
    <3>1. CASE Goto([cur EXCEPT !.id = "StatusReport", !.sending = 0])
      <4>1. PICK s : s = [cur EXCEPT !.id = "StatusReport", !.sending = 0]
        OBVIOUS
      <4>2. s.id \in Final /\ s.status = cur.status
        BY <2>1, <4>1, Zenon DEF State, Final
      <4> QED BY <2>3, <3>1, <4>1, <4>2, Zenon
    <3> QED BY <2>4, <2>7, <3>1, Zenon DEF StatusReportRetry
  <2> QED BY <2>6, <2>7, Zenon

\* A report that cannot be sent ends the update, or rolls it back.
<1>ReportErrorOutcome.
    ASSUME Inv, OutcomeInv, ReportError
    PROVE  OutcomeInv'
  <2> USE <1>ReportErrorOutcome
  <2>1. /\ pc = "handle" /\ Quiet(cur)
        /\ UNCHANGED <<upd, inst, stateData, artifactName, finished>>
        /\ cur.status = "success" => upd.payload
    BY Zenon DEF ReportError, Handling, memory, disk, world, Quiet, OutcomeInv, Vouches, Earned
  <2>2. PICK id \in {"Rollback", "Idle"} : Goto(Plain(id)) /\ (id = "Rollback" => cur.status = "success")
    BY Zenon DEF ReportError
  <2>3. Plain(id).id = id /\ Plain(id).status = "none"
    BY PlainShape, Zenon DEF StateIds, UpdateStates
  <2>4. Vouches(Plain(id))
    BY <2>1, <2>2, <2>3, Zenon DEF Vouches, Owes, Knows, Earned, Forth, Committed, RolledBack
  <2> QED BY <2>1, <2>2, <2>4, <1>GoesTo, Zenon DEF Grows

(* The payload's answers, and all steps together.                          *)

\* Every Handle method keeps the invariant.
<1>HandleOutcome.
    ASSUME Inv, OutcomeInv, Handle
    PROVE  OutcomeInv'
  BY <1>HandleOutcome, <1>InitOutcome, <1>InitResumeOutcome, <1>IdleOutcome, <1>RestOutcome,
     <1>UpdateCheckOutcome, <1>FetchOutcome,
     <1>UpdateStoreOutcome, <1>UpdateStoreHeadersOutcome, <1>UpdateStorePayloadsOutcome,
     <1>UpdateStoreRollbackOutcome, <1>ForthOutcome, <1>InstallOutcome, <1>InstallRebootTypeOutcome,
     <1>RebootOutcome, <1>CommitOutcome, <1>CommitStoreOutcome, <1>AfterCommitOutcome,
     <1>RollbackOutcome,
     <1>UpdateErrorOutcome, <1>CleanupOutcome, <1>FinalOutcome, <1>ReportErrorOutcome, Zenon DEF Handle

<1> SUFFICES ASSUME Inv, OutcomeInv, [Next]_vars PROVE OutcomeInv'
  OBVIOUS
<1>1. CASE Daemon
  BY <1>1, <1>HandleOutcome, <1>RunOutcome, <1>LeaveFailsOutcome, <1>StoreStateOutcome, <1>EnterOutcome,
     <1>FlagOutcome, Zenon DEF Daemon
<1>2. CASE Answer
  BY <1>2, AnswerOutcome, Zenon DEF Answer
<1>3. CASE Machine
  BY <1>3, MachineOutcome, Zenon
<1>4. CASE Signal
  BY <1>4, <1>ForceOutcome, Zenon DEF Signal
<1>5. CASE UNCHANGED vars
  <2>1. /\ UNCHANGED <<cur, to, pc, upd, inst, call, stateData>>
        /\ UNCHANGED <<called, finished, artifactName>>
    BY <1>5, Zenon DEF vars
  <2>2. Vouches(cur)' /\ Vouches(to)'
    BY <2>1 DEF OutcomeInv, Vouches, Owes, Knows, Earned, Renamed, Coherent
  <2>3. Coherent(upd)'
    BY <2>1, Zenon DEF OutcomeInv, Coherent
  <2>4. EntryInv'
    BY <2>1, Zenon DEF OutcomeInv, EntryInv, Owes, Knows, Coherent, Renamed, Quiet
  <2>5. InProgressInv'
    BY <2>1, Zenon DEF OutcomeInv, InProgressInv
  <2> QED BY <2>2, <2>3, <2>4, <2>5, Zenon DEF OutcomeInv
<1> QED BY <1>1, <1>2, <1>3, <1>4, <1>5, Zenon DEF Next

\* The invariant holds in every state of every behaviour.
LEMMA SpecOutcome == Spec => [](Inv /\ OutcomeInv)
<1>1. Init => Inv /\ OutcomeInv
  BY InitInv, OutcomeInit, Zenon
<1>2. Inv /\ OutcomeInv /\ [Next]_vars => (Inv /\ OutcomeInv)'
  BY NextInv, OutcomeNext, Zenon
<1> QED BY <1>1, <1>2, PTL DEF Spec

\* Success is reported only of a payload that is committed and cleaned up, on
\* a device that has dropped the old name: no order of restarts, failed
\* scripts, retries or lost writes leads updateCleanupState to a success that
\* was not earned.
THEOREM SuccessEarned == Spec => []SuccessIsTrue
<1>1. OutcomeInv => SuccessIsTrue
  BY Zenon DEF OutcomeInv, Vouches, Earned, Renamed, SuccessIsTrue
<1> QED BY <1>1, SpecOutcome, PTL

\* Whenever the payload or the machine can be interrupted, the entry on disk
\* has what initState needs to recover: the payload, its answer to
\* SupportsRollback, and the way to reboot it.
THEOREM RecoveryIsPossible == Spec => []RecoveryInfoOnDisk
<1>1. ASSUME Inv, OutcomeInv PROVE RecoveryInfoOnDisk
  <2>1. CASE call \notin Operations \ {"ReadHeaders", "ArtifactFailure", "Cleanup"}
    BY <2>1, Zenon DEF RecoveryInfoOnDisk, RebootOps, Operations
  <2>2. CASE call \in Operations \ {"ReadHeaders", "ArtifactFailure", "Cleanup"}
    <3>1. pc = "handle" /\ call \in Calls(cur.id) /\ call # "none"
      BY <1>1, <2>2, Zenon DEF Inv, CallInv, OutcomeInv, InProgressInv, Operations
    <3>2. /\ call \in {"Download", "SupportsRollback"} => cur.id = "UpdateStore"
          /\ call \in {"ArtifactInstall", "ArtifactCommit"} => cur.id \in {"Install", "Commit"}
          /\ call \in RebootOps => cur.id \in {"Reboot", "RollbackReboot"}
          /\ cur.id \in {"UpdateStore", "Install", "Reboot", "VerifyReboot", "Commit", "Rollback",
                         "RollbackReboot", "VerifyRollbackReboot"}
          /\ cur.id = "UpdateStore" => call \in {"Download", "SupportsRollback"}
      BY <2>2, <3>1, Zenon DEF Calls, RebootOps
    <3>3. stateData.info = upd
      BY <1>1, <3>1, <3>2, InUpdate, Zenon DEF UpdateStates
    <3>4. upd.payload
      BY <1>1, <3>2, Zenon DEF OutcomeInv, InProgressInv, Vouches, Knows, Coherent, Forth, RolledBack,
         Committed
    <3> QED BY <1>1, <3>2, <3>3, <3>4, Zenon DEF RecoveryInfoOnDisk, OutcomeInv, Vouches, Knows, Forth,
            RolledBack
  <2> QED BY <2>1, <2>2, Zenon
<1> QED BY <1>1, SpecOutcome, PTL

------------------------------------------------------------------------------
(* The daemon implements UpdatePromise.                                    *)

\* A step that the promise does not see.
Still == UNCHANGED <<called, finished, artifactName, server>>

\* Deciding where to go is not seen.
LEMMA ErrorStill ==
    ASSUME NEW s, NEW severity, HandleError(s, severity)
    PROVE  called' = called
BY Zenon DEF HandleError, RollbackOrFail, Goto, GotoBroken

\* Nor is a report on the way.
LEMMA ReportStill ==
    ASSUME ReportAborted \/ ReportPassed \/ UNCHANGED backend
    PROVE  server' = server
BY Zenon DEF ReportAborted, ReportPassed, backend

\* A call that is allowed is a step of the promise.
LEMMA CallKept ==
    ASSUME NEW op \in Operations, Call(op), Kept!May(op), UNCHANGED <<finished, artifactName, server>>
    PROVE  Kept!PromiseNext
BY Zenon DEF Call, Kept!PromiseNext, Kept!Begin

\* The steps of Run and the handlers that call nothing.
LEMMA StillSteps ==
    ASSUME Inv, OutcomeInv,
           \/ Exit \/ Transit \/ StoreState \/ Enter \/ LeaveFails \/ Signal \/ Crash \/ StartAgain
           \/ InitIdle \/ InitLoadFails \/ InitResume \/ Idle \/ AuthorizeWait \/ Authorize
           \/ CheckWait \/ InventoryUpdate \/ Error \/ UpdateFetch \/ FetchStoreRetry
           \/ UpdateStoreRollback \/ AfterStore \/ InstallRebootType \/ RebootReturns
           \/ AfterReboot \/ PreCommitRetry \/ AfterFirstCommit \/ AfterCommit
           \/ AfterRollbackReboot \/ StatusReportRetry \/ ReportError
    PROVE  Still
<1>1. CASE Exit \/ Transit \/ StoreState \/ Enter \/ LeaveFails \/ Signal \/ Crash \/ StartAgain
  BY <1>1, ErrorStill, Zenon DEF Exit, Transit, StoreState, Enter, LeaveFails, Signal,
     ForceToState, Crash,
     StartAgain, Restart, StoreExceeded, GotoBroken, Still, disk, backend, world
<1>2. CASE \/ InitIdle \/ InitLoadFails \/ Idle \/ AuthorizeWait \/ Authorize
           \/ CheckWait \/ InventoryUpdate \/ Error
  BY <1>2, Zenon DEF InitIdle, InitLoadFails, Idle, AuthorizeWait, Authorize, CheckWait, InventoryUpdate,
     Error, Goto, Still, disk, backend, world
<1>3. CASE InitResume
  BY <1>3, Zenon DEF InitResume, NextAfterRestart, RollbackOrFail, Goto, GotoBroken, Still, backend, world
<1>4. CASE UpdateFetch \/ FetchStoreRetry \/ AfterStore \/ AfterReboot
  BY <1>4, ReportStill, Zenon DEF UpdateFetch, FetchStoreRetry, AfterStore, AfterReboot, Goto, Still, disk,
     backend, world
<1>5. CASE UpdateStoreRollback
  BY <1>5, ReportStill, Zenon DEF UpdateStoreRollback, StoreExceeded, Goto, GotoBroken, Still, world
<1>6. CASE InstallRebootType
  BY <1>6, ErrorStill, Zenon DEF InstallRebootType, StoreExceeded, Goto, GotoBroken, Still,
     backend, world
<1>7. CASE \/ RebootReturns \/ PreCommitRetry \/ AfterFirstCommit \/ AfterCommit
           \/ AfterRollbackReboot \/ StatusReportRetry \/ ReportError
  BY <1>7, ErrorStill, Zenon DEF RebootReturns, PreCommitRetry, AfterFirstCommit, AfterCommit,
     AfterRollbackReboot, StatusReportRetry, ReportError, Goto, Still, disk, backend, world
<1> QED BY <1>1, <1>2, <1>3, <1>4, <1>5, <1>6, <1>7, Zenon

\* The handlers that may call the payload call only what is allowed.
LEMMA CallSteps ==
    ASSUME Inv, OutcomeInv,
           \/ UpdateStore \/ UpdateStoreHeaders \/ UpdateStorePayloads \/ Install
           \/ InstallInstalled \/ Reboot \/ VerifyReboot \/ Commit \/ Rollback \/ RollbackReboot
           \/ VerifyRollbackReboot \/ UpdateError \/ Cleanup
    PROVE  Kept!PromiseNext \/ Still
<1>1. /\ pc = "handle" /\ Needs(cur.id) /\ Owes(cur.id)
      /\ UNCHANGED <<finished, artifactName, server>>
  BY ReportStill, Zenon DEF UpdateStore, UpdateStoreHeaders, UpdateStorePayloads, Install,
     InstallInstalled, Reboot, VerifyReboot, Commit, Rollback, RollbackReboot,
     VerifyRollbackReboot, UpdateError, Cleanup, Handling, Answered, disk, backend, world,
     Inv, PositionInv, OutcomeInv, Vouches
<1>2. CASE called' = called
  BY <1>1, <1>2, Zenon DEF Still
<1>3. ASSUME NEW op \in {"ReadHeaders", "Download", "ArtifactRollback", "ArtifactFailure", "Cleanup",
                         "SystemReboot"}, Call(op)
      PROVE  Kept!PromiseNext
  <2>1. Kept!May(op)
    BY Zenon DEF Kept!May
  <2> QED BY <1>1, <1>3, <2>1, CallKept, Zenon DEF Operations
<1>4. CASE UpdateStore \/ UpdateStoreHeaders
  BY <1>2, <1>3, <1>4, Zenon DEF UpdateStore, UpdateStoreHeaders, StoreExceeded, Goto, GotoBroken
<1>5. CASE UpdateStorePayloads
  <2>1. ret # "err" => Kept!May("SupportsRollback")
    BY <1>5, Zenon DEF UpdateStorePayloads, Answered, Inv, CallInv, Kept!May
  <2> QED BY <1>1, <1>2, <1>5, <2>1, CallKept, Zenon DEF UpdateStorePayloads, Goto, Operations
<1>6. CASE Install
  <2>1. Kept!May("ArtifactInstall")
    BY <1>1, <1>6, Zenon DEF Install, Handling, Needs, Downloaded, Fresh, Kept!May, Kept!Forward
  <2> QED BY <1>1, <1>2, <1>6, <2>1, CallKept, ErrorStill, Zenon DEF Install, Operations
<1>7. CASE InstallInstalled
  <2>1. ret # "err" => Kept!May("NeedsArtifactReboot")
    BY <1>1, <1>7, Zenon DEF InstallInstalled, Answered, Inv, CallInv, Needs, Downloaded, Fresh, Kept!May,
       Kept!Forward
  <2> QED BY <1>1, <1>2, <1>7, <2>1, CallKept, ErrorStill, Zenon DEF InstallInstalled, Operations
<1>8. CASE Reboot \/ VerifyReboot \/ Commit
  <2>1. /\ Kept!May("ArtifactReboot") /\ Kept!May("ArtifactVerifyReboot")
        /\ Kept!May("ArtifactCommit")
    BY <1>1, <1>8, Zenon DEF Reboot, VerifyReboot, Commit, Handling, Answered, Needs, Installed,
       Downloaded, Fresh, Kept!May, Kept!Forward
  <2> QED BY <1>1, <1>2, <1>3, <1>8, <2>1, CallKept, ErrorStill, Zenon DEF Reboot, VerifyReboot, Commit,
          Goto, Operations
<1>9. CASE Rollback \/ UpdateError \/ Cleanup
  BY <1>2, <1>3, <1>9, ErrorStill, Zenon DEF Rollback, UpdateError, Cleanup, AfterRollback, Goto
<1>10. CASE RollbackReboot \/ VerifyRollbackReboot
  <2>1. Kept!May("ArtifactRollbackReboot") /\ Kept!May("ArtifactVerifyRollbackReboot")
    BY <1>1, <1>10, Zenon DEF RollbackReboot, VerifyRollbackReboot, Handling, Answered, Owes, RolledBack,
       Kept!May
  <2> QED BY <1>1, <1>2, <1>3, <1>10, <2>1, CallKept, ErrorStill, Zenon DEF RollbackReboot,
          VerifyRollbackReboot, Goto, Operations
<1> QED BY <1>4, <1>5, <1>6, <1>7, <1>8, <1>9, <1>10, Zenon

\* The other steps: a deployment begins, the name changes, the server is
\* told, the payload answers.
LEMMA SeenSteps ==
    ASSUME Inv, OutcomeInv,
           \/ UpdateCheck \/ CommitStore \/ SetBrokenArtifactFlag \/ StatusReport \/ Answer \/ Reboots
    PROVE  Kept!PromiseNext \/ Still
<1>1. CASE UpdateCheck
  BY <1>1, Zenon DEF UpdateCheck, NewDeployment, Goto, Still, disk, backend, world,
     Kept!PromiseNext, Kept!Deploy, Kept!PromiseInit
<1>2. CASE CommitStore
  <2>1. UNCHANGED <<called, finished, server>>
    BY <1>2, ErrorStill, Zenon DEF CommitStore, StoreExceeded, Goto, GotoBroken, backend, world
  <2>2. \/ artifactName' = artifactName
        \/ artifactName' = "next" /\ "ArtifactCommit" \in finished
    BY <1>2, Zenon DEF CommitStore, Answered, Inv, CallInv, disk
  <2> QED BY <2>1, <2>2, Zenon DEF Still, Kept!PromiseNext, Kept!TakeName
<1>3. CASE SetBrokenArtifactFlag
  BY <1>3, Zenon DEF SetBrokenArtifactFlag, Still, backend, world, Kept!PromiseNext, Kept!MarkBroken
<1>4. CASE StatusReport
  <2>1. /\ cur.status \in Statuses /\ Earned(cur) /\ cur.id = "StatusReport"
        /\ UNCHANGED <<called, finished, artifactName>>
    BY <1>4, StateShape, Zenon DEF StatusReport, Handling, Retry, Goto, disk, world, Inv, TypeOK,
       OutcomeInv, Vouches
  <2>2. server' \in {server, cur.status}
    BY <1>4, Zenon DEF StatusReport, ReportAborted, ReportLost, ReportAccepted
  <2>3. server' = cur.status => Kept!Tell(cur.status)
    BY <2>1, Zenon DEF Kept!Tell, Earned, Renamed
  <2> QED BY <2>1, <2>2, <2>3, Zenon DEF Still, Kept!PromiseNext
<1>5. CASE Answer \/ Reboots
  <2>1. /\ finished' \in {finished, finished \union {call}} /\ call \in Operations /\ call \in called
        /\ UNCHANGED <<called, artifactName, server>>
    BY <1>5, Zenon DEF Answer, AnswerWith, Reboots, RebootOps, Restart, disk, backend, Inv, TypeOK,
       OutcomeInv, InProgressInv
  <2> QED BY <2>1, Zenon DEF Still, Kept!PromiseNext, Kept!Succeed
<1> QED BY <1>1, <1>2, <1>3, <1>4, <1>5, Zenon

\* Every step of the daemon is a step of the promise, or not seen by it.
LEMMA PromiseStep ==
    Inv /\ OutcomeInv /\ [Next]_vars => [Kept!PromiseNext]_(Kept!promise)
<1> SUFFICES ASSUME Inv, OutcomeInv, [Next]_vars PROVE Kept!PromiseNext \/ Still
  BY Zenon DEF Still, Kept!promise
<1>1. CASE UNCHANGED vars
  BY <1>1, Zenon DEF vars, Still
<1>2. CASE Daemon
  BY <1>2, StillSteps, CallSteps, SeenSteps, Zenon DEF Daemon, Handle
<1>3. CASE Answer
  BY <1>3, SeenSteps, Zenon
<1>4. CASE Machine
  BY <1>4, StillSteps, SeenSteps, Zenon DEF Machine
<1>5. CASE Signal
  BY <1>5, StillSteps, Zenon
<1> QED BY <1>1, <1>2, <1>3, <1>4, <1>5, Zenon DEF Next

\* The daemon implements UpdatePromise, whatever the bounds are and whatever
\* goes wrong: payloads are asked for nothing out of order, the new artifact's
\* name is taken only after ArtifactCommit succeeded, and the server is told
\* success or "already installed" only when that is so.
THEOREM PromiseKept == Spec => KeepsPromise
<1>1. Init => Kept!PromiseInit
  BY Zenon DEF Init, Kept!PromiseInit
<1> QED BY <1>1, PromiseStep, SpecOutcome, PTL DEF Spec, KeepsPromise, Kept!Promise
==============================================================================
