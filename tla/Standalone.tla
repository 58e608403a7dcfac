----------------------------- MODULE Standalone ------------------------------
(***************************************************************************)
(* The commands install, commit and rollback (app/standalone.go), given by *)
(* a user one after the other.  A command is a sequence of calls: state    *)
(* scripts, the payload, the database.  Every call is one step, so that    *)
(* each can fail and the device can lose power between any two.  The       *)
(* payload is a root filesystem (installer/dual_rootfs_device.go) or an    *)
(* update module; what it did to the device is kept per artifact.          *)
(***************************************************************************)
EXTENDS Naturals

CONSTANTS
    MaxInstalls,    \* artifacts the user may install, one after the other
    FailingCalls,   \* calls that may fail
    MaxCrashes      \* bound on power cuts

ASSUME StandaloneAssumption ==
    MaxInstalls \in Nat /\ MaxCrashes \in Nat

VARIABLES
    run,        \* the command in progress, with its standaloneData
    entry,      \* the artifact in StandaloneStateKey, 0: none
    dbName,     \* ArtifactNameKey: artifact and whether it is called broken
    phase,      \* what each artifact's payload has done to the device
    artifact,   \* what kind of payload, and whether it can be rolled back
    last,       \* the last command that returned, and how
    lost,       \* power or the database has failed, or a command had only the
                \* boot loader's flag to go by
    crashes

standaloneVars == <<run, entry, dbName, phase, artifact, last, lost, crashes>>

Artifacts == 1 .. MaxInstalls
NoRun == [cmd |-> "none", pc |-> "idle", art |-> 0, named |-> 0, name |-> "none",
          mode |-> "none", support |-> FALSE, firstErr |-> FALSE, err |-> FALSE,
          flag |-> FALSE, late |-> FALSE]

NoLast == [cmd |-> "none", art |-> 0, ok |-> FALSE, flag |-> FALSE, late |-> FALSE]

DownloadCalls == {"Download Enter", "ReadHeaders", "Depends", "StorePayloads", "Download Leave"}
InstallCalls == {"SupportsRollback", "Install Enter", "InstallUpdate", "Install Leave",
                 "NeedsReboot", "store"}
CommitCalls == {"restore", "Commit Enter", "CommitUpdate", "Commit Leave"}
FailureCalls == {"support again", "Rollback Enter", "Rollback", "Rollback Leave", "Failure"}
Calls == DownloadCalls \union InstallCalls \union CommitCalls \union FailureCalls
         \union {"Cleanup", "database"}

StandaloneTypeOK ==
    /\ run \in [cmd : {"none", "install", "commit", "rollback"}, pc : Calls \union {"idle"},
                art : 0 .. MaxInstalls, named : 0 .. MaxInstalls,
                name : {"none", "clean", "broken", "old"},
                mode : {"none", "quiet", "full", "rollback"}, support : BOOLEAN,
                firstErr : BOOLEAN, err : BOOLEAN, flag : BOOLEAN, late : BOOLEAN]
    /\ entry \in 0 .. MaxInstalls
    /\ dbName \in [art : 0 .. MaxInstalls, broken : BOOLEAN]
    /\ phase \in [Artifacts -> {"absent", "read", "stored", "cleaned", "partial", "installed", "booted",
                                "committed", "rolled back"}]
    /\ artifact \in [Artifacts -> [kind : {"rootfs", "module"}, rollback : BOOLEAN]]
    /\ last \in [cmd : {"none", "install", "commit", "rollback"}, art : 0 .. MaxInstalls,
                 ok : BOOLEAN, flag : BOOLEAN, late : BOOLEAN]
    /\ lost \in BOOLEAN
    /\ crashes \in 0 .. MaxCrashes

StandaloneInit ==
    /\ run = NoRun /\ entry = 0 /\ dbName = [art |-> 0, broken |-> FALSE]
    /\ phase = [a \in Artifacts |-> "absent"]
    /\ artifact \in [Artifacts -> {[kind |-> "rootfs", rollback |-> TRUE],
                                   [kind |-> "module", rollback |-> TRUE],
                                   [kind |-> "module", rollback |-> FALSE]}]
    /\ last = NoLast
    /\ lost = FALSE /\ crashes = 0

------------------------------------------------------------------------------
(* How a command goes on.                                                  *)

Goto(pc) == run' = [run EXCEPT !.pc = pc] /\ UNCHANGED last

Return(err) ==
    /\ run' = NoRun
    /\ last' = [cmd |-> run.cmd, art |-> run.art, ok |-> ~err, flag |-> run.flag,
                late |-> run.late]

\* doStandaloneFailureStates without rollback and failure states: the old
\* name is kept.
FailQuietly ==
    /\ run' = [run EXCEPT !.pc = "Cleanup", !.mode = "quiet", !.name = "old", !.err = TRUE]
    /\ UNCHANGED last

\* doStandaloneFailureStates with all of them.
FailFully ==
    /\ run' = [run EXCEPT !.pc = "support again", !.mode = "full", !.err = TRUE]
    /\ UNCHANGED last

\* A call of the command at pc, with or without an error.  A root filesystem
\* answers the queries and ends without fail.
Succeeds(pc) == run.pc = pc
Fails(pc) ==
    /\ run.pc = pc /\ pc \in FailingCalls
    /\ pc \in {"SupportsRollback", "support again", "NeedsReboot", "Failure", "Cleanup"}
          => artifact[run.art].kind = "module"

\* Scripts and queries leave the device and the database alone.
Nothing == UNCHANGED <<entry, dbName, phase, artifact, lost, crashes>>

------------------------------------------------------------------------------
(* install                                                                 *)

\* HasUpdate of the dual rootfs device: upgrade_available is set.
Flagged(a) == artifact[a].kind = "rootfs" /\ phase[a] \in {"installed", "booted"}

\* DoStandaloneInstall of a new artifact.  The user commits or rolls back the
\* one before, if it waits for that.
DoStandaloneInstall ==
    /\ run.pc = "idle"
    /\ entry = 0 /\ ~\E b \in Artifacts : Flagged(b)
    /\ \E a \in Artifacts :
         /\ phase[a] = "absent" /\ \A b \in 1 .. a - 1 : phase[b] # "absent"
         /\ run' = [NoRun EXCEPT !.cmd = "install", !.pc = "Download Enter", !.art = a,
                                 !.named = a, !.name = "clean"]
         /\ phase' = [phase EXCEPT ![a] = "read"]
    /\ UNCHANGED <<entry, dbName, artifact, last, lost, crashes>>

\* doStandaloneInstallStatesDownload: nothing has been done before the
\* headers are read, and nothing is cleaned up when the artifact's
\* dependencies are not met.
DownloadEnter ==
    /\ Nothing
    /\ \/ Succeeds("Download Enter") /\ Goto("ReadHeaders")
       \/ Fails("Download Enter") /\ Return(TRUE)

ReadHeaders ==
    /\ Nothing
    /\ \/ Succeeds("ReadHeaders") /\ Goto("Depends")
       \/ Fails("ReadHeaders") /\ FailQuietly

VerifyDepends ==
    /\ Nothing
    /\ \/ Succeeds("Depends") /\ Goto("StorePayloads")
       \/ Fails("Depends") /\ Return(TRUE)

SetPhase(p) ==
    /\ phase' = [phase EXCEPT ![run.art] = p]
    /\ UNCHANGED <<entry, dbName, artifact, lost, crashes>>

StorePayloads ==
    /\ SetPhase("stored")
    /\ \/ Succeeds("StorePayloads") /\ Goto("Download Leave")
       \/ Fails("StorePayloads") /\ FailQuietly

DownloadLeave ==
    /\ Nothing
    /\ \/ Succeeds("Download Leave") /\ Goto("SupportsRollback")
       \/ Fails("Download Leave") /\ FailQuietly

\* doStandaloneInstallStates.
DetermineRollbackSupport ==
    /\ Nothing
    /\ \/ /\ Succeeds("SupportsRollback") /\ run.cmd = "install"
          /\ Goto("Install Enter")
       \/ Fails("SupportsRollback") /\ run.cmd = "install" /\ FailQuietly

InstallScripts ==
    /\ Nothing
    /\ \/ Succeeds("Install Enter") /\ Goto("InstallUpdate")
       \/ Succeeds("Install Leave") /\ Goto("NeedsReboot")
       \/ Succeeds("NeedsReboot") /\ Goto("store")
       \/ (\E pc \in {"Install Enter", "Install Leave", "NeedsReboot"} : Fails(pc)) /\ FailFully

\* Mutant: an error of the payload is only logged.
InstallUpdateUnchecked ==
    \/ Succeeds("InstallUpdate") /\ SetPhase("installed") /\ Goto("Install Leave")
    \/ Fails("InstallUpdate") /\ (SetPhase("partial") \/ Nothing) /\ Goto("Install Leave")

InstallUpdate ==
    \/ Succeeds("InstallUpdate") /\ SetPhase("installed") /\ Goto("Install Leave")
    \/ Fails("InstallUpdate") /\ (SetPhase("partial") \/ Nothing) /\ FailFully

\* storeStandaloneData: the artifact can be committed or rolled back from
\* now on.  Without rollback support it is committed at once.
StoreStandaloneData ==
    \/ /\ Succeeds("store")
       /\ entry' = run.art
       /\ IF artifact[run.art].rollback THEN Return(FALSE) ELSE Goto("restore")
       /\ UNCHANGED <<dbName, phase, artifact, lost, crashes>>
    \/ /\ Fails("store")
       /\ Return(TRUE)
       /\ lost' = TRUE
       /\ UNCHANGED <<entry, dbName, phase, artifact, crashes>>

------------------------------------------------------------------------------
(* commit and rollback                                                     *)

Begin(cmd) ==
    /\ run.pc = "idle"
    /\ run' = [NoRun EXCEPT !.cmd = cmd, !.pc = "restore"]
    /\ UNCHANGED <<entry, dbName, phase, artifact, last, lost, crashes>>

DoStandaloneCommit == Begin("commit")
DoStandaloneRollback == Begin("rollback")

\* The root filesystem that is mounted: of artifact m, or the one from before.
Mounted(m) ==
    LET up == {a \in Artifacts : artifact[a].kind = "rootfs" /\ phase[a] \in {"booted", "committed"}}
    IN IF m = 0 THEN up = {} ELSE m \in up /\ \A b \in up : b <= m

\* restoreStandaloneData: the entry, or for a root filesystem without one
\* (handlePreDatabaseRestore) the boot loader's flag and the name in the
\* file system that is running.  History: whether it went by the flag, and
\* whether the payload had been committed already.
RestoreStandaloneData ==
    /\ \/ /\ Succeeds("restore")
          /\ \E a \in Artifacts, n \in 0 .. MaxInstalls :
               /\ IF entry # 0 THEN a = entry /\ n = entry ELSE Flagged(a) /\ Mounted(n)
               /\ run' = [run EXCEPT !.art = a, !.named = n, !.name = "clean",
                                     !.flag = (entry = 0), !.late = (phase[a] = "committed"),
                                     !.pc = IF run.cmd = "rollback" THEN "SupportsRollback"
                                            ELSE "Commit Enter"]
          /\ lost' = (lost \/ entry = 0)
          /\ UNCHANGED last
       \/ /\ Succeeds("restore") /\ entry = 0 /\ ~\E a \in Artifacts : Flagged(a)
          /\ Return(TRUE) /\ UNCHANGED lost
       \/ Fails("restore") /\ Return(TRUE) /\ UNCHANGED lost
    /\ UNCHANGED <<entry, dbName, phase, artifact, crashes>>

\* doStandaloneCommitStates.
CommitEnter ==
    /\ Nothing
    /\ \/ Succeeds("Commit Enter") /\ Goto("CommitUpdate")
       \/ Fails("Commit Enter") /\ FailFully

\* A root filesystem is committed only while its flag is set; a module that
\* has committed before may do so again.
Committable(a) == IF artifact[a].kind = "rootfs" THEN Flagged(a)
                  ELSE phase[a] \in {"installed", "committed"}

\* Mutant: an error of the payload is only logged.
CommitUpdateUnchecked ==
    \/ /\ Succeeds("CommitUpdate") /\ Committable(run.art)
       /\ SetPhase("committed") /\ Goto("Commit Leave")
    \/ /\ Fails("CommitUpdate") \/ (Succeeds("CommitUpdate") /\ ~Committable(run.art))
       /\ Nothing /\ Goto("Commit Leave")

CommitUpdate ==
    \/ /\ Succeeds("CommitUpdate") /\ Committable(run.art)
       /\ SetPhase("committed") /\ Goto("Commit Leave")
    \/ /\ Fails("CommitUpdate") \/ (Succeeds("CommitUpdate") /\ ~Committable(run.art))
       /\ Nothing /\ FailFully

\* Too late to roll back: only the name says that something went wrong.
CommitLeave ==
    /\ Nothing
    /\ \/ Succeeds("Commit Leave") /\ Goto("Cleanup")
       \/ /\ Fails("Commit Leave")
          /\ run' = [run EXCEPT !.pc = "Cleanup", !.name = "broken", !.err = TRUE]
          /\ UNCHANGED last

\* The beginning of DoStandaloneRollback; doStandaloneFailureStatesRollback
\* goes on with the failure states when there is no support.
AskRollbackSupport ==
    /\ Nothing
    /\ \/ /\ Succeeds("SupportsRollback") /\ run.cmd = "rollback"
          /\ IF artifact[run.art].rollback THEN Goto("Rollback Enter") ELSE Return(TRUE)
       \/ Fails("SupportsRollback") /\ run.cmd = "rollback" /\ Return(TRUE)
       \/ /\ Succeeds("support again")
          /\ run' = [run EXCEPT !.support = artifact[run.art].rollback,
                                !.pc = IF artifact[run.art].rollback THEN "Rollback Enter"
                                       ELSE "Failure"]
          /\ UNCHANGED last
       \/ /\ Fails("support again")
          /\ run' = [run EXCEPT !.firstErr = TRUE, !.pc = "Failure"]
          /\ UNCHANGED last

\* doStandaloneRollbackState goes on after an error, and remembers the first.
RollbackScripts ==
    /\ Nothing
    /\ \/ Succeeds("Rollback Enter") /\ Goto("Rollback")
       \/ /\ Fails("Rollback Enter")
          /\ run' = [run EXCEPT !.firstErr = TRUE, !.pc = "Rollback"] /\ UNCHANGED last

\* The root filesystem goes back only while the flag is set; there is nothing
\* to do otherwise, and no error.
RolledBack(a) ==
    IF phase[a] \in {"installed", "booted", "partial"} THEN "rolled back" ELSE phase[a]

Rollback ==
    \/ Succeeds("Rollback") /\ SetPhase(RolledBack(run.art)) /\ Goto("Rollback Leave")
    \/ /\ Fails("Rollback") /\ Nothing
       /\ run' = [run EXCEPT !.firstErr = TRUE, !.pc = "Rollback Leave"] /\ UNCHANGED last

\* Mutant: only the error of the payload itself counts.
AfterRollbackTrusting(firstErr) ==
    IF run.cmd = "rollback" /\ run.mode = "none"
    THEN [run EXCEPT !.pc = "Cleanup", !.name = "old"]
    ELSE [run EXCEPT !.firstErr = firstErr, !.pc = "Failure"]

\* After a rollback: the old name is kept, or the failure states follow.
AfterRollback(firstErr) ==
    IF run.mode = "full" THEN [run EXCEPT !.firstErr = firstErr, !.pc = "Failure"]
    ELSE IF firstErr
    THEN [run EXCEPT !.firstErr = TRUE, !.mode = "rollback", !.pc = "Failure", !.err = TRUE]
    ELSE [run EXCEPT !.name = "old", !.pc = "Cleanup"]

RollbackLeave ==
    /\ Nothing
    /\ \/ Succeeds("Rollback Leave") /\ run' = AfterRollback(run.firstErr)
       \/ Fails("Rollback Leave") /\ run' = AfterRollback(TRUE)
    /\ UNCHANGED last

\* Mutant: the artifact is not called broken.
NameAfterFailureOld(firstErr) == "old"

\* The name doStandaloneFailureStates leaves behind: the old one only if
\* everything was rolled back without an error.
NameAfterFailure(firstErr) ==
    IF firstErr \/ run.mode = "rollback" \/ ~run.support THEN "broken" ELSE "old"

\* doStandaloneFailureStatesFailure: errors of the failure scripts are
\* ignored, that of the payload is not.
Failure ==
    /\ Nothing
    /\ \/ Succeeds("Failure")
          /\ run' = [run EXCEPT !.pc = "Cleanup", !.name = NameAfterFailure(run.firstErr)]
       \/ Fails("Failure")
          /\ run' = [run EXCEPT !.pc = "Cleanup", !.name = NameAfterFailure(TRUE)]
    /\ UNCHANGED last

------------------------------------------------------------------------------
(* doStandaloneCleanup                                                     *)

CleanupPayload ==
    /\ \/ Succeeds("Cleanup") /\ run' = [run EXCEPT !.pc = "database"]
       \/ Fails("Cleanup") /\ run' = [run EXCEPT !.pc = "database", !.err = TRUE]
    /\ phase' = [phase EXCEPT ![run.art] = IF @ = "stored" THEN "cleaned" ELSE @]
    /\ UNCHANGED <<entry, dbName, artifact, last, lost, crashes>>

\* One transaction removes the entry and writes the name, with group and
\* provides, unless the old one is kept.
WriteDatabase ==
    /\ \/ /\ Succeeds("database")
          /\ entry' = 0
          /\ dbName' = IF run.name = "old" THEN dbName
                       ELSE [art |-> run.named, broken |-> run.name = "broken"]
          /\ Return(run.err)
          /\ UNCHANGED lost
       \/ /\ Fails("database")
          /\ Return(TRUE)
          /\ lost' = TRUE
          /\ UNCHANGED <<entry, dbName>>
    /\ UNCHANGED <<phase, artifact, crashes>>

------------------------------------------------------------------------------
(* The device.                                                             *)

\* Booting with upgrade_available set: the new file system comes up once,
\* and the old one again if that was not committed.
BootPhase(a) ==
    IF ~Flagged(a) THEN phase[a]
    ELSE IF phase[a] = "installed" THEN "booted" ELSE "rolled back"

Boots == phase' = [a \in Artifacts |-> BootPhase(a)]

\* The user reboots between two commands.
RebootDevice ==
    /\ run.pc = "idle" /\ Boots
    /\ UNCHANGED <<run, entry, dbName, artifact, last, lost, crashes>>

PowerCut ==
    /\ run.pc # "idle" /\ crashes < MaxCrashes
    /\ crashes' = crashes + 1
    /\ Boots
    /\ run' = NoRun /\ lost' = TRUE
    /\ last' = NoLast
    /\ UNCHANGED <<entry, dbName, artifact>>

StandaloneNext ==
    \/ DoStandaloneInstall \/ DownloadEnter \/ ReadHeaders \/ VerifyDepends \/ StorePayloads
    \/ DownloadLeave \/ DetermineRollbackSupport \/ InstallScripts \/ InstallUpdate
    \/ StoreStandaloneData
    \/ DoStandaloneCommit \/ DoStandaloneRollback \/ RestoreStandaloneData
    \/ CommitEnter \/ CommitUpdate \/ CommitLeave
    \/ AskRollbackSupport \/ RollbackScripts \/ Rollback \/ RollbackLeave \/ Failure
    \/ CleanupPayload \/ WriteDatabase
    \/ RebootDevice \/ PowerCut

StandaloneSpec == StandaloneInit /\ [][StandaloneNext]_standaloneVars

------------------------------------------------------------------------------
(* What has to hold.                                                       *)

Idle == run.pc = "idle"

\* A name without the suffix for broken artifacts is in the database only if
\* the payload of that artifact was committed, whatever failed and wherever
\* the power was cut.
CleanNameIsCommitted == ~dbName.broken /\ dbName.art # 0 => phase[dbName.art] = "committed"

\* What waits for commit or rollback in the database was installed
\* completely.
EntryIsInstalled ==
    entry # 0 => phase[entry] \in {"installed", "booted", "committed", "rolled back"}

\* The artifact installed last.
Latest(a) == phase[a] # "absent" /\ \A b \in Artifacts : b > a => phase[b] = "absent"

\* Without power cuts and database errors, and as long as commit and rollback
\* find the entry, the database tells the truth between two commands: what
\* is neither committed nor rolled back waits for the user, or is called
\* broken; what was committed is named; what was undone is not, unless as
\* broken.  A payload that stored something was told to clean up
\* (doStandaloneFailureStates, doStandaloneCleanup).
DatabaseTellsTruth ==
    Idle /\ ~lost /\ entry = 0 =>
        \A a \in Artifacts : Latest(a) =>
            CASE phase[a] = "committed" -> dbName.art = a
              [] phase[a] \in {"partial", "installed", "booted"} ->
                     dbName = [art |-> a, broken |-> TRUE]
              [] OTHER -> phase[a] # "stored" /\ (dbName.art # a \/ dbName.broken)

\* A command that returns success has done what it says: install leaves the
\* artifact to be committed or commits it, commit names it in the database,
\* rollback undoes it.  There are two exceptions.  A commit without an entry
\* (handlePreDatabaseRestore) commits what the boot loader's flag is about
\* and names what runs.  A rollback of a payload that was committed, where
\* power or the database failed before the entry was removed, removes the
\* entry and returns success, with the payload still committed.
SuccessIsReal ==
    last.ok /\ Idle =>
        CASE last.cmd = "install" ->
               \/ entry = last.art /\ artifact[last.art].rollback
               \/ phase[last.art] = "committed" /\ dbName = [art |-> last.art, broken |-> FALSE]
          [] last.cmd = "commit" ->
               /\ entry = 0 /\ phase[last.art] = "committed"
               /\ ~last.flag => dbName = [art |-> last.art, broken |-> FALSE]
          [] last.cmd = "rollback" ->
               /\ entry = 0
               /\ phase[last.art] = IF last.late THEN "committed" ELSE "rolled back"
               /\ last.late => lost
==============================================================================
