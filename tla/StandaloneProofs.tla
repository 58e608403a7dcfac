-------------------------- MODULE StandaloneProofs ---------------------------
(***************************************************************************)
(* What the database says about installed artifacts, and what a standalone *)
(* command's success means, for any number of artifacts, failing calls and *)
(* power cuts.                                                             *)
(***************************************************************************)
EXTENDS Standalone, TLAPS

Downloading == {"Download Enter", "ReadHeaders", "Depends", "StorePayloads"}
Installing == {"Download Leave", "Install Enter", "InstallUpdate"}
Installed == {"Install Leave", "NeedsReboot", "store"}
Committing == {"Commit Enter", "CommitUpdate", "Commit Leave"}
RollingBack == {"Rollback Enter", "Rollback", "Rollback Leave"}
Closing == {"Cleanup", "database"}

\* Nothing is flagged for the boot loader.
NoneFlagged == \A b \in Artifacts : ~Flagged(b)

\* At most one root filesystem is flagged; the artifact of the entry was
\* installed; a name without suffix is that of a committed artifact.
DeviceInv ==
    /\ \A a, b \in Artifacts : Flagged(a) /\ Flagged(b) => a = b
    /\ EntryIsInstalled /\ CleanNameIsCommitted

\* How far the payload of an install has come, by the call that is next.
InstallInv ==
    /\ run.pc # "idle" => run.cmd # "none"
    /\ run.pc # "idle" /\ (run.pc # "restore" \/ run.cmd = "install") => run.art \in Artifacts
    /\ run.pc \in Downloading => phase[run.art] = "read"
    /\ run.pc \in Installing \/ (run.pc = "SupportsRollback" /\ run.cmd = "install")
         => phase[run.art] = "stored"
    /\ run.pc \in Downloading \union Installing
         \/ (run.pc = "SupportsRollback" /\ run.cmd = "install") => entry = 0 /\ NoneFlagged
    /\ run.pc \in Downloading \union Installing \union Installed => run.cmd = "install"
    /\ run.pc \in Installed => entry = 0 /\ phase[run.art] = "installed"
    /\ run.pc = "restore" /\ run.cmd = "install" => entry = run.art

\* The name that will be written is that of the artifact being committed,
\* or of the root filesystem that is running.
CommitInv ==
    /\ run.pc \in Committing => run.cmd \in {"install", "commit"}
    /\ run.pc \in {"Commit Enter", "CommitUpdate"} /\ run.named # 0
         => run.named = run.art \/ phase[run.named] = "committed"
    /\ run.pc = "Commit Leave" =>
         /\ phase[run.art] = "committed"
         /\ run.named # 0 => phase[run.named] = "committed"
    /\ run.pc \in Closing => run.name # "none"
    /\ run.pc \in Closing /\ run.name = "clean" /\ run.named # 0
         => phase[run.named] = "committed"
    /\ run.pc \in Committing =>
         run.name = "clean" /\ (run.named = run.art \/ (run.flag /\ run.cmd = "commit"))

\* Only a command that was cut short, or could not write the database,
\* leaves the entry of a committed artifact behind, for a rollback to find.
RollbackInv ==
    /\ ~lost /\ entry # 0 /\ phase[entry] = "committed"
         => run.cmd \in {"install", "commit"} /\ run.pc \in {"Commit Leave"} \union Closing
    /\ run.cmd = "rollback" /\ run.pc \notin {"idle", "restore"} /\ ~lost
         => entry = run.art
    /\ run.pc \in RollingBack \/ (run.pc = "SupportsRollback" /\ run.cmd # "install")
         => run.mode # "none" \/ run.cmd = "rollback"
    /\ run.pc = "Rollback Leave" /\ run.mode = "none" /\ ~run.firstErr
         => phase[run.art] = "rolled back" \/ run.late
    /\ run.cmd = "rollback" /\ run.pc \notin {"idle", "restore"} =>
         \/ run.late /\ phase[run.art] = "committed" /\ lost
         \/ ~run.late /\ phase[run.art] \in {"installed", "booted", "rolled back"}

\* A command that is about to return without an error.
EndInv ==
    /\ run.pc = "Failure" => run.err
    /\ run.pc = "support again" => run.mode = "full"
    /\ run.mode = "none" \/ run.err
    /\ run.pc \in Closing /\ ~run.err =>
         \/ /\ run.cmd \in {"install", "commit"} /\ phase[run.art] = "committed"
            /\ run.name = "clean"
            /\ run.named = run.art \/ (run.flag /\ run.cmd = "commit")
         \/ run.cmd = "rollback" /\ (phase[run.art] = "rolled back" \/ run.late)
    /\ last.ok => last.art \in Artifacts /\ last.cmd # "none"
    /\ SuccessIsReal

StandaloneInv ==
    StandaloneTypeOK /\ DeviceInv /\ InstallInv /\ CommitInv /\ RollbackInv /\ EndInv

------------------------------------------------------------------------------
(* How a command goes on.                                                  *)

Runs == [cmd : {"none", "install", "commit", "rollback"}, pc : Calls \union {"idle"},
         art : 0 .. MaxInstalls, named : 0 .. MaxInstalls,
         name : {"none", "clean", "broken", "old"},
         mode : {"none", "quiet", "full", "rollback"}, support : BOOLEAN,
         firstErr : BOOLEAN, err : BOOLEAN, flag : BOOLEAN, late : BOOLEAN]

Lasts == [cmd : {"none", "install", "commit", "rollback"}, art : 0 .. MaxInstalls,
          ok : BOOLEAN, flag : BOOLEAN, late : BOOLEAN]

Phases == {"absent", "read", "stored", "cleaned", "partial", "installed", "booted",
           "committed", "rolled back"}

\* The command goes on with the call pc.
Moves(pc, name, mode, firstErr, err) ==
    /\ run' \in Runs
    /\ run'.cmd = run.cmd /\ run'.art = run.art /\ run'.named = run.named
    /\ run'.pc = pc /\ run'.name = name /\ run'.mode = mode
    /\ run'.firstErr = firstErr /\ run'.err = err
    /\ run'.flag = run.flag /\ run'.late = run.late
    /\ UNCHANGED last

\* The command returns.
Returns(err) ==
    /\ run' \in Runs /\ run'.pc = "idle" /\ run'.cmd = "none" /\ run'.mode = "none"
    /\ last' \in Lasts
    /\ last'.cmd = run.cmd /\ last'.art = run.art /\ last'.ok = ~err
    /\ last'.flag = run.flag /\ last'.late = run.late

\* Goto changes nothing but the call that is next.
LEMMA GotoMoves ==
    ASSUME StandaloneTypeOK, NEW pc \in Calls, Goto(pc)
    PROVE  Moves(pc, run.name, run.mode, run.firstErr, run.err)
BY Zenon DEF StandaloneTypeOK, Goto, Moves, Runs

\* What an error before the installation changes.
LEMMA QuietMoves ==
    ASSUME StandaloneTypeOK, FailQuietly
    PROVE  Moves("Cleanup", "old", "quiet", run.firstErr, TRUE)
BY Zenon DEF StandaloneTypeOK, FailQuietly, Moves, Runs, Calls

\* What an error after it changes.
LEMMA FullyMoves ==
    ASSUME StandaloneTypeOK, FailFully
    PROVE  Moves("support again", run.name, "full", run.firstErr, TRUE)
BY Zenon DEF StandaloneTypeOK, FailFully, Moves, Runs, Calls, FailureCalls

\* What Return does, field by field.
LEMMA ReturnReturns ==
    ASSUME StandaloneTypeOK, NEW err \in BOOLEAN, Return(err)
    PROVE  Returns(err)
<1>1. /\ run' \in Runs /\ run'.pc = "idle" /\ run'.cmd = "none" /\ run'.mode = "none"
  BY StandaloneAssumption DEF Return, NoRun, Runs
<1>2. /\ last' \in Lasts
      /\ last'.cmd = run.cmd /\ last'.art = run.art /\ last'.ok = ~err
      /\ last'.flag = run.flag /\ last'.late = run.late
  <2>1. (~err) \in {TRUE, FALSE}
    BY Zenon
  <2>2. /\ run.cmd \in {"none", "install", "commit", "rollback"} /\ run.art \in 0 .. MaxInstalls
        /\ run.flag \in BOOLEAN /\ run.late \in BOOLEAN
    BY Zenon DEF StandaloneTypeOK
  <2>3. ASSUME NEW ok \in {TRUE, FALSE}, last' = [cmd |-> run.cmd, art |-> run.art, ok |-> ok,
                                                  flag |-> run.flag, late |-> run.late]
        PROVE  /\ last' \in Lasts
               /\ last'.cmd = run.cmd /\ last'.art = run.art /\ last'.ok = ok
               /\ last'.flag = run.flag /\ last'.late = run.late
    BY <2>2, <2>3, Zenon DEF Lasts
  <2> QED BY <2>1, <2>3, Zenon DEF Return
<1> QED BY <1>1, <1>2, Zenon DEF Returns

\* A call that leaves device and database alone leaves what is said of them.
LEMMA NothingDevice ==
    ASSUME DeviceInv, Nothing
    PROVE  DeviceInv'
BY Zenon DEF DeviceInv, Nothing, EntryIsInstalled, CleanNameIsCommitted, Flagged, Artifacts

\* It flags nothing either.
LEMMA NothingFlagged ==
    ASSUME NoneFlagged, Nothing
    PROVE  NoneFlagged'
BY Zenon DEF NoneFlagged, Nothing, Flagged, Artifacts

\* After the payload was told to clean up the database is next.
LEMMA DatabaseMoves ==
    ASSUME StandaloneTypeOK, UNCHANGED last
    PROVE  /\ run' = [run EXCEPT !.pc = "database"]
                => Moves("database", run.name, run.mode, run.firstErr, run.err)
           /\ run' = [run EXCEPT !.pc = "database", !.err = TRUE]
                => Moves("database", run.name, run.mode, run.firstErr, TRUE)
<1>1. ASSUME run' = [run EXCEPT !.pc = "database"]
      PROVE  Moves("database", run.name, run.mode, run.firstErr, run.err)
  BY <1>1, Zenon DEF StandaloneTypeOK, Moves, Runs, Calls
<1>2. ASSUME run' = [run EXCEPT !.pc = "database", !.err = TRUE]
      PROVE  Moves("database", run.name, run.mode, run.firstErr, TRUE)
  BY <1>2, Zenon DEF StandaloneTypeOK, Moves, Runs, Calls
<1> QED BY <1>1, <1>2, Zenon

\* The result of the last command is kept or forgotten.
LEMMA LastTyped ==
    ASSUME StandaloneTypeOK,
           last' = last \/ last' = NoLast
    PROVE  last' \in Lasts
<1>1. CASE last' = last
  BY <1>1, Zenon DEF StandaloneTypeOK, Lasts
<1>2. CASE last' = NoLast
  BY <1>2, StandaloneAssumption DEF NoLast, Lasts
<1> QED BY <1>1, <1>2, Zenon

\* A name as the database holds it.
LEMMA NameTyped ==
    ASSUME NEW n \in 0 .. MaxInstalls, NEW b \in BOOLEAN
    PROVE  [art |-> n, broken |-> b] \in [art : 0 .. MaxInstalls, broken : BOOLEAN]
OBVIOUS

\* A step that changes the command and little else keeps the types.
LEMMA TypesKept ==
    ASSUME StandaloneTypeOK, run' \in Runs, lost' \in BOOLEAN,
           UNCHANGED <<entry, dbName, phase, artifact, last, crashes>>
    PROVE  StandaloneTypeOK'
BY Zenon DEF StandaloneTypeOK, Runs

\* 0 is no artifact.
LEMMA Numbers ==
    /\ \A x \in 0 .. MaxInstalls : x # 0 => x \in Artifacts
    /\ \A x \in Artifacts : x # 0 /\ x \in 0 .. MaxInstalls
BY StandaloneAssumption DEF Artifacts

\* One artifact's payload comes into another phase.
LEMMA PhaseDevice ==
    ASSUME StandaloneTypeOK, DeviceInv, NEW a \in Artifacts, NEW p \in Phases,
           phase' = [phase EXCEPT ![a] = p], UNCHANGED <<entry, dbName, artifact>>,
           phase[a] = "committed" => p = "committed",
           entry = a => p \in {"installed", "booted", "committed", "rolled back"},
           p \in {"installed", "booted"} => NoneFlagged
    PROVE  DeviceInv'
<1>0. phase \in [Artifacts -> Phases] /\ entry \in 0 .. MaxInstalls /\ dbName.art \in 0 .. MaxInstalls
  BY Zenon DEF StandaloneTypeOK, Phases
<1>1. \A b \in Artifacts : phase'[b] = IF b = a THEN p ELSE phase[b]
  BY <1>0, Zenon
<1>2. (\A b, c \in Artifacts : Flagged(b) /\ Flagged(c) => b = c)'
  BY ZenonT(60), <1>1 DEF DeviceInv, NoneFlagged, Flagged, Artifacts
<1>3. EntryIsInstalled'
  BY <1>0, <1>1, Numbers, Zenon DEF DeviceInv, EntryIsInstalled
<1>4. CleanNameIsCommitted'
  BY <1>0, <1>1, Numbers, Zenon DEF DeviceInv, CleanNameIsCommitted
<1> QED BY <1>2, <1>3, <1>4, Zenon DEF DeviceInv

\* An error before anything was installed leaves the old name.
LEMMA QuietInv ==
    ASSUME StandaloneInv, Nothing, FailQuietly,
           run.pc \in {"ReadHeaders", "StorePayloads", "Download Leave", "SupportsRollback"},
           run.cmd = "install"
    PROVE  StandaloneInv'
<1> USE DEF StandaloneInv, Moves, Downloading, Installing, Installed, Committing, RollingBack,
   Closing
<1>0. Moves("Cleanup", "old", "quiet", run.firstErr, TRUE)
  BY QuietMoves, Zenon
<1>1. StandaloneTypeOK'
  BY <1>0, Zenon DEF Nothing, StandaloneTypeOK, Runs
<1>2. DeviceInv'
  BY NothingDevice, Zenon DEF Nothing
<1>3. InstallInv'
  BY <1>0, NothingFlagged, Zenon DEF Nothing, InstallInv, Artifacts
<1>4. CommitInv'
  BY <1>0, Zenon DEF Nothing, CommitInv, InstallInv
<1>5. RollbackInv'
  BY <1>0, Zenon DEF Nothing, RollbackInv, CommitInv, InstallInv
<1>6. EndInv'
  BY <1>0, Zenon DEF Nothing, EndInv, SuccessIsReal, Idle
<1> QED BY <1>1, <1>2, <1>3, <1>4, <1>5, <1>6, Zenon

\* An error after that begins the rollback and failure states.
LEMMA FullyInv ==
    ASSUME StandaloneInv, Nothing, FailFully,
           run.pc \in {"Install Enter", "InstallUpdate", "Install Leave", "NeedsReboot", "Commit Enter", "CommitUpdate"}
    PROVE  StandaloneInv'
<1> USE DEF StandaloneInv, Moves, Downloading, Installing, Installed, Committing, RollingBack,
   Closing
<1>0. Moves("support again", run.name, "full", run.firstErr, TRUE)
  BY FullyMoves, Zenon
<1>1. StandaloneTypeOK'
  BY <1>0, Zenon DEF Nothing, StandaloneTypeOK, Runs
<1>2. DeviceInv'
  BY NothingDevice, Zenon DEF Nothing
<1>3. InstallInv'
  BY <1>0, NothingFlagged, Zenon DEF Nothing, InstallInv, Artifacts
<1>4. CommitInv'
  BY <1>0, Zenon DEF Nothing, CommitInv, InstallInv
<1>5. RollbackInv'
  BY <1>0, Zenon DEF Nothing, RollbackInv, CommitInv, InstallInv
<1>6. EndInv'
  BY <1>0, Zenon DEF Nothing, EndInv, SuccessIsReal, Idle
<1> QED BY <1>1, <1>2, <1>3, <1>4, <1>5, <1>6, Zenon

\* A command may return with an error before it has done anything.
LEMMA ReturnErrInv ==
    ASSUME StandaloneInv, Nothing, Return(TRUE),
           run.pc \in {"Download Enter", "Depends", "restore", "SupportsRollback"}
    PROVE  StandaloneInv'
<1> USE DEF StandaloneInv, Moves, Downloading, Installing, Installed, Committing, RollingBack,
   Closing
<1>0. Returns(TRUE)
  BY ReturnReturns, Zenon
<1>1. StandaloneTypeOK'
  BY <1>0, Zenon DEF Nothing, Returns, StandaloneTypeOK, Runs, Lasts
<1>2. DeviceInv'
  BY NothingDevice, Zenon DEF Nothing
<1>3. InstallInv'
  BY <1>0, Zenon DEF Nothing, Returns, InstallInv
<1>4. CommitInv'
  BY <1>0, Zenon DEF Nothing, Returns, CommitInv
<1>5. RollbackInv'
  BY <1>0, Zenon DEF Nothing, Returns, RollbackInv
<1>6. EndInv'
  BY <1>0, Zenon DEF Nothing, Returns, EndInv, SuccessIsReal, Idle
<1> QED BY <1>1, <1>2, <1>3, <1>4, <1>5, <1>6, Zenon

\* The calls of an install that change neither the device nor the database.
LEMMA DownloadGoesOn ==
    ASSUME StandaloneInv, Nothing, (Succeeds("Download Enter") /\ Goto("ReadHeaders"))
           \/ (Succeeds("ReadHeaders") /\ Goto("Depends"))
           \/ (Succeeds("Depends") /\ Goto("StorePayloads"))
    PROVE  StandaloneInv'
<1> USE DEF StandaloneInv, Moves, Downloading, Installing, Installed, Committing, RollingBack,
   Closing
<1>0. \/ run.pc = "Download Enter" /\ Moves("ReadHeaders", run.name, run.mode, run.firstErr, run.err)
      \/ run.pc = "ReadHeaders" /\ Moves("Depends", run.name, run.mode, run.firstErr, run.err)
      \/ run.pc = "Depends" /\ Moves("StorePayloads", run.name, run.mode, run.firstErr, run.err)
  BY GotoMoves, Zenon DEF Succeeds, Calls, DownloadCalls, InstallCalls, CommitCalls, FailureCalls
<1>1. StandaloneTypeOK'
  BY <1>0, Zenon DEF Nothing, StandaloneTypeOK, Runs
<1>2. DeviceInv'
  BY NothingDevice, Zenon DEF Nothing
<1>3. InstallInv'
  <2>1. CASE run.pc = "Download Enter"
    BY <1>0, <2>1, NothingFlagged, Zenon DEF Nothing, InstallInv, Artifacts
  <2>2. CASE run.pc = "ReadHeaders"
    BY <1>0, <2>2, NothingFlagged, Zenon DEF Nothing, InstallInv, Artifacts
  <2>3. CASE run.pc = "Depends"
    BY <1>0, <2>3, NothingFlagged, Zenon DEF Nothing, InstallInv, Artifacts
  <2> QED BY <1>0, <2>1, <2>2, <2>3, Zenon
<1>4. CommitInv'
  BY <1>0, Zenon DEF Nothing, CommitInv, InstallInv
<1>5. RollbackInv'
  BY <1>0, Zenon DEF Nothing, RollbackInv, CommitInv, InstallInv
<1>6. EndInv'
  BY <1>0, Zenon DEF Nothing, EndInv, SuccessIsReal, Idle
<1> QED BY <1>1, <1>2, <1>3, <1>4, <1>5, <1>6, Zenon

\* The same after the download.
LEMMA InstallGoesOn ==
    ASSUME StandaloneInv, Nothing, run.cmd = "install",
           (Succeeds("Download Leave") /\ Goto("SupportsRollback"))
           \/ (Succeeds("SupportsRollback") /\ Goto("Install Enter"))
           \/ (Succeeds("Install Enter") /\ Goto("InstallUpdate"))
           \/ (Succeeds("Install Leave") /\ Goto("NeedsReboot"))
           \/ (Succeeds("NeedsReboot") /\ Goto("store"))
    PROVE  StandaloneInv'
<1> USE DEF StandaloneInv, Moves, Downloading, Installing, Installed, Committing, RollingBack,
   Closing
<1>0. \/ run.pc = "Download Leave" /\ Moves("SupportsRollback", run.name, run.mode, run.firstErr, run.err)
      \/ run.pc = "SupportsRollback" /\ Moves("Install Enter", run.name, run.mode, run.firstErr, run.err)
      \/ run.pc = "Install Enter" /\ Moves("InstallUpdate", run.name, run.mode, run.firstErr, run.err)
      \/ run.pc = "Install Leave" /\ Moves("NeedsReboot", run.name, run.mode, run.firstErr, run.err)
      \/ run.pc = "NeedsReboot" /\ Moves("store", run.name, run.mode, run.firstErr, run.err)
  BY GotoMoves, Zenon DEF Succeeds, Calls, DownloadCalls, InstallCalls, CommitCalls, FailureCalls
<1>1. StandaloneTypeOK'
  BY <1>0, Zenon DEF Nothing, StandaloneTypeOK, Runs
<1>2. DeviceInv'
  BY NothingDevice, Zenon DEF Nothing
<1>3. InstallInv'
  BY <1>0, NothingFlagged, Zenon DEF Nothing, InstallInv, Artifacts
<1>4. CommitInv'
  BY <1>0, Zenon DEF Nothing, CommitInv, InstallInv
<1>5. RollbackInv'
  BY <1>0, Zenon DEF Nothing, RollbackInv, CommitInv, InstallInv
<1>6. EndInv'
  BY <1>0, Zenon DEF Nothing, EndInv, SuccessIsReal, Idle
<1> QED BY <1>1, <1>2, <1>3, <1>4, <1>5, <1>6, Zenon

\* Those of a commit.
LEMMA CommitGoesOn ==
    ASSUME StandaloneInv, Nothing, (Succeeds("Commit Enter") /\ Goto("CommitUpdate"))
           \/ (Succeeds("Commit Leave") /\ Goto("Cleanup"))
    PROVE  StandaloneInv'
<1> USE DEF StandaloneInv, Moves, Downloading, Installing, Installed, Committing, RollingBack,
   Closing
<1>0. \/ run.pc = "Commit Enter" /\ Moves("CommitUpdate", run.name, run.mode, run.firstErr, run.err)
      \/ run.pc = "Commit Leave" /\ Moves("Cleanup", run.name, run.mode, run.firstErr, run.err)
  BY GotoMoves, Zenon DEF Succeeds, Calls, DownloadCalls, InstallCalls, CommitCalls, FailureCalls
<1>1. StandaloneTypeOK'
  BY <1>0, Zenon DEF Nothing, StandaloneTypeOK, Runs
<1>2. DeviceInv'
  BY NothingDevice, Zenon DEF Nothing
<1>3. InstallInv'
  BY <1>0, NothingFlagged, Zenon DEF Nothing, InstallInv, Artifacts
<1>4. CommitInv'
  BY <1>0, Zenon DEF Nothing, CommitInv, InstallInv
<1>5. RollbackInv'
  BY <1>0, Zenon DEF Nothing, RollbackInv, CommitInv, InstallInv
<1>6. EndInv'
  BY <1>0, Zenon DEF Nothing, EndInv, CommitInv, SuccessIsReal, Idle
<1> QED BY <1>1, <1>2, <1>3, <1>4, <1>5, <1>6, Zenon

\* Those of a rollback.
LEMMA RollbackGoesOn ==
    ASSUME StandaloneInv, Nothing, run.pc = "SupportsRollback" => run.cmd = "rollback",
           (Succeeds("SupportsRollback") /\ Goto("Rollback Enter"))
           \/ (Succeeds("Rollback Enter") /\ Goto("Rollback"))
    PROVE  StandaloneInv'
<1> USE DEF StandaloneInv, Moves, Downloading, Installing, Installed, Committing, RollingBack,
   Closing
<1>0. \/ run.pc = "SupportsRollback" /\ Moves("Rollback Enter", run.name, run.mode, run.firstErr, run.err)
      \/ run.pc = "Rollback Enter" /\ Moves("Rollback", run.name, run.mode, run.firstErr, run.err)
  BY GotoMoves, Zenon DEF Succeeds, Calls, DownloadCalls, InstallCalls, CommitCalls, FailureCalls
<1>1. StandaloneTypeOK'
  BY <1>0, Zenon DEF Nothing, StandaloneTypeOK, Runs
<1>2. DeviceInv'
  BY NothingDevice, Zenon DEF Nothing
<1>3. InstallInv'
  BY <1>0, NothingFlagged, Zenon DEF Nothing, InstallInv, Artifacts
<1>4. CommitInv'
  BY <1>0, Zenon DEF Nothing, CommitInv, InstallInv
<1>5. RollbackInv'
  BY <1>0, Zenon DEF Nothing, RollbackInv, CommitInv, InstallInv
<1>6. EndInv'
  BY <1>0, Zenon DEF Nothing, EndInv, SuccessIsReal, Idle
<1> QED BY <1>1, <1>2, <1>3, <1>4, <1>5, <1>6, Zenon

------------------------------------------------------------------------------
(* The calls that change the device or the database.                       *)

\* An install begins with a new artifact, and nothing else under way.
LEMMA InstallBegins ==
    ASSUME StandaloneInv, DoStandaloneInstall
    PROVE  StandaloneInv'
<1> USE DEF StandaloneInv, Moves, Downloading, Installing, Installed, Committing, RollingBack,
   Closing
<1>a. PICK a \in Artifacts :
        /\ phase[a] = "absent" /\ phase' = [phase EXCEPT ![a] = "read"]
        /\ run' = [NoRun EXCEPT !.cmd = "install", !.pc = "Download Enter", !.art = a,
                                !.named = a, !.name = "clean"]
  BY Zenon DEF DoStandaloneInstall
<1>b. entry = 0 /\ NoneFlagged /\ UNCHANGED <<entry, dbName, artifact, last, lost, crashes>>
  BY Zenon DEF DoStandaloneInstall, NoneFlagged
<1>c. run' = [cmd |-> "install", pc |-> "Download Enter", art |-> a, named |-> a, name |-> "clean",
            mode |-> "none", support |-> FALSE, firstErr |-> FALSE, err |-> FALSE,
              flag |-> FALSE, late |-> FALSE]
  BY <1>a, Zenon DEF NoRun
<1>d. a \in 0 .. MaxInstalls /\ "Download Enter" \in Calls
  BY <1>a, Numbers, Zenon DEF Calls, DownloadCalls
<1>e. /\ run' \in Runs /\ run'.cmd = "install" /\ run'.pc = "Download Enter" /\ run'.art = a
      /\ run'.named = a /\ run'.name = "clean" /\ run'.mode = "none"
  BY <1>c, <1>d, Zenon DEF Runs
<1>f. phase \in [Artifacts -> Phases] /\ entry \in 0 .. MaxInstalls /\ dbName.art \in 0 .. MaxInstalls
  BY Zenon DEF StandaloneTypeOK, Phases
<1>1. StandaloneTypeOK'
  BY <1>a, <1>b, <1>c, <1>d, <1>e, <1>f, Zenon DEF Phases, StandaloneTypeOK, Runs
<1>2. DeviceInv'
  BY <1>a, <1>b, PhaseDevice, Numbers, Zenon DEF Phases
<1>3. InstallInv'
  BY <1>a, <1>b, <1>c, <1>d, <1>e, <1>f, Zenon DEF Phases, InstallInv, NoneFlagged, Flagged, Artifacts
<1>4. CommitInv'
  BY <1>a, <1>b, <1>c, <1>d, <1>e, <1>f, Zenon DEF Phases, CommitInv, InstallInv
<1>5. RollbackInv'
  BY <1>a, <1>b, <1>c, <1>d, <1>e, <1>f, Zenon DEF Phases, RollbackInv, CommitInv, InstallInv
<1>6. EndInv'
  BY <1>a, <1>b, <1>c, <1>d, <1>e, <1>f, Zenon DEF Phases, EndInv, SuccessIsReal, Idle
<1> QED BY <1>1, <1>2, <1>3, <1>4, <1>5, <1>6, Zenon

\* The payloads are stored, or not all of them.
LEMMA PayloadsAreStored ==
    ASSUME StandaloneInv, StorePayloads
    PROVE  StandaloneInv'
<1> USE DEF StandaloneInv, Moves, Downloading, Installing, Installed, Committing, RollingBack,
   Closing
<1>a. run.pc = "StorePayloads" /\ SetPhase("stored")
  BY Zenon DEF StorePayloads, Succeeds, Fails
<1>b. \/ Moves("Download Leave", run.name, run.mode, run.firstErr, run.err)
      \/ Moves("Cleanup", "old", "quiet", run.firstErr, TRUE)
  BY GotoMoves, QuietMoves, Zenon DEF StorePayloads, Calls, DownloadCalls
<1>c. phase \in [Artifacts -> Phases] /\ entry \in 0 .. MaxInstalls /\ dbName.art \in 0 .. MaxInstalls
  BY Zenon DEF StandaloneTypeOK, Phases
<1>1. StandaloneTypeOK'
  BY <1>a, <1>b, <1>c, Zenon DEF Phases, SetPhase, StandaloneTypeOK, Runs
<1>2. DeviceInv'
  BY <1>a, PhaseDevice, Numbers, Zenon DEF Phases, SetPhase, InstallInv
<1>3. InstallInv'
  BY <1>a, <1>b, <1>c, Zenon DEF Phases, SetPhase, InstallInv, NoneFlagged, Flagged, Artifacts
<1>4. CommitInv'
  BY <1>a, <1>b, <1>c, Zenon DEF Phases, SetPhase, CommitInv, InstallInv
<1>5. RollbackInv'
  BY <1>a, <1>b, <1>c, Zenon DEF Phases, SetPhase, RollbackInv, CommitInv, InstallInv
<1>6. EndInv'
  BY <1>a, <1>b, <1>c, Zenon DEF Phases, SetPhase, EndInv, SuccessIsReal, Idle
<1> QED BY <1>1, <1>2, <1>3, <1>4, <1>5, <1>6, Zenon

\* The payload is installed, or fails on the way or before it has begun.
LEMMA UpdateIsInstalled ==
    ASSUME StandaloneInv, InstallUpdate
    PROVE  StandaloneInv'
<1> USE DEF StandaloneInv, Moves, Downloading, Installing, Installed, Committing, RollingBack,
   Closing
<1>a. run.pc = "InstallUpdate" /\ run.art \in Artifacts /\ entry = 0 /\ NoneFlagged
  BY Zenon DEF InstallUpdate, Succeeds, Fails, InstallInv
<1>b. \/ SetPhase("installed") /\ Moves("Install Leave", run.name, run.mode, run.firstErr, run.err)
      \/ /\ SetPhase("partial") \/ Nothing
         /\ Moves("support again", run.name, "full", run.firstErr, TRUE)
  BY GotoMoves, FullyMoves, Zenon DEF InstallUpdate, Calls, InstallCalls
<1>c. phase \in [Artifacts -> Phases] /\ entry \in 0 .. MaxInstalls /\ dbName.art \in 0 .. MaxInstalls
  BY Zenon DEF StandaloneTypeOK, Phases
<1>1. StandaloneTypeOK'
  BY ZenonT(60), <1>a, <1>b, <1>c DEF Phases, SetPhase, Nothing, StandaloneTypeOK, Runs
<1>2. DeviceInv'
  <2>1. CASE SetPhase("installed")
    BY <1>a, <2>1, PhaseDevice, Zenon DEF SetPhase, Phases, InstallInv
  <2>2. CASE SetPhase("partial")
    BY <1>a, <2>2, PhaseDevice, Numbers, Zenon DEF SetPhase, Phases, InstallInv
  <2> QED BY <1>b, <2>1, <2>2, NothingDevice, Zenon
<1>3. InstallInv'
  BY <1>a, <1>b, <1>c, Zenon DEF Phases, SetPhase, Nothing, InstallInv, NoneFlagged, Flagged, Artifacts
<1>4. CommitInv'
  BY <1>a, <1>b, <1>c, Zenon DEF Phases, SetPhase, Nothing, CommitInv, InstallInv
<1>5. RollbackInv'
  BY <1>a, <1>b, <1>c, Zenon DEF Phases, SetPhase, Nothing, RollbackInv, CommitInv, InstallInv
<1>6. EndInv'
  BY <1>a, <1>b, <1>c, Zenon DEF Phases, SetPhase, Nothing, EndInv, SuccessIsReal, Idle
<1> QED BY <1>1, <1>2, <1>3, <1>4, <1>5, <1>6, Zenon

\* The entry is stored, for commit and rollback to find.
LEMMA EntryIsStored ==
    ASSUME StandaloneInv, Succeeds("store"), entry' = run.art,
           (artifact[run.art].rollback /\ Return(FALSE)) \/ Goto("restore"),
           UNCHANGED <<dbName, phase, artifact, lost, crashes>>
    PROVE  StandaloneInv'
<1> USE DEF StandaloneInv, Moves, Downloading, Installing, Installed, Committing, RollingBack,
   Closing
<1>a. run.pc = "store" /\ run.art \in Artifacts /\ phase[run.art] = "installed" /\ run.cmd = "install"
  BY Zenon DEF Succeeds, InstallInv
<1>b. (artifact[run.art].rollback /\ Returns(FALSE)) \/ Moves("restore", run.name, run.mode, run.firstErr, run.err)
  BY GotoMoves, ReturnReturns, Zenon DEF Calls, CommitCalls
<1>c. UNCHANGED <<dbName, phase, artifact, lost, crashes>> /\ entry' = run.art
  OBVIOUS
<1>1. StandaloneTypeOK'
  BY ZenonT(60), <1>b, <1>c, Numbers DEF Returns, StandaloneTypeOK, Runs, Lasts
<1>2. DeviceInv'
  BY <1>a, <1>b, <1>c, Zenon DEF DeviceInv, EntryIsInstalled, CleanNameIsCommitted, Flagged, Artifacts
<1>3. InstallInv'
  BY <1>a, <1>b, <1>c, Zenon DEF Returns, InstallInv, NoneFlagged, Flagged, Artifacts
<1>4. CommitInv'
  BY <1>a, <1>b, <1>c, Zenon DEF Returns, CommitInv, InstallInv
<1>5. RollbackInv'
  BY <1>a, <1>b, <1>c, Zenon DEF Returns, RollbackInv, CommitInv, InstallInv
<1>6. EndInv'
  BY <1>a, <1>b, <1>c, Zenon DEF Returns, EndInv, SuccessIsReal, Idle
<1> QED BY <1>1, <1>2, <1>3, <1>4, <1>5, <1>6, Zenon

\* The database cannot be written.
LEMMA EntryIsLost ==
    ASSUME StandaloneInv, run.pc \in {"store", "database"}, Return(TRUE), lost' = TRUE,
           UNCHANGED <<entry, dbName, phase, artifact, crashes>>
    PROVE  StandaloneInv'
<1> USE DEF StandaloneInv, Moves, Downloading, Installing, Installed, Committing, RollingBack,
   Closing
<1>a. Returns(TRUE)
  BY ReturnReturns, Zenon
<1>b. UNCHANGED <<entry, dbName, phase, artifact, crashes>> /\ lost' = TRUE
  OBVIOUS
<1>1. StandaloneTypeOK'
  <2>1. run' \in Runs /\ last' \in Lasts
    BY <1>a, Zenon DEF Returns
  <2>2. lost' \in BOOLEAN
    BY <1>b, Zenon
  <2> HIDE DEF StandaloneInv
  <2>3. StandaloneTypeOK
    BY Zenon DEF StandaloneInv
  <2>4. /\ entry' \in 0 .. MaxInstalls /\ dbName' \in [art : 0 .. MaxInstalls, broken : BOOLEAN]
        /\ phase' \in [Artifacts -> Phases] /\ crashes' \in 0 .. MaxCrashes
        /\ artifact' \in [Artifacts -> [kind : {"rootfs", "module"}, rollback : BOOLEAN]]
    BY <1>b, <2>3, Zenon DEF StandaloneTypeOK, Phases
  <2> QED BY <2>1, <2>2, <2>4, Zenon DEF StandaloneTypeOK, Runs, Lasts, Phases
<1>2. DeviceInv'
  BY <1>a, <1>b, Zenon DEF DeviceInv, EntryIsInstalled, CleanNameIsCommitted, Flagged, Artifacts
<1>3. InstallInv'
  BY <1>a, <1>b, Zenon DEF Returns, InstallInv, NoneFlagged, Flagged, Artifacts
<1>4. CommitInv'
  BY <1>a, <1>b, Zenon DEF Returns, CommitInv, InstallInv
<1>5. RollbackInv'
  BY <1>a, <1>b, Zenon DEF Returns, RollbackInv, CommitInv, InstallInv
<1>6. EndInv'
  BY <1>a, <1>b, Zenon DEF Returns, EndInv, SuccessIsReal, Idle
<1> QED BY <1>1, <1>2, <1>3, <1>4, <1>5, <1>6, Zenon

\* A commit or a rollback begins.
LEMMA CommandBegins ==
    ASSUME StandaloneInv, NEW cmd \in {"commit", "rollback"}, Begin(cmd)
    PROVE  StandaloneInv'
<1> USE DEF StandaloneInv, Moves, Downloading, Installing, Installed, Committing, RollingBack,
   Closing
<1>a. run.pc = "idle" /\ UNCHANGED <<entry, dbName, phase, artifact, last, lost, crashes>>
  BY Zenon DEF Begin
<1>b. run' = [cmd |-> cmd, pc |-> "restore", art |-> 0, named |-> 0, name |-> "none",
              mode |-> "none", support |-> FALSE, firstErr |-> FALSE, err |-> FALSE,
              flag |-> FALSE, late |-> FALSE]
  BY Zenon DEF Begin, NoRun
<1>c. /\ run' \in Runs /\ run'.cmd \in {"commit", "rollback"} /\ run'.pc = "restore"
      /\ run'.mode = "none"
  BY <1>b, StandaloneAssumption DEF Runs, Calls, CommitCalls
<1>1. StandaloneTypeOK'
  BY <1>a, <1>b, <1>c, Zenon DEF Runs, StandaloneTypeOK, Runs
<1>2. DeviceInv'
  BY <1>a, <1>b, <1>c, Zenon DEF DeviceInv, EntryIsInstalled, CleanNameIsCommitted, Flagged, Artifacts
<1>3. InstallInv'
  BY <1>a, <1>b, <1>c, Zenon DEF Runs, InstallInv, NoneFlagged, Flagged, Artifacts
<1>4. CommitInv'
  BY <1>a, <1>b, <1>c, Zenon DEF Runs, CommitInv, InstallInv
<1>5. RollbackInv'
  BY <1>a, <1>b, <1>c, Zenon DEF Runs, RollbackInv, CommitInv, InstallInv
<1>6. EndInv'
  BY <1>a, <1>b, <1>c, Zenon DEF Runs, EndInv, SuccessIsReal, Idle
<1> QED BY <1>1, <1>2, <1>3, <1>4, <1>5, <1>6, Zenon

------------------------------------------------------------------------------
(* commit and rollback                                                     *)

\* The entry is read, or the boot loader's flag taken for one.
LEMMA EntryIsRestored ==
    ASSUME StandaloneInv, Succeeds("restore"), NEW a \in Artifacts, NEW n \in 0 .. MaxInstalls,
           NEW f \in BOOLEAN, NEW l \in BOOLEAN, f <=> entry = 0, l <=> phase[a] = "committed",
           IF entry # 0 THEN a = entry /\ n = entry ELSE Flagged(a) /\ Mounted(n),
           run' = [run EXCEPT !.art = a, !.named = n, !.name = "clean", !.flag = f, !.late = l,
                              !.pc = IF run.cmd = "rollback" THEN "SupportsRollback"
                                     ELSE "Commit Enter"],
           lost' \in BOOLEAN, lost => lost', entry = 0 => lost',
           UNCHANGED <<entry, dbName, phase, artifact, last, crashes>>
    PROVE  StandaloneInv'
<1> USE DEF StandaloneInv, Moves, Downloading, Installing, Installed, Committing, RollingBack,
   Closing
<1>a. /\ lost' \in BOOLEAN /\ (lost => lost') /\ (entry = 0 => lost')
      /\ UNCHANGED <<entry, dbName, phase, artifact, last, crashes>>
  OBVIOUS
<1>b. /\ run' \in Runs /\ run'.cmd = run.cmd /\ run'.art = a /\ run'.named = n /\ run'.name = "clean"
      /\ run'.mode = run.mode /\ run'.err = run.err /\ run'.flag = f /\ run'.late = l
      /\ run'.pc = IF run.cmd = "rollback" THEN "SupportsRollback" ELSE "Commit Enter"
  <2> DEFINE pc == IF run.cmd = "rollback" THEN "SupportsRollback" ELSE "Commit Enter"
  <2>1. pc \in Calls
    BY Zenon DEF Calls, CommitCalls, InstallCalls
  <2>2. run \in Runs /\ a \in 0 .. MaxInstalls
    BY Numbers, Zenon DEF StandaloneTypeOK, Runs
  <2>3. run' = [run EXCEPT !.art = a, !.named = n, !.name = "clean", !.flag = f, !.late = l,
                           !.pc = pc]
    BY Zenon
  <2> HIDE DEF pc, StandaloneInv
  <2>4. /\ run' \in Runs /\ run'.cmd = run.cmd /\ run'.art = a /\ run'.named = n
        /\ run'.name = "clean" /\ run'.mode = run.mode /\ run'.err = run.err
        /\ run'.flag = f /\ run'.late = l /\ run'.pc = pc
    BY <2>1, <2>2, <2>3, ZenonT(40) DEF Runs
  <2> QED BY <2>4, Zenon DEF pc
<1>c. run.pc = "restore" /\ run.cmd \in {"install", "commit", "rollback"}
  BY Zenon DEF Succeeds, InstallInv, StandaloneTypeOK
<1>d. n # 0 => n = a \/ phase[n] = "committed"
  BY Zenon DEF DeviceInv, Mounted, Flagged, Artifacts
<1>e. n = a \/ (f /\ run.cmd # "install")
  BY <1>a, <1>c, Numbers, Zenon DEF InstallInv
<1>f. (f <=> entry = 0) /\ (l <=> phase[a] = "committed")
  OBVIOUS
<1>g. \/ l /\ phase[a] = "committed" /\ lost
      \/ ~l /\ phase[a] \in {"installed", "booted", "rolled back"}
  BY <1>c, <1>f, Zenon DEF RollbackInv, DeviceInv, EntryIsInstalled, Flagged
<1>1. StandaloneTypeOK'
  <2>1. lost' \in BOOLEAN /\ run' \in Runs
    BY <1>b, Zenon
  <2> QED BY <2>1, TypesKept, Zenon
<1>2. DeviceInv'
  BY <1>a, <1>b, <1>c, <1>d, <1>e, ZenonT(40) DEF DeviceInv, EntryIsInstalled, CleanNameIsCommitted,
     Flagged, Artifacts
<1>3. InstallInv'
  BY <1>a, <1>b, <1>c, <1>d, <1>e DEF Runs, InstallInv, NoneFlagged, Flagged, Artifacts
<1>4. CommitInv'
  BY <1>a, <1>b, <1>c, <1>d, <1>e DEF Runs, CommitInv, InstallInv
<1>5. RollbackInv'
  <2>1. run'.pc \in {"SupportsRollback", "Commit Enter"}
    BY <1>b, Zenon
  <2>2. ~lost => ~(entry # 0 /\ phase[entry] = "committed")
    BY <1>c, Zenon DEF RollbackInv
  <2>3. ~lost' => entry' = run'.art
    BY <1>a, <1>b, Zenon
  <2>4. run'.pc = "SupportsRollback" => run'.cmd = "rollback"
    <3>1. /\ run'.cmd = run.cmd
          /\ run'.pc = IF run.cmd = "rollback" THEN "SupportsRollback" ELSE "Commit Enter"
      BY <1>b, Zenon
    <3> HIDE DEF StandaloneInv
    <3> QED BY <3>1
  <2>5. \/ run'.late /\ phase'[run'.art] = "committed" /\ lost'
        \/ ~run'.late /\ phase'[run'.art] \in {"installed", "booted", "rolled back"}
    BY <1>a, <1>b, <1>g, Zenon
  <2> QED BY <1>a, <2>1, <2>2, <2>3, <2>4, <2>5, Zenon DEF RollbackInv
<1>6. EndInv'
  BY <1>a, <1>b, <1>c, <1>d, <1>e DEF Runs, EndInv, SuccessIsReal, Idle
<1> QED BY <1>1, <1>2, <1>3, <1>4, <1>5, <1>6, Zenon

\* The payload is committed.
LEMMA UpdateIsCommitted ==
    ASSUME StandaloneInv, Succeeds("CommitUpdate"), Committable(run.art), SetPhase("committed"),
           Goto("Commit Leave")
    PROVE  StandaloneInv'
<1> USE DEF StandaloneInv, Moves, Downloading, Installing, Installed, Committing, RollingBack,
   Closing
<1>a. run.pc = "CommitUpdate" /\ run.art \in Artifacts
  BY Zenon DEF Succeeds, InstallInv
<1>b. Moves("Commit Leave", run.name, run.mode, run.firstErr, run.err)
  BY GotoMoves, Zenon DEF Calls, CommitCalls
<1>c. phase \in [Artifacts -> Phases] /\ entry \in 0 .. MaxInstalls /\ dbName.art \in 0 .. MaxInstalls
  BY Zenon DEF StandaloneTypeOK, Phases
<1>d. \A b \in Artifacts : phase'[b] = IF b = run.art THEN "committed" ELSE phase[b]
  BY <1>c, Zenon DEF SetPhase
<1>e. run.named # 0 => run.named \in Artifacts
  BY Numbers, Zenon DEF StandaloneTypeOK
<1>1. StandaloneTypeOK'
  BY <1>a, <1>b, <1>c, <1>d, <1>e, Zenon DEF Phases, SetPhase, StandaloneTypeOK, Runs
<1>2. DeviceInv'
  BY <1>a, PhaseDevice, Numbers, Zenon DEF Phases, SetPhase
<1>3. InstallInv'
  BY <1>a, <1>b, <1>c, <1>d, <1>e, Zenon DEF Phases, SetPhase, InstallInv, NoneFlagged, Flagged,
     Artifacts
<1>4. CommitInv'
  BY <1>a, <1>b, <1>d, <1>e, Zenon DEF SetPhase, CommitInv
<1>5. RollbackInv'
  BY <1>a, <1>b, <1>c, <1>d, <1>e, Zenon DEF Phases, SetPhase, RollbackInv, CommitInv, InstallInv
<1>6. EndInv'
  BY <1>a, <1>b, <1>c, <1>d, <1>e, Zenon DEF Phases, SetPhase, EndInv, SuccessIsReal, Idle
<1> QED BY <1>1, <1>2, <1>3, <1>4, <1>5, <1>6, Zenon

\* An error after the commit only makes the name that of a broken artifact.
LEMMA CommitLeaveFails ==
    ASSUME StandaloneInv, Nothing, run.pc = "Commit Leave",
           run' = [run EXCEPT !.pc = "Cleanup", !.name = "broken", !.err = TRUE], UNCHANGED last
    PROVE  StandaloneInv'
<1> USE DEF StandaloneInv, Moves, Downloading, Installing, Installed, Committing, RollingBack,
   Closing
<1>a. Moves("Cleanup", "broken", run.mode, run.firstErr, TRUE)
  BY Zenon DEF StandaloneTypeOK, Runs, Calls
<1>1. StandaloneTypeOK'
  BY ZenonT(60), <1>a DEF Nothing, StandaloneTypeOK, Runs
<1>2. DeviceInv'
  BY NothingDevice, Zenon
<1>3. InstallInv'
  BY <1>a, Zenon DEF Nothing, InstallInv
<1>4. CommitInv'
  BY <1>a, Zenon DEF Nothing, CommitInv, InstallInv
<1>5. RollbackInv'
  BY <1>a, Zenon DEF Nothing, RollbackInv, CommitInv, InstallInv
<1>6. EndInv'
  BY <1>a, Zenon DEF Nothing, EndInv, SuccessIsReal, Idle
<1> QED BY <1>1, <1>2, <1>3, <1>4, <1>5, <1>6, Zenon

\* The answer to the question for rollback support, or its failure.
LEMMA SupportIsKnown ==
    ASSUME StandaloneInv, Nothing, run.pc = "support again", NEW f \in BOOLEAN,
           NEW pc \in {"Rollback Enter", "Failure"},
           Moves(pc, run.name, run.mode, f, run.err)
    PROVE  StandaloneInv'
<1> USE DEF StandaloneInv, Moves, Downloading, Installing, Installed, Committing, RollingBack,
   Closing
<1>a. Moves(pc, run.name, run.mode, f, run.err)
  BY Zenon
<1>1. StandaloneTypeOK'
  BY <1>a, Zenon DEF Nothing, StandaloneTypeOK, Runs
<1>2. DeviceInv'
  BY NothingDevice, Zenon
<1>3. InstallInv'
  BY <1>a, Zenon DEF Nothing, InstallInv
<1>4. CommitInv'
  BY <1>a, Zenon DEF Nothing, CommitInv, InstallInv
<1>5. RollbackInv'
  BY <1>a, Zenon DEF Nothing, RollbackInv, InstallInv, EndInv
<1>6. EndInv'
  BY <1>a, Zenon DEF Nothing, EndInv, SuccessIsReal, Idle
<1> QED BY <1>1, <1>2, <1>3, <1>4, <1>5, <1>6, Zenon

\* Rollback goes on after an error, which is not forgotten.
LEMMA RollbackGoesWrong ==
    ASSUME StandaloneInv, Nothing, run.pc \in {"Rollback Enter", "Rollback"},
           NEW pc \in {"Rollback", "Rollback Leave"},
           run' = [run EXCEPT !.firstErr = TRUE, !.pc = pc], UNCHANGED last
    PROVE  StandaloneInv'
<1> USE DEF StandaloneInv, Moves, Downloading, Installing, Installed, Committing, RollingBack,
   Closing
<1>a. Moves(pc, run.name, run.mode, TRUE, run.err)
  BY Zenon DEF StandaloneTypeOK, Runs, Calls, FailureCalls
<1>1. StandaloneTypeOK'
  BY ZenonT(60), <1>a DEF Nothing, StandaloneTypeOK, Runs
<1>2. DeviceInv'
  BY NothingDevice, Zenon
<1>3. InstallInv'
  BY <1>a, Zenon DEF Nothing, InstallInv
<1>4. CommitInv'
  BY <1>a, Zenon DEF Nothing, CommitInv, InstallInv
<1>5. RollbackInv'
  BY <1>a, Zenon DEF Nothing, RollbackInv, CommitInv, InstallInv
<1>6. EndInv'
  BY <1>a, Zenon DEF Nothing, EndInv, SuccessIsReal, Idle
<1> QED BY <1>1, <1>2, <1>3, <1>4, <1>5, <1>6, Zenon

\* The payload is rolled back, if there is anything to be undone.
LEMMA UpdateIsRolledBack ==
    ASSUME StandaloneInv, Succeeds("Rollback"), SetPhase(RolledBack(run.art)),
           Goto("Rollback Leave")
    PROVE  StandaloneInv'
<1> USE DEF StandaloneInv, Moves, Downloading, Installing, Installed, Committing, RollingBack,
   Closing
<1>a. run.pc = "Rollback" /\ run.art \in Artifacts
  BY Zenon DEF Succeeds, InstallInv
<1>b. Moves("Rollback Leave", run.name, run.mode, run.firstErr, run.err)
  BY GotoMoves, Zenon DEF Calls, FailureCalls
<1>c. phase \in [Artifacts -> Phases] /\ entry \in 0 .. MaxInstalls /\ dbName.art \in 0 .. MaxInstalls
  BY Zenon DEF StandaloneTypeOK, Phases
<1>d. PICK p \in Phases :
        /\ phase' = [phase EXCEPT ![run.art] = p]
        /\ p = IF phase[run.art] \in {"installed", "booted", "partial"} THEN "rolled back"
               ELSE phase[run.art]
  BY <1>a, <1>c, Zenon DEF SetPhase, RolledBack, Phases
<1>e. \A b \in Artifacts : phase'[b] = IF b = run.art THEN p ELSE phase[b]
  BY <1>c, <1>d, Zenon
<1>f. UNCHANGED <<entry, dbName, artifact, lost, crashes>>
  BY Zenon DEF SetPhase
<1>1. StandaloneTypeOK'
  BY <1>a, <1>b, <1>c, <1>d, <1>e, <1>f, Zenon DEF Phases, StandaloneTypeOK, Runs
<1>2. DeviceInv'
  <2>1. CASE phase[run.art] \in {"installed", "booted", "partial"}
    BY <1>a, <1>d, <1>f, <2>1, PhaseDevice, Zenon
  <2>2. CASE phase[run.art] \notin {"installed", "booted", "partial"}
    BY <1>a, <1>d, <1>f, <2>2, PhaseDevice, Numbers, Zenon DEF DeviceInv, EntryIsInstalled
  <2> QED BY <2>1, <2>2, Zenon
<1>3. InstallInv'
  BY <1>a, <1>b, Zenon DEF InstallInv
<1>4. CommitInv'
  BY <1>a, <1>b, Zenon DEF CommitInv
<1>5. RollbackInv'
  BY <1>a, <1>b, <1>c, <1>d, <1>e, <1>f, Numbers, ZenonT(40)
  DEF RollbackInv, InstallInv, DeviceInv, EntryIsInstalled
<1>6. EndInv'
  BY <1>a, <1>b, Zenon DEF EndInv, SuccessIsReal, Idle
<1> QED BY <1>1, <1>2, <1>3, <1>4, <1>5, <1>6, Zenon

\* After the rollback the command ends well or goes on with the failure states.
LEMMA RollbackIsLeft ==
    ASSUME StandaloneInv, Nothing, run.pc = "Rollback Leave", NEW f \in BOOLEAN, run.firstErr => f,
           run' = AfterRollback(f), UNCHANGED last
    PROVE  StandaloneInv'
<1> USE DEF StandaloneInv, Moves, Downloading, Installing, Installed, Committing, RollingBack,
   Closing
<1>a. \/ run.mode = "full" /\ Moves("Failure", run.name, run.mode, f, run.err)
      \/ run.mode # "full" /\ f /\ Moves("Failure", run.name, "rollback", TRUE, TRUE)
      \/ run.mode # "full" /\ ~f /\ Moves("Cleanup", "old", run.mode, run.firstErr, run.err)
  BY ZenonT(60) DEF AfterRollback, StandaloneTypeOK, Runs, Calls, FailureCalls
<1>1. StandaloneTypeOK'
  BY <1>a, ZenonT(40) DEF Nothing, StandaloneTypeOK, Runs
<1>2. DeviceInv'
  BY NothingDevice, Zenon
<1>3. InstallInv'
  BY <1>a, Zenon DEF Nothing, InstallInv
<1>4. CommitInv'
  BY <1>a, Zenon DEF Nothing, CommitInv, InstallInv
<1>5. RollbackInv'
  BY <1>a, Zenon DEF Nothing, RollbackInv, CommitInv, InstallInv
<1>6. EndInv'
  BY <1>a, Zenon DEF Nothing, EndInv, RollbackInv, SuccessIsReal, Idle
<1> QED BY <1>1, <1>2, <1>3, <1>4, <1>5, <1>6, Zenon

\* The failure states leave the name of a broken artifact, or the old one.
LEMMA FailureIsLeft ==
    ASSUME StandaloneInv, Nothing, run.pc = "Failure", NEW n \in {"broken", "old"},
           run' = [run EXCEPT !.pc = "Cleanup", !.name = n], UNCHANGED last
    PROVE  StandaloneInv'
<1> USE DEF StandaloneInv, Moves, Downloading, Installing, Installed, Committing, RollingBack,
   Closing
<1>a. Moves("Cleanup", n, run.mode, run.firstErr, run.err)
  BY Zenon DEF StandaloneTypeOK, Runs, Calls
<1>1. StandaloneTypeOK'
  <2>1. run' \in Runs /\ UNCHANGED <<entry, dbName, phase, artifact, last, lost, crashes>>
    BY <1>a, Zenon DEF Nothing
  <2> HIDE DEF StandaloneInv
  <2>2. StandaloneTypeOK
    BY Zenon DEF StandaloneInv
  <2> QED BY <2>1, <2>2, Zenon DEF StandaloneTypeOK, Runs
<1>2. DeviceInv'
  BY NothingDevice, Zenon
<1>3. InstallInv'
  BY <1>a, Zenon DEF Nothing, InstallInv
<1>4. CommitInv'
  BY <1>a, Zenon DEF Nothing, CommitInv, InstallInv
<1>5. RollbackInv'
  BY <1>a, Zenon DEF Nothing, RollbackInv, CommitInv, InstallInv
<1>6. EndInv'
  BY <1>a, Zenon DEF Nothing, EndInv, SuccessIsReal, Idle
<1> QED BY <1>1, <1>2, <1>3, <1>4, <1>5, <1>6, Zenon

------------------------------------------------------------------------------
(* The end of a command, and the device                                    *)

\* Whatever was only stored is removed.
LEMMA PayloadIsCleaned ==
    ASSUME StandaloneInv, CleanupPayload
    PROVE  StandaloneInv'
<1> USE DEF StandaloneInv, Moves, Downloading, Installing, Installed, Committing, RollingBack,
   Closing
<1>a. run.pc = "Cleanup" /\ run.art \in Artifacts
  BY Zenon DEF CleanupPayload, Succeeds, Fails, InstallInv
<1>b. UNCHANGED <<entry, dbName, artifact, last, lost, crashes>>
  BY Zenon DEF CleanupPayload
<1>c. \/ run' = [run EXCEPT !.pc = "database"] 
      \/ run' = [run EXCEPT !.pc = "database", !.err = TRUE]
  BY Zenon DEF CleanupPayload
<1>d. \/ Moves("database", run.name, run.mode, run.firstErr, run.err)
      \/ Moves("database", run.name, run.mode, run.firstErr, TRUE)
  BY <1>b, <1>c, DatabaseMoves, Zenon
<1>e. phase \in [Artifacts -> Phases] /\ entry \in 0 .. MaxInstalls /\ dbName.art \in 0 .. MaxInstalls
  BY Zenon DEF StandaloneTypeOK, Phases
<1>f. PICK p \in Phases :
        /\ phase' = [phase EXCEPT ![run.art] = p]
        /\ p = IF phase[run.art] = "stored" THEN "cleaned" ELSE phase[run.art]
  <2> DEFINE q == IF phase[run.art] = "stored" THEN "cleaned" ELSE phase[run.art]
  <2>1. phase[run.art] \in Phases /\ "cleaned" \in Phases
    BY <1>a, <1>e, Zenon DEF Phases
  <2>2. q \in Phases
    BY <2>1, Zenon
  <2>3. phase' = [phase EXCEPT ![run.art] = q]
    BY Zenon DEF CleanupPayload
  <2> QED BY <2>2, <2>3, Zenon
<1>g. \A b \in Artifacts : phase'[b] = IF b = run.art THEN p ELSE phase[b]
  BY <1>e, <1>f, Zenon
<1>h. run.named # 0 => run.named \in Artifacts
  BY Numbers, Zenon DEF StandaloneTypeOK
<1>1. StandaloneTypeOK'
  BY <1>a, <1>b, <1>c, <1>d, <1>e, <1>f, <1>g, <1>h, ZenonT(40) DEF Phases, StandaloneTypeOK, Runs
<1>2. DeviceInv'
  <2>1. CASE phase[run.art] = "stored"
    BY <1>a, <1>f, <1>b, <2>1, PhaseDevice, Numbers, Zenon DEF DeviceInv, EntryIsInstalled, Phases
  <2>2. CASE phase[run.art] # "stored"
    <3>1. \A b \in Artifacts : phase'[b] = phase[b]
      BY <1>f, <1>g, <2>2, Zenon
    <3> QED BY <1>e, <1>b, <3>1, Numbers, Zenon DEF DeviceInv, EntryIsInstalled, CleanNameIsCommitted,
       Flagged
  <2> QED BY <2>1, <2>2, Zenon
<1>3. InstallInv'
  BY <1>a, <1>d, Zenon DEF InstallInv
<1>4. CommitInv'
  BY ZenonT(60), <1>a, <1>d, <1>f, <1>g, <1>h DEF CommitInv
<1>5. RollbackInv'
  BY <1>a, <1>d, <1>e, <1>f, <1>g, <1>b, Numbers, Zenon DEF RollbackInv
<1>6. EndInv'
  BY <1>a, <1>d, <1>f, <1>g, <1>b, Zenon DEF EndInv, SuccessIsReal, Idle
<1> QED BY <1>1, <1>2, <1>3, <1>4, <1>5, <1>6, Zenon

\* One transaction removes the entry and writes the name.
LEMMA DatabaseIsWritten ==
    ASSUME StandaloneInv, Succeeds("database"), entry' = 0, Return(run.err),
           run.name = "old" => dbName' = dbName,
           run.name = "broken" => dbName' = [art |-> run.named, broken |-> TRUE],
           run.name = "clean" => dbName' = [art |-> run.named, broken |-> FALSE],
           UNCHANGED <<phase, artifact, lost, crashes>>
    PROVE  StandaloneInv'
<1> USE DEF StandaloneInv, Moves, Downloading, Installing, Installed, Committing, RollingBack,
   Closing
<1>a. run.pc = "database" /\ run.art \in Artifacts
  BY Zenon DEF Succeeds, InstallInv
<1>b. run.named \in 0 .. MaxInstalls /\ run.name \in {"clean", "broken", "old"} /\ run.err \in BOOLEAN
  BY <1>a, Zenon DEF StandaloneTypeOK, CommitInv
<1>c. Returns(run.err)
  BY <1>b, ReturnReturns, Zenon
<1>1. StandaloneTypeOK'
  <2>1. dbName' \in [art : 0 .. MaxInstalls, broken : BOOLEAN]
    <3>1. CASE run.name = "old"
      BY <3>1, Zenon DEF StandaloneTypeOK
    <3>2. CASE run.name = "broken"
      BY <1>b, <3>2, NameTyped, Zenon
    <3>3. CASE run.name = "clean"
      BY <1>b, <3>3, NameTyped, Zenon
    <3> QED BY <1>b, <3>1, <3>2, <3>3, Zenon
  <2>2. 0 \in 0 .. MaxInstalls
    BY StandaloneAssumption
  <2> QED BY <1>c, <2>1, <2>2, Zenon DEF StandaloneTypeOK, Returns, Runs, Lasts
<1>2. DeviceInv'
  <2>1. CleanNameIsCommitted'
    <3>1. CASE run.name = "old"
      BY <3>1, Zenon DEF DeviceInv, CleanNameIsCommitted
    <3>2. CASE run.name = "broken"
      BY <3>2 DEF CleanNameIsCommitted
    <3>3. CASE run.name = "clean"
      BY <1>a, <3>3 DEF CleanNameIsCommitted, CommitInv
    <3> QED BY <1>b, <3>1, <3>2, <3>3, Zenon
  <2> QED BY <2>1, Zenon DEF DeviceInv, EntryIsInstalled, Flagged, Artifacts
<1>3. InstallInv'
  BY <1>a, <1>b, <1>c, Zenon DEF Returns, InstallInv, NoneFlagged, Flagged, Artifacts
<1>4. CommitInv'
  BY <1>a, <1>b, <1>c, Zenon DEF Returns, CommitInv, InstallInv
<1>5. RollbackInv'
  BY <1>a, <1>b, <1>c, Zenon DEF Returns, RollbackInv, CommitInv, InstallInv
<1>6. EndInv'
  <2>1. ~last'.ok => EndInv'
    BY <1>c, Zenon DEF Returns, EndInv, SuccessIsReal
  <2>2. ASSUME last'.ok PROVE ~run.err
    BY <1>b, <1>c, <2>2, Zenon DEF Returns
  <2>3. CASE ~run.err
    <3>1. last'.cmd = run.cmd /\ last'.art = run.art
      BY <1>c, Zenon DEF Returns
    <3>2. CASE run.cmd = "rollback"
      BY <1>a, <1>c, <2>3, <3>1, <3>2, Zenon DEF Returns, EndInv, RollbackInv, SuccessIsReal
    <3>3. CASE run.cmd \in {"install", "commit"}
      BY <1>a, <1>c, <2>3, <3>1, <3>3, Zenon DEF Returns, EndInv, SuccessIsReal
    <3> QED BY <1>a, <2>3, <3>2, <3>3, Zenon DEF EndInv
  <2> QED BY <2>1, <2>2, <2>3, Zenon
<1> QED BY <1>1, <1>2, <1>3, <1>4, <1>5, <1>6, Zenon

\* The device boots, after a reboot or a power cut.
LEMMA DeviceBoots ==
    ASSUME StandaloneInv, Boots, run' \in Runs, run'.pc = "idle", run'.mode = "none"
           \/ run'.err, lost' \in BOOLEAN, crashes' \in 0 .. MaxCrashes,
           \/ run.pc = "idle" /\ UNCHANGED <<last, lost>>
           \/ lost' = TRUE /\ last' = NoLast,
           UNCHANGED <<entry, dbName, artifact>>
    PROVE  StandaloneInv'
<1> USE DEF StandaloneInv, Moves, Downloading, Installing, Installed, Committing, RollingBack,
   Closing
<1>a. UNCHANGED <<entry, dbName, artifact>>
  OBVIOUS
<1>b. phase \in [Artifacts -> Phases] /\ entry \in 0 .. MaxInstalls /\ dbName.art \in 0 .. MaxInstalls
  BY Zenon DEF StandaloneTypeOK, Phases
<1>c. /\ phase' \in [Artifacts -> Phases]
      /\ \A b \in Artifacts : phase'[b] # phase[b] =>
           \/ phase[b] = "installed" /\ phase'[b] = "booted"
           \/ phase[b] = "booted" /\ phase'[b] = "rolled back"
  BY <1>b, Zenon DEF Boots, BootPhase, Flagged, Phases
<1>d. run' \in Runs /\ run'.pc = "idle" /\ (run'.mode = "none" \/ run'.err)
  OBVIOUS
<1>e. last' \in Lasts
  BY StandaloneAssumption, LastTyped, Zenon
<1>1. StandaloneTypeOK'
  BY ZenonT(60), <1>a, <1>c, <1>d, <1>e DEF StandaloneTypeOK, Runs, Lasts, Phases
<1>2. DeviceInv'
  <2>1. (\A b, c \in Artifacts : Flagged(b) /\ Flagged(c) => b = c)'
    BY <1>a, <1>c, Zenon DEF DeviceInv, Flagged, Artifacts
  <2>2. EntryIsInstalled'
    BY <1>a, <1>b, <1>c, Numbers, Zenon DEF DeviceInv, EntryIsInstalled
  <2>3. CleanNameIsCommitted'
    BY <1>a, <1>b, <1>c, Numbers, Zenon DEF DeviceInv, CleanNameIsCommitted
  <2> QED BY <2>1, <2>2, <2>3, Zenon DEF DeviceInv
<1>3. InstallInv'
  BY <1>d, Zenon DEF InstallInv
<1>4. CommitInv'
  BY <1>d, Zenon DEF CommitInv
<1>5. RollbackInv'
  BY <1>a, <1>b, <1>c, <1>d, Numbers, Zenon DEF RollbackInv
<1>6. EndInv'
  <2>1. CASE run.pc = "idle" /\ UNCHANGED <<last, lost>>
    <3>1. last.ok => /\ last.art \in Artifacts
                     /\ phase[last.art] = "committed" => phase'[last.art] = "committed"
                     /\ phase[last.art] = "rolled back" => phase'[last.art] = "rolled back"
      BY <1>c, Zenon DEF EndInv
    <3>2. ~last.ok \/ last.cmd \in {"install", "commit", "rollback"}
      BY Zenon DEF EndInv, StandaloneTypeOK
    <3>3. CASE ~last.ok
      BY <1>d, <2>1, <3>3, Zenon DEF EndInv, SuccessIsReal
    <3>4. CASE last.ok /\ last.cmd = "install"
      BY <1>a, <1>d, <2>1, <3>1, <3>4, Zenon DEF EndInv, SuccessIsReal, Idle
    <3>5. CASE last.ok /\ last.cmd = "commit"
      BY <1>a, <1>d, <2>1, <3>1, <3>5, Zenon DEF EndInv, SuccessIsReal, Idle
    <3>6. CASE last.ok /\ last.cmd = "rollback"
      BY <1>a, <1>d, <2>1, <3>1, <3>6, Zenon DEF EndInv, SuccessIsReal, Idle
    <3> QED BY <3>2, <3>3, <3>4, <3>5, <3>6, Zenon
  <2>2. CASE lost' = TRUE /\ last' = NoLast
    BY <1>d, <2>2, Zenon DEF EndInv, SuccessIsReal, NoLast
  <2> QED BY <2>1, <2>2, Zenon
<1> QED BY <1>1, <1>2, <1>3, <1>4, <1>5, <1>6, Zenon

------------------------------------------------------------------------------
(* The invariant holds, and what follows from it.                          *)

\* Before the first command.
LEMMA StandaloneInitInv == StandaloneInit => StandaloneInv
<1> SUFFICES ASSUME StandaloneInit PROVE StandaloneInv
  OBVIOUS
<1>1. run = NoRun /\ run.pc = "idle" /\ run.mode = "none" /\ entry = 0 /\ ~last.ok
  BY Zenon DEF StandaloneInit, NoRun, NoLast
<1>2. StandaloneTypeOK
  <2>1. run \in Runs
    BY StandaloneAssumption DEF StandaloneInit, NoRun, Runs
  <2>2. /\ entry \in 0 .. MaxInstalls /\ lost \in BOOLEAN /\ crashes \in 0 .. MaxCrashes
    <3>1. entry = 0 /\ lost = FALSE /\ crashes = 0
      BY Zenon DEF StandaloneInit
    <3>2. 0 \in 0 .. MaxInstalls /\ 0 \in 0 .. MaxCrashes
      BY StandaloneAssumption
    <3>3. lost \in BOOLEAN
      BY <3>1, Zenon
    <3> QED BY <3>1, <3>2, <3>3, Zenon
  <2>5. dbName \in [art : 0 .. MaxInstalls, broken : BOOLEAN]
    BY <2>2, NameTyped, Zenon DEF StandaloneInit
  <2>6. last \in Lasts
    <3>1. last = [cmd |-> "none", art |-> 0, ok |-> FALSE, flag |-> FALSE, late |-> FALSE]
          /\ 0 \in 0 .. MaxInstalls
      BY <2>2, Zenon DEF StandaloneInit, NoLast
    <3> QED BY <3>1, Zenon DEF Lasts
  <2>3. phase \in [Artifacts -> Phases]
    BY Zenon DEF StandaloneInit, Phases
  <2>4. artifact \in [Artifacts -> [kind : {"rootfs", "module"}, rollback : BOOLEAN]]
    <3> DEFINE All == [kind : {"rootfs", "module"}, rollback : BOOLEAN]
               Some == {[kind |-> "rootfs", rollback |-> TRUE],
                        [kind |-> "module", rollback |-> TRUE],
                        [kind |-> "module", rollback |-> FALSE]}
    <3>1. Some \subseteq All
      OBVIOUS
    <3>2. artifact \in [Artifacts -> Some]
      BY Zenon DEF StandaloneInit
    <3> HIDE DEF All, Some
    <3>3. artifact \in [Artifacts -> All]
      BY <3>1, <3>2, Zenon
    <3> QED BY <3>3, Zenon DEF All
  <2> QED BY <2>1, <2>2, <2>3, <2>4, <2>5, <2>6, Zenon DEF StandaloneTypeOK, Runs, Lasts, Phases
<1>3. DeviceInv
  BY Zenon DEF StandaloneInit, DeviceInv, EntryIsInstalled, CleanNameIsCommitted, Flagged
<1>4. InstallInv /\ CommitInv /\ RollbackInv /\ EndInv
  BY <1>1, Zenon DEF InstallInv, CommitInv, RollbackInv, EndInv, SuccessIsReal, Downloading,
     Installing,
     Installed, Committing, RollingBack, Closing
<1> QED BY <1>2, <1>3, <1>4, Zenon DEF StandaloneInv

\* The steps of an install.
LEMMA InstallStepInv ==
    ASSUME StandaloneInv,
           \/ DoStandaloneInstall \/ DownloadEnter \/ ReadHeaders \/ VerifyDepends
           \/ StorePayloads
           \/ DownloadLeave \/ DetermineRollbackSupport \/ InstallScripts \/ InstallUpdate
           \/ StoreStandaloneData
    PROVE  StandaloneInv'
<1>0. run.pc \in {"ReadHeaders", "Download Leave", "Install Enter", "Install Leave", "NeedsReboot"}
        => run.cmd = "install"
  BY Zenon DEF StandaloneInv, InstallInv, Downloading, Installing, Installed
<1>1. CASE DownloadEnter
  BY <1>1, DownloadGoesOn, ReturnErrInv, Zenon DEF DownloadEnter, Succeeds, Fails
<1>2. CASE ReadHeaders
  BY <1>0, <1>2, DownloadGoesOn, QuietInv, Zenon DEF ReadHeaders, Succeeds, Fails
<1>3. CASE VerifyDepends
  BY <1>3, DownloadGoesOn, ReturnErrInv, Zenon DEF VerifyDepends, Succeeds, Fails
<1>4. CASE DownloadLeave
  BY <1>0, <1>4, InstallGoesOn, QuietInv, Zenon DEF DownloadLeave, Succeeds, Fails
<1>5. CASE DetermineRollbackSupport
  BY <1>5, InstallGoesOn, QuietInv, Zenon DEF DetermineRollbackSupport, Succeeds, Fails
<1>6. CASE InstallScripts
  BY <1>0, <1>6, InstallGoesOn, FullyInv, Zenon DEF InstallScripts, Succeeds, Fails
<1>7. CASE StoreStandaloneData
  BY <1>7, EntryIsStored, EntryIsLost, Zenon DEF StoreStandaloneData, Fails
<1> QED BY <1>1, <1>2, <1>3, <1>4, <1>5, <1>6, <1>7, InstallBegins, PayloadsAreStored,
   UpdateIsInstalled, Zenon

\* The steps of a commit.
LEMMA CommitStepInv ==
    ASSUME StandaloneInv,
           \/ DoStandaloneCommit \/ DoStandaloneRollback \/ RestoreStandaloneData
           \/ CommitEnter \/ CommitUpdate \/ CommitLeave
    PROVE  StandaloneInv'
<1>1. CASE DoStandaloneCommit \/ DoStandaloneRollback
  BY <1>1, CommandBegins, Zenon DEF DoStandaloneCommit, DoStandaloneRollback
<1>2. CASE RestoreStandaloneData
  <2>1. CASE Return(TRUE) /\ run.pc = "restore" /\ Nothing
    BY <2>1, ReturnErrInv, Zenon
  <2>2. ASSUME NEW a \in Artifacts, NEW n \in 0 .. MaxInstalls, run.pc = "restore",
               IF entry # 0 THEN a = entry /\ n = entry ELSE Flagged(a) /\ Mounted(n),
               run' = [run EXCEPT !.art = a, !.named = n, !.name = "clean",
                                  !.flag = (entry = 0), !.late = (phase[a] = "committed"),
                                  !.pc = IF run.cmd = "rollback" THEN "SupportsRollback"
                                         ELSE "Commit Enter"],
               lost' = (lost \/ entry = 0),
               UNCHANGED <<entry, dbName, phase, artifact, last, crashes>>
        PROVE  StandaloneInv'
    <3>1. lost \in BOOLEAN
      BY Zenon DEF StandaloneInv, StandaloneTypeOK
    <3>2. lost' \in {TRUE, FALSE} /\ (lost => lost') /\ (entry = 0 => lost')
      BY <2>2, <3>1, Zenon
    <3>3. lost' \in BOOLEAN
      BY <3>2, Zenon
    <3> DEFINE f == entry = 0
               l == phase[a] = "committed"
    <3>4. f \in BOOLEAN /\ l \in BOOLEAN
      BY Zenon
    <3>5. run' = [run EXCEPT !.art = a, !.named = n, !.name = "clean", !.flag = f, !.late = l,
                             !.pc = IF run.cmd = "rollback" THEN "SupportsRollback"
                                    ELSE "Commit Enter"]
      BY <2>2, Zenon
    <3>6. (f <=> entry = 0) /\ (l <=> phase[a] = "committed")
      BY Zenon
    <3> HIDE DEF f, l
    <3> QED BY <2>2, <3>2, <3>3, <3>4, <3>5, <3>6, EntryIsRestored, Zenon DEF Succeeds
  <2> QED BY <1>2, <2>1, <2>2, Zenon DEF RestoreStandaloneData, Succeeds, Fails, Nothing
<1>3. CASE CommitEnter
  BY <1>3, CommitGoesOn, FullyInv, Zenon DEF CommitEnter, Succeeds, Fails
<1>4. CASE CommitUpdate
  BY <1>4, UpdateIsCommitted, FullyInv, Zenon DEF CommitUpdate, Succeeds, Fails
<1>5. CASE CommitLeave
  BY <1>5, CommitGoesOn, CommitLeaveFails, Zenon DEF CommitLeave, Succeeds, Fails
<1> QED BY <1>1, <1>2, <1>3, <1>4, <1>5, Zenon

\* The steps of a rollback, whoever asked for it, and of the failure states.
LEMMA RollbackStepInv ==
    ASSUME StandaloneInv,
           AskRollbackSupport \/ RollbackScripts \/ Rollback \/ RollbackLeave \/ Failure
    PROVE  StandaloneInv'
<1>1. CASE AskRollbackSupport
  <2>1. CASE run.pc = "SupportsRollback"
    BY <1>1, <2>1, RollbackGoesOn, ReturnErrInv, Zenon DEF AskRollbackSupport, Succeeds, Fails
  <2>2. CASE run.pc = "support again"
    <3>1. run.art \in Artifacts /\ run.firstErr \in BOOLEAN /\ StandaloneTypeOK
      BY <2>2, Zenon DEF StandaloneInv, StandaloneTypeOK, InstallInv
    <3>2. artifact[run.art].rollback \in BOOLEAN
      BY <3>1, Zenon DEF StandaloneTypeOK
    <3>3. Nothing /\ UNCHANGED last
          /\ \/ run' = [run EXCEPT !.support = artifact[run.art].rollback,
                                   !.pc = IF artifact[run.art].rollback THEN "Rollback Enter"
                                          ELSE "Failure"]
             \/ run' = [run EXCEPT !.firstErr = TRUE, !.pc = "Failure"]
      BY <1>1, <2>2, Zenon DEF AskRollbackSupport, Succeeds, Fails
    <3>4. \E pc \in {"Rollback Enter", "Failure"}, f \in BOOLEAN :
             Moves(pc, run.name, run.mode, f, run.err)
      <4>1. CASE run' = [run EXCEPT !.firstErr = TRUE, !.pc = "Failure"]
        <5>1. Moves("Failure", run.name, run.mode, TRUE, run.err)
          BY <3>1, <3>3, <4>1, Zenon DEF StandaloneTypeOK, Moves, Runs, Calls, FailureCalls
        <5> QED BY <5>1, Zenon
      <4>2. ASSUME NEW pc \in {"Rollback Enter", "Failure"}, NEW s \in BOOLEAN,
                   run' = [run EXCEPT !.support = s, !.pc = pc]
            PROVE  Moves(pc, run.name, run.mode, run.firstErr, run.err)
        BY <3>1, <3>3, <4>2, Zenon DEF StandaloneTypeOK, Moves, Runs, Calls, FailureCalls
      <4> QED BY <3>1, <3>2, <3>3, <4>1, <4>2, Zenon
    <3> QED BY <2>2, <3>3, <3>4, SupportIsKnown, Zenon
  <2> QED BY <1>1, <2>1, <2>2, Zenon DEF AskRollbackSupport, Succeeds, Fails
<1>2. CASE RollbackScripts
  BY <1>2, RollbackGoesOn, RollbackGoesWrong, Zenon DEF RollbackScripts, Succeeds, Fails
<1>3. CASE Rollback
  BY <1>3, UpdateIsRolledBack, RollbackGoesWrong, Zenon DEF Rollback, Succeeds, Fails
<1>4. CASE RollbackLeave
  <2>1. run.firstErr \in BOOLEAN
    BY Zenon DEF StandaloneInv, StandaloneTypeOK
  <2> QED BY <1>4, <2>1, RollbackIsLeft, Zenon DEF RollbackLeave, Succeeds, Fails
<1>5. CASE Failure
  BY <1>5, FailureIsLeft, Zenon DEF Failure, NameAfterFailure, Succeeds, Fails
<1> QED BY <1>1, <1>2, <1>3, <1>4, <1>5, Zenon

\* The invariant is kept by every step.
LEMMA StandaloneNextInv ==
    StandaloneInv /\ [StandaloneNext]_standaloneVars => StandaloneInv'
<1> SUFFICES ASSUME StandaloneInv, [StandaloneNext]_standaloneVars PROVE StandaloneInv'
  OBVIOUS
<1>1. CASE WriteDatabase
  <2>1. CASE /\ Succeeds("database") /\ entry' = 0 /\ Return(run.err) /\ UNCHANGED lost
             /\ dbName' = IF run.name = "old" THEN dbName
                          ELSE [art |-> run.named, broken |-> run.name = "broken"]
    <3>1. UNCHANGED <<phase, artifact, lost, crashes>>
      BY <1>1, <2>1, Zenon DEF WriteDatabase
    <3>2. CASE run.name = "old"
      BY <2>1, <3>1, <3>2, DatabaseIsWritten, Zenon
    <3>3. CASE run.name = "broken"
      <4>1. (run.name = "broken") = TRUE
        BY <3>3, Zenon
      <4> QED BY <2>1, <3>1, <3>3, <4>1, DatabaseIsWritten, Zenon
    <3>4. CASE run.name \notin {"old", "broken"}
      <4>1. (run.name = "broken") = FALSE
        BY <3>4, Zenon
      <4> QED BY <2>1, <3>1, <3>4, <4>1, DatabaseIsWritten, Zenon
    <3> QED BY <3>2, <3>3, <3>4, Zenon
  <2>2. CASE Fails("database") /\ Return(TRUE) /\ lost' = TRUE /\ UNCHANGED <<entry, dbName>>
    BY <1>1, <2>2, EntryIsLost, Zenon DEF WriteDatabase, Fails
  <2> QED BY <1>1, <2>1, <2>2, Zenon DEF WriteDatabase
<1>2. CASE RebootDevice
  <2>1. /\ run \in Runs /\ lost \in BOOLEAN /\ crashes \in 0 .. MaxCrashes
        /\ run.mode = "none" \/ run.err
    BY Zenon DEF StandaloneInv, StandaloneTypeOK, EndInv, Runs
  <2>2. Boots /\ run.pc = "idle" /\ UNCHANGED <<run, entry, dbName, artifact, last, lost, crashes>>
    BY <1>2, Zenon DEF RebootDevice
  <2> QED BY <2>1, <2>2, DeviceBoots, Zenon
<1>3. CASE PowerCut
  <2>1. crashes' \in 0 .. MaxCrashes
    <3>1. crashes \in 0 .. MaxCrashes
      BY Zenon DEF StandaloneInv, StandaloneTypeOK
    <3>2. crashes < MaxCrashes /\ crashes' = crashes + 1
      BY <1>3, Zenon DEF PowerCut
    <3> QED BY <3>1, <3>2, StandaloneAssumption
  <2>2. run' \in Runs /\ run'.pc = "idle" /\ run'.mode = "none"
    BY <1>3, StandaloneAssumption DEF PowerCut, NoRun, Runs
  <2>3. /\ Boots /\ lost' = TRUE /\ last' = NoLast
        /\ UNCHANGED <<entry, dbName, artifact>>
    BY <1>3, Zenon DEF PowerCut
  <2> QED BY <2>1, <2>2, <2>3, DeviceBoots, Zenon
<1>4. CASE UNCHANGED standaloneVars
  <2>1. Nothing /\ UNCHANGED <<run, last>>
    BY <1>4, Zenon DEF standaloneVars, Nothing
  <2>2. StandaloneTypeOK'
    <3>1. run \in Runs /\ lost \in BOOLEAN
      BY Zenon DEF StandaloneInv, StandaloneTypeOK, Runs
    <3> QED BY <2>1, <3>1, TypesKept, Zenon DEF StandaloneInv, Nothing
  <2>3. DeviceInv'
    BY <2>1, NothingDevice, Zenon DEF StandaloneInv
  <2>4. InstallInv'
    BY <2>1, NothingFlagged, Zenon DEF StandaloneInv, InstallInv, Nothing, Artifacts
  <2>5. CommitInv' /\ RollbackInv'
    BY ZenonT(60), <2>1 DEF StandaloneInv, CommitInv, RollbackInv, Nothing
  <2>6. EndInv'
    BY <2>1, Zenon DEF StandaloneInv, EndInv, SuccessIsReal, Idle, Nothing, Artifacts
  <2> QED BY <2>2, <2>3, <2>4, <2>5, <2>6, Zenon DEF StandaloneInv
<1> QED BY <1>1, <1>2, <1>3, <1>4, InstallStepInv, CommitStepInv, RollbackStepInv,
   PayloadIsCleaned, Zenon
        DEF StandaloneNext

\* The invariant holds in every state.
LEMMA StandaloneSpecInv == StandaloneSpec => []StandaloneInv
BY StandaloneInitInv, StandaloneNextInv, PTL DEF StandaloneSpec

\* doStandaloneCleanup writes a name without the suffix for broken artifacts
\* only for an artifact whose payload was committed.
THEOREM CleanNameHolds == StandaloneSpec => []CleanNameIsCommitted
<1>1. StandaloneInv => CleanNameIsCommitted
  BY Zenon DEF StandaloneInv, DeviceInv
<1> QED BY <1>1, StandaloneSpecInv, PTL

\* storeStandaloneData leaves an entry only for an artifact that is installed.
THEOREM EntryHolds == StandaloneSpec => []EntryIsInstalled
<1>1. StandaloneInv => EntryIsInstalled
  BY Zenon DEF StandaloneInv, DeviceInv
<1> QED BY <1>1, StandaloneSpecInv, PTL

\* A command of app/standalone.go that returns success has done what it says;
\* the two exceptions are a commit by the boot loader's flag, of which only
\* the name is left open, and a rollback that comes too late, which is one
\* that found the payload committed after a power cut or a database error.
THEOREM SuccessHolds == StandaloneSpec => []SuccessIsReal
<1>1. StandaloneInv => SuccessIsReal
  BY Zenon DEF StandaloneInv, EndInv
<1> QED BY <1>1, StandaloneSpecInv, PTL

------------------------------------------------------------------------------
(* What the database says between two commands.                            *)

\* A command has its artifact.
Working == run.pc \notin {"idle", "restore"} \/ (run.pc = "restore" /\ run.cmd = "install")

\* What is left of an artifact that was not installed, or not for long.
Undone == {"read", "stored", "cleaned", "rolled back"}

\* What DatabaseTellsTruth says of the artifact installed last.
Told(a) ==
    CASE phase[a] = "committed" -> dbName.art = a
      [] phase[a] \in {"partial", "installed", "booted"} -> dbName = [art |-> a, broken |-> TRUE]
      [] OTHER -> phase[a] # "stored" /\ (dbName.art # a \/ dbName.broken)

\* Artifacts are installed in their order; none is named before.
OrderInv ==
    /\ \A a, b \in Artifacts : a < b /\ phase[a] = "absent" => phase[b] = "absent"
    /\ dbName.art # 0 => phase[dbName.art] # "absent"
    /\ run.named # 0 => phase[run.named] # "absent"

\* A command, and the entry between two, is about the artifact installed last;
\* the database does not name it yet, and it is not committed before its time.
CurrentInv ==
    /\ entry # 0 => Latest(entry) /\ dbName.art # entry
    /\ Working => Latest(run.art) /\ run.named = run.art /\ dbName.art # run.art
    /\ Working /\ run.pc \notin {"Commit Leave"} \union Closing => phase[run.art] # "committed"
    /\ ~Working /\ entry = 0 => \A a \in Artifacts : Latest(a) => Told(a)

\* The old name is kept only if nothing of the artifact is left.
UndoneInv ==
    /\ run.pc = "Rollback Leave" /\ ~run.firstErr => phase[run.art] \in Undone
    /\ run.pc = "Failure" /\ ~run.firstErr /\ run.support =>
           phase[run.art] \in Undone \/ run.mode = "rollback"
    /\ run.pc \in Closing /\ run.name = "old" => phase[run.art] \in Undone
    /\ run.pc = "database" => phase[run.art] # "stored"

\* What is needed on top of StandaloneInv for DatabaseTellsTruth.
TruthInv == OrderInv /\ (~lost => CurrentInv /\ UndoneInv)

\* The types that the steps rely on.
LEMMA TruthTypes ==
    ASSUME StandaloneInv
    PROVE  /\ phase \in [Artifacts -> Phases] /\ entry \in 0 .. MaxInstalls
           /\ dbName \in [art : 0 .. MaxInstalls, broken : BOOLEAN] /\ dbName.art \in 0 .. MaxInstalls
           /\ run.named \in 0 .. MaxInstalls /\ run.art \in 0 .. MaxInstalls
           /\ Working => run.art \in Artifacts
BY Zenon DEF StandaloneInv, StandaloneTypeOK, Phases, InstallInv, Working

\* There is only one.
LEMMA OneLatest ==
    ASSUME NEW a \in Artifacts, NEW b \in Artifacts, Latest(a), Latest(b)
    PROVE  a = b
BY StandaloneAssumption DEF Latest, Artifacts

\* No artifact comes or goes.
LEMMA OrderKept ==
    ASSUME StandaloneInv, StandaloneInv', OrderInv,
           \A b \in Artifacts : phase'[b] = "absent" <=> phase[b] = "absent",
           dbName'.art \in {0, dbName.art, run.named}, run'.named \in {0, run.named}
    PROVE  OrderInv'
<1>1. (\A a, b \in Artifacts : a < b /\ phase[a] = "absent" => phase[b] = "absent")'
  BY Zenon DEF OrderInv, Artifacts
<1>2. /\ dbName.art \in 0 .. MaxInstalls /\ run.named \in 0 .. MaxInstalls
      /\ dbName'.art \in 0 .. MaxInstalls /\ run'.named \in 0 .. MaxInstalls
  BY Zenon DEF StandaloneInv, StandaloneTypeOK
<1>3. dbName'.art # 0 => phase'[dbName'.art] # "absent"
  BY <1>2, Numbers, Zenon DEF OrderInv
<1>4. run'.named # 0 => phase'[run'.named] # "absent"
  BY <1>2, Numbers, Zenon DEF OrderInv
<1> QED BY <1>1, <1>3, <1>4, Zenon DEF OrderInv

\* A command goes on with its artifact.
LEMMA TruthGoesOn ==
    ASSUME StandaloneInv, StandaloneInv', TruthInv, Working,
           run'.pc # "idle", run'.pc = "restore" => run.cmd = "install",
           run'.cmd = run.cmd, run'.art = run.art, run'.named = run.named,
           UNCHANGED <<dbName, lost>>, entry' \in {entry, run.art},
           \A b \in Artifacts : b # run.art => phase'[b] = phase[b],
           phase'[run.art] = "absent" <=> phase[run.art] = "absent",
           ~lost /\ run'.pc \notin {"Commit Leave"} \union Closing => phase'[run.art] # "committed",
           ~lost => UndoneInv'
    PROVE  TruthInv'
<1>1. \A b \in Artifacts : phase'[b] = "absent" <=> phase[b] = "absent"
  BY Zenon
<1>2. OrderInv'
  BY <1>1, OrderKept, Zenon DEF TruthInv
<1>3. Working'
  BY Zenon DEF Working
<1>4. ASSUME ~lost PROVE CurrentInv'
  <2>1. Latest(run.art) /\ run.named = run.art /\ dbName.art # run.art /\ run.art \in Artifacts
    BY <1>4, TruthTypes, Zenon DEF TruthInv, CurrentInv
  <2>2. entry # 0 => Latest(entry) /\ dbName.art # entry /\ entry \in Artifacts
    BY <1>4, TruthTypes, Numbers, Zenon DEF TruthInv, CurrentInv
  <2>3. Latest(run.art)' /\ (entry # 0 => Latest(entry))'
    BY <1>1, <2>1, <2>2, Zenon DEF Latest, Artifacts
  <2>4. (entry # 0 => dbName.art # entry)'
    BY <2>1, <2>2, Zenon
  <2>5. (run.named = run.art /\ dbName.art # run.art)'
    BY <2>1, Zenon
  <2>6. (run.pc \notin {"Commit Leave"} \union Closing => phase[run.art] # "committed")'
    BY <1>4, Zenon
  <2> QED BY <1>3, <2>3, <2>4, <2>5, <2>6, Zenon DEF CurrentInv
<1> QED BY <1>2, <1>4, Zenon DEF TruthInv

\* The same, with nothing done to the device or the database.
LEMMA TruthMoves ==
    ASSUME StandaloneInv, StandaloneInv', TruthInv, Working, Nothing,
           run'.pc # "idle", run'.pc = "restore" => run.cmd = "install",
           run'.cmd = run.cmd, run'.art = run.art, run'.named = run.named,
           run'.pc \notin {"Commit Leave"} \union Closing =>
               run.pc \notin {"Commit Leave"} \union Closing,
           ~lost => UndoneInv'
    PROVE  TruthInv'
<1>1. UNCHANGED <<entry, dbName, phase, lost>>
  BY Zenon DEF Nothing
<1>2. ~lost /\ run'.pc \notin {"Commit Leave"} \union Closing => phase'[run.art] # "committed"
  BY <1>1, Zenon DEF TruthInv, CurrentInv
<1> QED BY <1>1, <1>2, TruthGoesOn, Zenon

\* What follows a power cut, or an error of the database.
LEMMA TruthIsLost ==
    ASSUME StandaloneInv, StandaloneInv', TruthInv, lost', run'.named = 0, UNCHANGED dbName,
           \A b \in Artifacts : phase'[b] = "absent" <=> phase[b] = "absent"
    PROVE  TruthInv'
<1>1. OrderInv'
  BY OrderKept, Zenon DEF TruthInv
<1> QED BY <1>1, Zenon DEF TruthInv

\* An error before anything was installed, and one after that.
LEMMA FailureTruth ==
    ASSUME StandaloneInv, StandaloneInv', TruthInv, Nothing,
           \/ /\ FailQuietly /\ run.cmd = "install"
              /\ run.pc \in {"ReadHeaders", "StorePayloads", "Download Leave", "SupportsRollback"}
           \/ /\ FailFully
              /\ run.pc \in {"Install Enter", "InstallUpdate", "Install Leave", "NeedsReboot",
                             "Commit Enter", "CommitUpdate"}
    PROVE  TruthInv'
<1> USE DEF Closing
<1>1. Working /\ UNCHANGED phase
  BY Zenon DEF Working, Nothing
<1>2. CASE FailQuietly /\ run.cmd = "install"
           /\ run.pc \in {"ReadHeaders", "StorePayloads", "Download Leave", "SupportsRollback"}
  <2>1. Moves("Cleanup", "old", "quiet", run.firstErr, TRUE)
    BY <1>2, QuietMoves, Zenon DEF StandaloneInv
  <2>2. phase[run.art] \in Undone
    BY <1>2, Zenon DEF StandaloneInv, InstallInv, Downloading, Installing, Undone
  <2>3. UndoneInv'
    BY <1>1, <2>1, <2>2, Zenon DEF Moves, UndoneInv
  <2> QED BY <1>1, <2>1, <2>3, TruthMoves, Zenon DEF Moves
<1>3. CASE FailFully /\ run.pc \in {"Install Enter", "InstallUpdate", "Install Leave", "NeedsReboot",
                                    "Commit Enter", "CommitUpdate"}
  <2>1. Moves("support again", run.name, "full", run.firstErr, TRUE)
    BY <1>3, FullyMoves, Zenon DEF StandaloneInv
  <2>2. UndoneInv'
    BY <2>1, Zenon DEF Moves, UndoneInv
  <2> QED BY <1>1, <1>3, <2>1, <2>2, TruthMoves, Zenon DEF Moves
<1> QED BY <1>2, <1>3, Zenon

\* The call that is next, after one that did nothing to the device.
LEMMA GotoTruth ==
    ASSUME StandaloneInv, StandaloneInv', TruthInv, Nothing, NEW pc \in Calls, Goto(pc),
           run.pc \notin {"idle", "restore"} \union Closing,
           pc \notin {"restore", "Rollback Leave", "Failure", "database"},
           pc = "Cleanup" <=> run.pc = "Commit Leave"
    PROVE  TruthInv'
<1> USE DEF Closing
<1>1. Moves(pc, run.name, run.mode, run.firstErr, run.err)
  BY GotoMoves, Zenon DEF StandaloneInv
<1>2. pc # "idle" /\ Working
  BY Zenon DEF Calls, DownloadCalls, InstallCalls, CommitCalls, FailureCalls, Working
<1>3. run.pc = "Commit Leave" => run.name = "clean"
  BY Zenon DEF StandaloneInv, CommitInv, Committing
<1>4. UndoneInv'
  BY <1>1, <1>3, Zenon DEF Moves, UndoneInv
<1> QED BY <1>1, <1>2, <1>4, TruthMoves, Zenon DEF Moves

\* The command returns with an error before it has done anything.
LEMMA ReturnErrTruth ==
    ASSUME StandaloneInv, StandaloneInv', TruthInv, Nothing, Return(TRUE),
           run.pc \in {"Download Enter", "Depends", "restore", "SupportsRollback"},
           run.pc = "SupportsRollback" => run.cmd = "rollback"
    PROVE  TruthInv'
<1>1. UNCHANGED <<entry, dbName, phase, lost>> /\ run'.pc = "idle" /\ run'.named = 0
  BY Zenon DEF Nothing, Return, NoRun
<1>2. OrderInv'
  BY <1>1, OrderKept, Zenon DEF TruthInv
<1>3. ASSUME ~lost PROVE CurrentInv'
  <2>1. entry # 0 => Latest(entry) /\ dbName.art # entry
    BY <1>3, Zenon DEF TruthInv, CurrentInv
  <2>2. ASSUME entry = 0, NEW a \in Artifacts, Latest(a) PROVE Told(a)
    <3>1. CASE run.pc \in {"Download Enter", "Depends"}
      <4>1. Working /\ phase[run.art] = "read" /\ run.art \in Artifacts
        BY <3>1, TruthTypes, Zenon DEF Working, StandaloneInv, InstallInv, Downloading
      <4>2. Latest(run.art) /\ dbName.art # run.art
        BY <1>3, <4>1, Zenon DEF TruthInv, CurrentInv
      <4> QED BY <2>2, <4>1, <4>2, OneLatest, Zenon DEF Told
    <3>2. CASE run.pc = "SupportsRollback"
      <4>1. entry = run.art /\ run.art \in Artifacts
        BY <1>3, <3>2, TruthTypes, Zenon DEF StandaloneInv, RollbackInv, Working
      <4> QED BY <2>2, <4>1, Numbers, Zenon
    <3>3. CASE run.pc = "restore" /\ run.cmd = "install"
      <4>1. entry = run.art /\ run.art \in Artifacts
        BY <3>3, TruthTypes, Zenon DEF StandaloneInv, InstallInv, Working
      <4> QED BY <2>2, <4>1, Numbers, Zenon
    <3>4. CASE run.pc = "restore" /\ run.cmd # "install"
      BY <1>3, <2>2, <3>4, Zenon DEF TruthInv, CurrentInv, Working
    <3> QED BY <3>1, <3>2, <3>3, <3>4, Zenon
  <2> QED BY <1>1, <2>1, <2>2, Zenon DEF CurrentInv, Working, Latest, Told
<1>4. UndoneInv'
  BY <1>1, Zenon DEF UndoneInv, Closing
<1> QED BY <1>1, <1>2, <1>3, <1>4, Zenon DEF TruthInv

\* The payload's phase changes, and the command goes on.
LEMMA PhaseTruth ==
    ASSUME StandaloneInv, StandaloneInv', TruthInv, Working, NEW p \in Phases,
           phase' = [phase EXCEPT ![run.art] = p], UNCHANGED <<entry, dbName, lost>>,
           run'.pc \notin {"idle", "restore"},
           run'.cmd = run.cmd, run'.art = run.art, run'.named = run.named,
           p = "absent" <=> phase[run.art] = "absent",
           ~lost /\ p = "committed" => run'.pc \in {"Commit Leave"} \union Closing,
           ~lost => UndoneInv'
    PROVE  TruthInv'
<1>1. phase \in [Artifacts -> Phases] /\ run.art \in Artifacts
  BY TruthTypes, Zenon
<1>2. phase'[run.art] = p /\ \A b \in Artifacts : b # run.art => phase'[b] = phase[b]
  BY <1>1, Zenon
<1> QED BY <1>2, TruthGoesOn, Zenon

\* An install begins with the artifact after the last one.
LEMMA InstallTruth ==
    ASSUME StandaloneInv, StandaloneInv', TruthInv, DoStandaloneInstall
    PROVE  TruthInv'
<1>1. PICK a \in Artifacts :
        /\ phase[a] = "absent" /\ \A b \in 1 .. a - 1 : phase[b] # "absent"
        /\ phase' = [phase EXCEPT ![a] = "read"]
        /\ run' = [NoRun EXCEPT !.cmd = "install", !.pc = "Download Enter", !.art = a,
                                !.named = a, !.name = "clean"]
  BY Zenon DEF DoStandaloneInstall
<1>2. entry = 0 /\ UNCHANGED <<entry, dbName, lost>>
  BY Zenon DEF DoStandaloneInstall
<1>3. run'.pc = "Download Enter" /\ run'.art = a /\ run'.named = a
  BY <1>1, Zenon DEF NoRun
<1>4. phase'[a] = "read" /\ \A b \in Artifacts : b # a => phase'[b] = phase[b]
  BY <1>1, TruthTypes, Zenon
<1>5. \A b \in Artifacts : b > a => phase[b] = "absent"
  BY <1>1, Zenon DEF TruthInv, OrderInv
<1>6. \A b \in Artifacts : b < a => phase[b] # "absent"
  BY <1>1, StandaloneAssumption DEF Artifacts
<1>7. dbName.art # a
  BY <1>1, TruthTypes, Numbers, Zenon DEF TruthInv, OrderInv
<1>8. OrderInv'
  <2>1. \A x, y \in Artifacts : x < y /\ phase'[x] = "absent" => phase'[y] = "absent"
    BY <1>1, <1>4, <1>5, <1>6, StandaloneAssumption DEF Artifacts
  <2>2. dbName'.art # 0 => phase'[dbName'.art] # "absent"
    BY <1>2, <1>4, <1>7, TruthTypes, Numbers, Zenon DEF TruthInv, OrderInv
  <2> QED BY <1>3, <1>4, <2>1, <2>2, Zenon DEF OrderInv, Artifacts
<1>9. Latest(run.art)'
  <2>1. \A b \in Artifacts : b > a => phase'[b] = "absent"
    <3>1. \A b \in Artifacts : b > a => b # a
      BY StandaloneAssumption DEF Artifacts
    <3> QED BY <1>4, <1>5, <3>1, Zenon
  <2>2. phase'[a] # "absent"
    BY <1>4, Zenon
  <2> QED BY <1>3, <2>1, <2>2, Zenon DEF Latest, Artifacts
<1>10. CurrentInv'
  BY <1>2, <1>3, <1>4, <1>7, <1>9, Zenon DEF CurrentInv, Working
<1>11. UndoneInv'
  BY <1>3, Zenon DEF UndoneInv, Closing
<1> QED BY <1>8, <1>10, <1>11, Zenon DEF TruthInv

\* The payloads are stored, installed or committed.
LEMMA PayloadTruth ==
    ASSUME StandaloneInv, StandaloneInv', TruthInv, StorePayloads \/ InstallUpdate \/ CommitUpdate
    PROVE  TruthInv'
<1> USE DEF Closing
<1>1. CASE StorePayloads
  <2>1. run.pc = "StorePayloads" /\ SetPhase("stored") /\ Working
    BY <1>1, Zenon DEF StorePayloads, Succeeds, Fails, Working
  <2>2. \/ Moves("Download Leave", run.name, run.mode, run.firstErr, run.err)
        \/ Moves("Cleanup", "old", "quiet", run.firstErr, TRUE)
    BY <1>1, GotoMoves, QuietMoves, Zenon DEF StandaloneInv, StorePayloads, Calls, DownloadCalls
  <2>3. phase[run.art] = "read" /\ run.art \in Artifacts /\ phase \in [Artifacts -> Phases]
    BY <2>1, TruthTypes, Zenon DEF StandaloneInv, InstallInv, Downloading
  <2>4. phase'[run'.art] = "stored"
    BY <2>1, <2>2, <2>3, Zenon DEF SetPhase, Moves
  <2>5. UndoneInv'
    BY <2>2, <2>4, Zenon DEF Moves, UndoneInv, Undone
  <2> QED BY <2>1, <2>2, <2>3, <2>5, PhaseTruth, Zenon DEF SetPhase, Moves, Phases
<1>2. CASE InstallUpdate
  <2>1. run.pc = "InstallUpdate" /\ Working
    BY <1>2, Zenon DEF InstallUpdate, Succeeds, Fails, Working
  <2>2. \/ SetPhase("installed") /\ Moves("Install Leave", run.name, run.mode, run.firstErr, run.err)
        \/ SetPhase("partial") /\ Moves("support again", run.name, "full", run.firstErr, TRUE)
        \/ Nothing /\ FailFully
    BY <1>2, GotoMoves, FullyMoves, Zenon DEF StandaloneInv, InstallUpdate, Calls, InstallCalls
  <2>3. phase[run.art] = "stored"
    BY <2>1, Zenon DEF StandaloneInv, InstallInv, Installing
  <2>4. CASE SetPhase("installed") /\ Moves("Install Leave", run.name, run.mode, run.firstErr, run.err)
    <3>1. UndoneInv'
      BY <2>4, Zenon DEF Moves, UndoneInv
    <3> QED BY <2>1, <2>3, <2>4, <3>1, PhaseTruth, Zenon DEF SetPhase, Moves, Phases
  <2>5. CASE SetPhase("partial") /\ Moves("support again", run.name, "full", run.firstErr, TRUE)
    <3>1. UndoneInv'
      BY <2>5, Zenon DEF Moves, UndoneInv
    <3> QED BY <2>1, <2>3, <2>5, <3>1, PhaseTruth, Zenon DEF SetPhase, Moves, Phases
  <2>6. CASE Nothing /\ FailFully
    BY <2>1, <2>6, FailureTruth, Zenon
  <2> QED BY <2>2, <2>4, <2>5, <2>6, Zenon
<1>3. CASE CommitUpdate
  <2>1. run.pc = "CommitUpdate" /\ Working
    BY <1>3, Zenon DEF CommitUpdate, Succeeds, Fails, Working
  <2>2. CASE Committable(run.art) /\ SetPhase("committed") /\ Goto("Commit Leave")
    <3>1. Moves("Commit Leave", run.name, run.mode, run.firstErr, run.err)
      BY <2>2, GotoMoves, Zenon DEF StandaloneInv, Calls, CommitCalls
    <3>2. phase[run.art] # "absent"
      BY <2>2, Zenon DEF Committable, Flagged
    <3>3. UndoneInv'
      BY <3>1, Zenon DEF Moves, UndoneInv
    <3> QED BY <2>1, <2>2, <3>1, <3>2, <3>3, PhaseTruth, Zenon DEF SetPhase, Moves, Phases
  <2>3. CASE Nothing /\ FailFully
    BY <2>1, <2>3, FailureTruth, Zenon
  <2> QED BY <1>3, <2>2, <2>3, Zenon DEF CommitUpdate
<1> QED BY <1>1, <1>2, <1>3, Zenon

\* The steps of a download and an installation.
LEMMA InstallStepTruth ==
    ASSUME StandaloneInv, StandaloneInv', TruthInv,
           DownloadEnter \/ ReadHeaders \/ VerifyDepends \/ DownloadLeave
             \/ DetermineRollbackSupport \/ InstallScripts \/ StoreStandaloneData
    PROVE  TruthInv'
<1> USE DEF Succeeds, Fails, Closing
<1>1. CASE DownloadEnter \/ ReadHeaders \/ VerifyDepends \/ DownloadLeave
  <2>1. Nothing /\ (run.pc = "ReadHeaders" \/ run.pc = "Download Leave" => run.cmd = "install")
    BY <1>1, Zenon DEF DownloadEnter, ReadHeaders, VerifyDepends, DownloadLeave, StandaloneInv, InstallInv,
       Downloading, Installing
  <2>2. \/ run.pc = "Download Enter" /\ (Goto("ReadHeaders") \/ Return(TRUE))
        \/ run.pc = "ReadHeaders" /\ (Goto("Depends") \/ FailQuietly)
        \/ run.pc = "Depends" /\ (Goto("StorePayloads") \/ Return(TRUE))
        \/ run.pc = "Download Leave" /\ (Goto("SupportsRollback") \/ FailQuietly)
    BY <1>1, Zenon DEF DownloadEnter, ReadHeaders, VerifyDepends, DownloadLeave
  <2>3. {"ReadHeaders", "Depends", "StorePayloads", "SupportsRollback"} \subseteq Calls
    BY Zenon DEF Calls, DownloadCalls, InstallCalls
  <2> QED BY <2>1, <2>2, <2>3, GotoTruth, ReturnErrTruth, FailureTruth, Zenon
<1>2. CASE DetermineRollbackSupport \/ InstallScripts
  <2>1. Nothing /\ (run.pc = "SupportsRollback" => run.cmd = "install")
    BY <1>2, Zenon DEF DetermineRollbackSupport, InstallScripts
  <2>2. \/ run.pc = "SupportsRollback" /\ (Goto("Install Enter") \/ FailQuietly)
        \/ run.pc = "Install Enter" /\ (Goto("InstallUpdate") \/ FailFully)
        \/ run.pc = "Install Leave" /\ (Goto("NeedsReboot") \/ FailFully)
        \/ run.pc = "NeedsReboot" /\ (Goto("store") \/ FailFully)
    BY <1>2, Zenon DEF DetermineRollbackSupport, InstallScripts
  <2>3. {"Install Enter", "InstallUpdate", "NeedsReboot", "store"} \subseteq Calls
    BY Zenon DEF Calls, InstallCalls
  <2> QED BY <2>1, <2>2, <2>3, GotoTruth, FailureTruth, Zenon
<1>3. CASE StoreStandaloneData
  <2>1. run.pc = "store" /\ Working /\ UNCHANGED <<dbName, phase>>
    BY <1>3, Zenon DEF StoreStandaloneData, Working
  <2>2. run.art \in Artifacts /\ run.cmd = "install" /\ phase[run.art] = "installed"
    BY <2>1, TruthTypes, Zenon DEF StandaloneInv, InstallInv, Installed
  <2>3. CASE entry' = run.art /\ UNCHANGED lost /\ Return(FALSE)
    <3>1. run'.pc = "idle" /\ run'.named = 0
      BY <2>3, Zenon DEF Return, NoRun
    <3>2. OrderInv'
      BY <2>1, <3>1, OrderKept, Zenon DEF TruthInv
    <3>3. ~lost => CurrentInv'
      BY <2>1, <2>2, <2>3, <3>1, Numbers, Zenon DEF TruthInv, CurrentInv, Working, Latest
    <3>4. UndoneInv'
      BY <3>1, Zenon DEF UndoneInv
    <3> QED BY <2>3, <3>2, <3>3, <3>4, Zenon DEF TruthInv
  <2>4. CASE entry' = run.art /\ UNCHANGED lost /\ Goto("restore")
    <3>1. Moves("restore", run.name, run.mode, run.firstErr, run.err)
      BY <2>4, GotoMoves, Zenon DEF StandaloneInv, Calls, CommitCalls
    <3>2. UndoneInv'
      BY <3>1, Zenon DEF Moves, UndoneInv
    <3>3. phase'[run.art] # "committed"
      BY <2>1, <2>2, Zenon
    <3> QED BY <2>1, <2>2, <2>4, <3>1, <3>2, <3>3, TruthGoesOn, Zenon DEF Moves
  <2>5. CASE lost' = TRUE /\ Return(TRUE)
    <3>1. run'.named = 0
      BY <2>5, Zenon DEF Return, NoRun
    <3> QED BY <2>1, <2>5, <3>1, TruthIsLost, Zenon
  <2> QED BY <1>3, <2>3, <2>4, <2>5, Zenon DEF StoreStandaloneData
<1> QED BY <1>1, <1>2, <1>3, Zenon

\* commit and rollback begin, and find the entry or the boot loader's flag.
LEMMA RestoreTruth ==
    ASSUME StandaloneInv, StandaloneInv', TruthInv,
           DoStandaloneCommit \/ DoStandaloneRollback \/ RestoreStandaloneData
    PROVE  TruthInv'
<1>1. UNCHANGED <<entry, dbName, phase>>
  BY Zenon DEF DoStandaloneCommit, DoStandaloneRollback, Begin, RestoreStandaloneData
<1>2. CASE DoStandaloneCommit \/ DoStandaloneRollback
  <2>1. /\ run.pc = "idle" /\ run'.pc = "restore" /\ run'.cmd # "install" /\ run'.named = 0
        /\ UNCHANGED lost
    BY <1>2, Zenon DEF DoStandaloneCommit, DoStandaloneRollback, Begin, NoRun
  <2>2. OrderInv'
    BY <1>1, <2>1, OrderKept, Zenon DEF TruthInv
  <2>3. ~lost => CurrentInv'
    BY <1>1, <2>1, Zenon DEF TruthInv, CurrentInv, Working, Latest, Told
  <2>4. UndoneInv'
    BY <2>1, Zenon DEF UndoneInv, Closing
  <2> QED BY <2>1, <2>2, <2>3, <2>4, Zenon DEF TruthInv
<1>3. ASSUME Succeeds("restore"), NEW a \in Artifacts, NEW n \in 0 .. MaxInstalls,
             IF entry # 0 THEN a = entry /\ n = entry ELSE Flagged(a) /\ Mounted(n),
             NEW f \in BOOLEAN, NEW l \in BOOLEAN,
             run' = [run EXCEPT !.art = a, !.named = n, !.name = "clean", !.flag = f, !.late = l,
                                !.pc = IF run.cmd = "rollback" THEN "SupportsRollback"
                                       ELSE "Commit Enter"],
             lost' = (lost \/ entry = 0)
      PROVE  TruthInv'
  <2>1. /\ run.pc = "restore" /\ run'.art = a /\ run'.named = n
        /\ run'.pc \in {"SupportsRollback", "Commit Enter"}
    <3>1. run.pc = "restore" /\ run \in Runs /\ a \in 0 .. MaxInstalls
      <4>1. run.pc = "restore" /\ run \in Runs
        BY <1>3, Zenon DEF Succeeds, StandaloneInv, StandaloneTypeOK, Runs
      <4> QED BY <1>3, <4>1, Numbers, Zenon
    <3>2. ASSUME NEW pc \in {"SupportsRollback", "Commit Enter"},
                 run' = [run EXCEPT !.art = a, !.named = n, !.name = "clean", !.flag = f,
                                    !.late = l, !.pc = pc]
          PROVE  run'.art = a /\ run'.named = n /\ run'.pc = pc
      <4>1. pc \in Calls
        BY Zenon DEF Calls, InstallCalls, CommitCalls
      <4> QED BY <1>3, <3>1, <3>2, <4>1, Zenon DEF Runs
    <3> QED BY <1>3, <3>1, <3>2, Zenon
  <2>2. n # 0 => phase[n] # "absent"
    <3>1. CASE entry # 0
      BY <1>3, <3>1, Zenon DEF StandaloneInv, DeviceInv, EntryIsInstalled
    <3>2. CASE entry = 0
      BY <1>3, <3>2, Zenon DEF Mounted
    <3> QED BY <3>1, <3>2, Zenon
  <2>3. OrderInv'
    BY <1>1, <2>1, <2>2, Zenon DEF TruthInv, OrderInv
  <2>4. ASSUME ~lost' PROVE CurrentInv'
    <3>1. entry # 0 /\ ~lost /\ a = entry /\ n = entry
      BY <1>3, <2>4, Zenon
    <3>2. phase[entry] # "committed"
      BY <2>1, <3>1, Zenon DEF StandaloneInv, RollbackInv, Closing
    <3>3. Latest(entry) /\ dbName.art # entry
      BY <3>1, Zenon DEF TruthInv, CurrentInv
    <3> QED BY <1>1, <2>1, <3>1, <3>2, <3>3, Zenon DEF CurrentInv, Working, Latest
  <2>5. UndoneInv'
    BY <2>1, Zenon DEF UndoneInv, Closing
  <2> QED BY <2>3, <2>4, <2>5, Zenon DEF TruthInv
<1>4. CASE run.pc = "restore" /\ Return(TRUE) /\ UNCHANGED lost /\ RestoreStandaloneData
  BY <1>1, <1>4, ReturnErrTruth, Zenon DEF Nothing, RestoreStandaloneData
<1>5. CASE RestoreStandaloneData
  <2>1. (entry = 0) \in BOOLEAN /\ \A a \in Artifacts : (phase[a] = "committed") \in BOOLEAN
    BY Zenon
  <2> QED BY <1>3, <1>4, <1>5, <2>1, ZenonT(40) DEF RestoreStandaloneData, Succeeds, Fails
<1> QED BY <1>2, <1>5, Zenon

\* The scripts around the commit.
LEMMA CommitStepTruth ==
    ASSUME StandaloneInv, StandaloneInv', TruthInv, CommitEnter \/ CommitLeave
    PROVE  TruthInv'
<1> USE DEF Succeeds, Fails, Closing
<1>1. Nothing
  BY Zenon DEF CommitEnter, CommitLeave
<1>2. CASE CommitEnter
  <2>1. run.pc = "Commit Enter" /\ (Goto("CommitUpdate") \/ FailFully) /\ "CommitUpdate" \in Calls
    BY <1>2, Zenon DEF CommitEnter, Calls, CommitCalls
  <2> QED BY <1>1, <2>1, GotoTruth, FailureTruth, Zenon
<1>3. CASE CommitLeave
  <2>1. CASE run.pc = "Commit Leave" /\ Goto("Cleanup")
    <3>1. "Cleanup" \in Calls
      BY Zenon DEF Calls
    <3> QED BY <1>1, <2>1, <3>1, GotoTruth, Zenon
  <2>2. CASE run.pc = "Commit Leave" /\ run' = [run EXCEPT !.pc = "Cleanup", !.name = "broken", !.err = TRUE]
    <3>1. /\ run'.pc = "Cleanup" /\ run'.name = "broken" /\ run'.cmd = run.cmd /\ run'.art = run.art
          /\ run'.named = run.named
      <4>1. run \in Runs
        BY Zenon DEF StandaloneInv, StandaloneTypeOK, Runs
      <4> QED BY <2>2, <4>1, Zenon DEF Runs
    <3>2. UndoneInv'
      BY <3>1, Zenon DEF UndoneInv
    <3>3. Working
      BY <2>2, Zenon DEF Working
    <3> QED BY <1>1, <2>2, <3>1, <3>2, <3>3, TruthMoves, Zenon
  <2> QED BY <1>3, <2>1, <2>2, Zenon DEF CommitLeave
<1> QED BY <1>2, <1>3, Zenon

\* What a rollback leaves of an artifact that is not committed.
LEMMA RollbackUndoes ==
    ASSUME NEW a \in Artifacts, phase \in [Artifacts -> Phases],
           phase[a] \notin {"absent", "committed"}
    PROVE  RolledBack(a) \in Undone
BY Zenon DEF RolledBack, Undone, Phases

\* The question for rollback support, and the scripts before a rollback.
LEMMA RollbackBeginsTruth ==
    ASSUME StandaloneInv, StandaloneInv', TruthInv, AskRollbackSupport \/ RollbackScripts
    PROVE  TruthInv'
<1> USE DEF Succeeds, Fails, Closing
<1>1. Nothing /\ run \in Runs
  BY Zenon DEF AskRollbackSupport, RollbackScripts, StandaloneInv, StandaloneTypeOK, Runs
<1>2. CASE run.pc = "SupportsRollback" /\ run.cmd = "rollback" /\ (Goto("Rollback Enter") \/ Return(TRUE))
  <2>1. "Rollback Enter" \in Calls
    BY Zenon DEF Calls, FailureCalls
  <2> QED BY <1>1, <1>2, <2>1, GotoTruth, ReturnErrTruth, Zenon
<1>3. ASSUME run.pc = "support again", NEW s \in BOOLEAN,
             run' = [run EXCEPT !.support = s, !.pc = IF s THEN "Rollback Enter" ELSE "Failure"]
      PROVE  TruthInv'
  <2>1. /\ run'.pc = "Rollback Enter" \/ (run'.pc = "Failure" /\ ~run'.support)
        /\ run'.cmd = run.cmd /\ run'.art = run.art /\ run'.named = run.named
    <3>1. CASE s = TRUE
      BY <1>1, <1>3, <3>1, Zenon DEF Runs
    <3>2. CASE s = FALSE
      BY <1>1, <1>3, <3>2, Zenon DEF Runs
    <3> QED BY <1>3, <3>1, <3>2, Zenon
  <2>2. UndoneInv' /\ Working
    BY <1>3, <2>1, Zenon DEF UndoneInv, Working
  <2> QED BY <1>1, <1>3, <2>1, <2>2, TruthMoves, Zenon
<1>4. ASSUME run.pc \in {"support again", "Rollback Enter"}, NEW pc \in {"Failure", "Rollback"},
             run' = [run EXCEPT !.firstErr = TRUE, !.pc = pc]
      PROVE  TruthInv'
  <2>1. /\ run'.pc = pc /\ run'.cmd = run.cmd /\ run'.art = run.art
        /\ run'.named = run.named /\ run'.firstErr
    BY <1>1, <1>4, Zenon DEF Runs
  <2>2. UndoneInv' /\ Working
    BY <1>4, <2>1, Zenon DEF UndoneInv, Working
  <2> QED BY <1>1, <1>4, <2>1, <2>2, TruthMoves, Zenon
<1>5. CASE run.pc = "Rollback Enter" /\ Goto("Rollback")
  <2>1. "Rollback" \in Calls
    BY Zenon DEF Calls, FailureCalls
  <2> QED BY <1>1, <1>5, <2>1, GotoTruth, Zenon
<1>6. CASE AskRollbackSupport
  <2>1. CASE run.pc = "support again"
    <3>1. artifact[run.art].rollback \in BOOLEAN
      <4>1. run.art \in Artifacts
        BY <2>1, TruthTypes, Zenon DEF Working
      <4> QED BY <4>1, Zenon DEF StandaloneInv, StandaloneTypeOK
    <3> QED BY <1>3, <1>4, <1>6, <2>1, <3>1, Zenon DEF AskRollbackSupport
  <2> QED BY <1>2, <1>6, <2>1, Zenon DEF AskRollbackSupport
<1> QED BY <1>4, <1>5, <1>6, Zenon DEF RollbackScripts

\* The rollback itself, and what follows it.
LEMMA RollbackTruth ==
    ASSUME StandaloneInv, StandaloneInv', TruthInv, Rollback \/ RollbackLeave \/ Failure
    PROVE  TruthInv'
<1> USE DEF Succeeds, Fails, Closing
<1>1. /\ run \in Runs /\ run.pc \in {"Rollback", "Rollback Leave", "Failure"} /\ Working
      /\ run.art \in Artifacts /\ phase \in [Artifacts -> Phases]
  BY TruthTypes, Zenon DEF Rollback, RollbackLeave, Failure, StandaloneInv, StandaloneTypeOK, Runs, Working
<1>2. CASE run.pc = "Rollback" /\ SetPhase(RolledBack(run.art)) /\ Goto("Rollback Leave")
  <2>1. Moves("Rollback Leave", run.name, run.mode, run.firstErr, run.err)
    BY <1>2, GotoMoves, Zenon DEF StandaloneInv, Calls, FailureCalls
  <2>2. /\ RolledBack(run.art) \in Phases
        /\ RolledBack(run.art) = "absent" <=> phase[run.art] = "absent"
        /\ RolledBack(run.art) = "committed" => phase[run.art] = "committed"
    BY <1>1, Zenon DEF RolledBack, Phases
  <2>3. ~lost => phase[run.art] \notin {"absent", "committed"}
    BY <1>1, <1>2, Zenon DEF TruthInv, CurrentInv, Latest
  <2>4. ~lost => phase'[run'.art] \in Undone
    BY <1>1, <1>2, <2>1, <2>2, <2>3, RollbackUndoes, Zenon DEF Moves, SetPhase
  <2>5. ~lost => UndoneInv'
    BY <2>1, <2>4, Zenon DEF UndoneInv, Moves
  <2> QED BY <1>1, <1>2, <2>1, <2>2, <2>3, <2>5, PhaseTruth, Zenon DEF Moves, SetPhase
<1>3. CASE run.pc = "Rollback" /\ Nothing /\ run' = [run EXCEPT !.firstErr = TRUE, !.pc = "Rollback Leave"]
  <2>1. /\ run'.pc = "Rollback Leave" /\ run'.cmd = run.cmd /\ run'.art = run.art
        /\ run'.named = run.named /\ run'.firstErr
    BY <1>1, <1>3, Zenon DEF Runs
  <2>2. UndoneInv'
    BY <2>1, Zenon DEF UndoneInv
  <2> QED BY <1>1, <1>3, <2>1, <2>2, TruthMoves, Zenon
<1>4. ASSUME run.pc = "Rollback Leave", Nothing, NEW f \in BOOLEAN, run' = AfterRollback(f),
             run.firstErr => f
      PROVE  TruthInv'
  <2>1. /\ run'.cmd = run.cmd /\ run'.art = run.art /\ run'.named = run.named
        /\ \/ run'.pc = "Failure" /\ run'.firstErr = f
           \/ run'.pc = "Cleanup" /\ ~f
    <3>1. CASE run.mode = "full"
      BY <1>1, <1>4, <3>1, Zenon DEF AfterRollback, Runs
    <3>2. CASE run.mode # "full" /\ f
      BY <1>1, <1>4, <3>2, Zenon DEF AfterRollback, Runs
    <3>3. CASE run.mode # "full" /\ ~f
      BY <1>1, <1>4, <3>3, Zenon DEF AfterRollback, Runs
    <3> QED BY <3>1, <3>2, <3>3, Zenon
  <2>2. ~lost /\ ~f => phase'[run'.art] \in Undone
    BY <1>4, <2>1, Zenon DEF TruthInv, UndoneInv, Nothing
  <2>3. ~lost => UndoneInv'
    BY <2>1, <2>2, Zenon DEF UndoneInv
  <2> QED BY <1>1, <1>4, <2>1, <2>3, TruthMoves, Zenon
<1>5. ASSUME run.pc = "Failure", Nothing, NEW f \in BOOLEAN, run.firstErr => f,
             run' = [run EXCEPT !.pc = "Cleanup", !.name = NameAfterFailure(f)]
      PROVE  TruthInv'
  <2>1. /\ run'.cmd = run.cmd /\ run'.art = run.art /\ run'.named = run.named
        /\ run'.pc = "Cleanup" /\ run'.name = NameAfterFailure(f)
    BY <1>1, <1>5, Zenon DEF Runs
  <2>2. ~lost /\ run'.name = "old" => phase'[run'.art] \in Undone
    BY <1>5, <2>1 DEF TruthInv, UndoneInv, Nothing, NameAfterFailure
  <2>3. ~lost => UndoneInv'
    BY <2>1, <2>2, Zenon DEF UndoneInv
  <2> QED BY <1>1, <1>5, <2>1, <2>3, TruthMoves, Zenon
<1>6. run.firstErr \in BOOLEAN
  BY <1>1, Zenon DEF Runs
<1> QED BY <1>2, <1>3, <1>4, <1>5, <1>6, Zenon DEF Rollback, RollbackLeave, Failure

\* The payload is told to clean up.
LEMMA CleanupTruth ==
    ASSUME StandaloneInv, StandaloneInv', TruthInv, CleanupPayload
    PROVE  TruthInv'
<1> USE DEF Closing
<1> DEFINE p == IF phase[run.art] = "stored" THEN "cleaned" ELSE phase[run.art]
<1>1. /\ run.pc = "Cleanup" /\ Working /\ run.art \in Artifacts /\ phase \in [Artifacts -> Phases]
  BY TruthTypes, Zenon DEF CleanupPayload, Succeeds, Fails, Working
<1>2. /\ run'.pc = "database" /\ run'.cmd = run.cmd /\ run'.art = run.art /\ run'.named = run.named
      /\ run'.name = run.name
  BY DatabaseMoves, Zenon DEF StandaloneInv, CleanupPayload, Moves
<1>3. phase' = [phase EXCEPT ![run.art] = p] /\ UNCHANGED <<entry, dbName, lost>>
  BY Zenon DEF CleanupPayload
<1>4. /\ p \in Phases /\ (p = "absent" <=> phase[run.art] = "absent") /\ p # "stored"
      /\ phase[run.art] \in Undone => p \in Undone
  BY <1>1, Zenon DEF Phases, Undone
<1>5. ~lost => UndoneInv'
  <2>1. phase'[run'.art] = p
    BY <1>1, <1>2, <1>3, Zenon
  <2> HIDE DEF p
  <2> QED BY <1>1, <1>2, <1>4, <2>1, Zenon DEF TruthInv, UndoneInv
<1> HIDE DEF p
<1> QED BY <1>1, <1>2, <1>3, <1>4, <1>5, PhaseTruth, Zenon

\* The database is written, or cannot be.
LEMMA DatabaseTruth ==
    ASSUME StandaloneInv, StandaloneInv', TruthInv, WriteDatabase
    PROVE  TruthInv'
<1> USE DEF Closing
<1>1. /\ run.pc = "database" /\ Working /\ run.art \in Artifacts /\ phase \in [Artifacts -> Phases]
      /\ UNCHANGED phase /\ run'.pc = "idle" /\ run'.named = 0
  <2>1. run.pc = "database" /\ UNCHANGED phase /\ run' = NoRun
    BY Zenon DEF WriteDatabase, Succeeds, Fails, Return
  <2>2. NoRun.pc = "idle" /\ NoRun.named = 0
    BY Zenon DEF NoRun
  <2>3. Working
    BY <2>1, Zenon DEF Working
  <2> QED BY <2>1, <2>2, <2>3, TruthTypes, Zenon
<1>2. CASE lost' = TRUE /\ UNCHANGED dbName
  BY <1>1, <1>2, TruthIsLost, Zenon
<1>3. CASE /\ entry' = 0 /\ UNCHANGED lost
           /\ dbName' = IF run.name = "old" THEN dbName
                        ELSE [art |-> run.named, broken |-> run.name = "broken"]
  <2>1. OrderInv'
    <3>1. dbName'.art \in {dbName.art, run.named}
      BY <1>3, Zenon
    <3> QED BY <1>1, <3>1, OrderKept, Zenon DEF TruthInv
  <2>2. ASSUME ~lost, NEW a \in Artifacts, Latest(a) PROVE Told(a)'
    <3>1. Latest(run.art) /\ run.named = run.art /\ dbName.art # run.art
      BY <1>1, <2>2, Zenon DEF TruthInv, CurrentInv
    <3>2. a = run.art
      BY <1>1, <2>2, <3>1, OneLatest, Zenon
    <3>3. phase[a] # "stored" /\ (run.name = "old" => phase[a] \in Undone)
      BY <1>1, <2>2, <3>2, Zenon DEF TruthInv, UndoneInv
    <3>4. CASE run.name = "old"
      BY <1>1, <1>3, <3>1, <3>2, <3>3, <3>4, Zenon DEF Told, Undone
    <3>5. CASE run.name = "broken"
      <4>1. (run.name = "broken") = TRUE
        BY <3>5, Zenon
      <4>2. dbName' = [art |-> a, broken |-> TRUE]
        BY <1>3, <3>1, <3>2, <3>5, <4>1, Zenon
      <4> QED BY <1>1, <3>3, <4>2, Zenon DEF Told
    <3>6. CASE run.name \notin {"old", "broken"}
      <4>1. dbName'.art = a
        BY <1>3, <3>1, <3>2, <3>6, Zenon
      <4>2. run.name = "clean"
        BY <1>1, <3>6, Zenon DEF StandaloneInv, StandaloneTypeOK, CommitInv
      <4>3. phase[a] = "committed"
        BY <1>1, <3>1, <3>2, <4>2, Numbers, Zenon DEF StandaloneInv, CommitInv
      <4> QED BY <1>1, <4>1, <4>3, Zenon DEF Told
    <3> QED BY <3>4, <3>5, <3>6, Zenon
  <2>3. ~lost => CurrentInv'
    BY <1>1, <1>3, <2>2, Zenon DEF CurrentInv, Working, Latest
  <2>4. UndoneInv'
    BY <1>1, Zenon DEF UndoneInv
  <2> QED BY <1>3, <2>1, <2>3, <2>4, Zenon DEF TruthInv
<1> QED BY <1>2, <1>3, Zenon DEF WriteDatabase

\* The device boots between two commands, or because the power was cut.
LEMMA BootTruth ==
    ASSUME StandaloneInv, StandaloneInv', TruthInv, RebootDevice \/ PowerCut
    PROVE  TruthInv'
<1>1. Boots /\ UNCHANGED <<entry, dbName>>
  BY Zenon DEF RebootDevice, PowerCut
<1>2. phase \in [Artifacts -> Phases] /\ \A b \in Artifacts : phase'[b] = BootPhase(b)
  BY <1>1, TruthTypes, Zenon DEF Boots
<1>3. \A b \in Artifacts : phase'[b] = "absent" <=> phase[b] = "absent"
  BY <1>2, Zenon DEF BootPhase, Flagged
<1>4. CASE PowerCut
  <2>1. lost' /\ run'.named = 0
    BY <1>4, Zenon DEF PowerCut, NoRun
  <2> QED BY <1>1, <1>3, <2>1, TruthIsLost, Zenon
<1>5. CASE RebootDevice
  <2>1. run.pc = "idle" /\ UNCHANGED <<run, lost>>
    BY <1>5, Zenon DEF RebootDevice
  <2>2. OrderInv'
    BY <1>1, <1>3, <2>1, OrderKept, Zenon DEF TruthInv
  <2>3. ASSUME ~lost PROVE CurrentInv'
    <3>1. (entry # 0 => Latest(entry) /\ dbName.art # entry)'
      BY <1>1, <1>3, <2>3, TruthTypes, Numbers, Zenon DEF TruthInv, CurrentInv, Latest, Artifacts
    <3>2. ASSUME entry = 0, NEW a \in Artifacts, Latest(a)' PROVE Told(a)'
      <4>1. Latest(a)
        BY <1>3, <3>2, Zenon DEF Latest, Artifacts
      <4>2. Told(a)
        BY <2>1, <2>3, <3>2, <4>1, Zenon DEF TruthInv, CurrentInv, Working
      <4>3. \/ phase'[a] = phase[a]
            \/ phase[a] = "installed" /\ phase'[a] = "booted"
            \/ phase[a] = "booted" /\ phase'[a] = "rolled back"
        BY <1>2, Zenon DEF BootPhase, Flagged
      <4>4. CASE phase'[a] = phase[a]
        BY <1>1, <4>2, <4>4, Zenon DEF Told
      <4>5. CASE phase[a] \in {"installed", "booted"} /\ phase'[a] \in {"booted", "rolled back"}
        <5>1. dbName = [art |-> a, broken |-> TRUE]
          BY <4>2, <4>5, Zenon DEF Told
        <5>2. dbName' = [art |-> a, broken |-> TRUE] /\ dbName'.broken
          BY <1>1, <5>1, Zenon
        <5> QED BY <4>5, <5>2, Zenon DEF Told
      <4> QED BY <4>3, <4>4, <4>5, Zenon
    <3> QED BY <1>1, <2>1, <3>1, <3>2, Zenon DEF CurrentInv, Working
  <2>4. UndoneInv'
    BY <2>1, Zenon DEF UndoneInv, Closing
  <2> QED BY <2>1, <2>2, <2>3, <2>4, Zenon DEF TruthInv
<1> QED BY <1>4, <1>5, Zenon

\* Every step keeps TruthInv.
LEMMA TruthNextInv ==
    StandaloneInv /\ StandaloneInv' /\ TruthInv /\ [StandaloneNext]_standaloneVars => TruthInv'
<1> SUFFICES ASSUME StandaloneInv, StandaloneInv', TruthInv, [StandaloneNext]_standaloneVars
             PROVE  TruthInv'
  OBVIOUS
<1>1. CASE UNCHANGED standaloneVars
  <2>1. UNCHANGED <<run, entry, dbName, phase, lost>>
    BY <1>1, Zenon DEF standaloneVars
  <2>2. OrderInv'
    BY <2>1, OrderKept, Zenon DEF TruthInv
  <2>3. ~lost => CurrentInv' /\ UndoneInv'
    BY <2>1, Zenon DEF TruthInv, CurrentInv, UndoneInv, Working, Latest, Told
  <2> QED BY <2>1, <2>2, <2>3, Zenon DEF TruthInv
<1> QED BY <1>1, InstallTruth, PayloadTruth, InstallStepTruth, RestoreTruth, CommitStepTruth,
   RollbackBeginsTruth, RollbackTruth, CleanupTruth, DatabaseTruth, BootTruth, Zenon DEF StandaloneNext

\* Without power cuts and database errors, and as long as commit and rollback
\* find the entry that storeStandaloneData wrote, the name in the database and
\* the entry tell between any two commands what became of the artifact
\* installed last.
THEOREM DatabaseIsTrue == StandaloneSpec => []DatabaseTellsTruth
<1>1. StandaloneInit => TruthInv
  <2> SUFFICES ASSUME StandaloneInit PROVE TruthInv
    OBVIOUS
  <2>1. /\ run.pc = "idle" /\ run.named = 0 /\ entry = 0 /\ dbName.art = 0
        /\ \A a \in Artifacts : phase[a] = "absent"
    BY Zenon DEF StandaloneInit, NoRun
  <2>2. OrderInv
    BY <2>1, Zenon DEF OrderInv
  <2>3. CurrentInv /\ UndoneInv
    BY <2>1, Zenon DEF CurrentInv, UndoneInv, Working, Latest, Closing
  <2> QED BY <2>2, <2>3, Zenon DEF TruthInv
<1>2. TruthInv => DatabaseTellsTruth
  BY Zenon DEF TruthInv, CurrentInv, DatabaseTellsTruth, Idle, Working, Told
<1> QED BY <1>1, <1>2, TruthNextInv, StandaloneSpecInv, PTL DEF StandaloneSpec
==============================================================================
