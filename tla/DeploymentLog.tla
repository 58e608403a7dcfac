---------------------------- MODULE DeploymentLog ----------------------------
(***************************************************************************)
(* The logs of the last deployments (app/deployment_logger.go): the daemon *)
(* enables the logger for the deployment it works on, rotates the files of *)
(* earlier ones out of the way, and sends the log to the server when the   *)
(* deployment fails.  A rotation renames file by file, and the power may   *)
(* be cut between two of them.                                             *)
(*                                                                         *)
(* Deployments are numbered in the order the server offers them; one that  *)
(* has ended is not offered again.                                         *)
(***************************************************************************)
EXTENDS Naturals, FiniteSets

CONSTANTS
    MaxLogFiles,
    MaxDeployments, MaxEntries,     \* bounds
    MaxCuts,        \* bound on power cuts and failed renames and opens
    LogFaults       \* what may fail: "close" and "open" of a log, "rename"

ASSUME LogAssumption ==
    /\ MaxLogFiles \in Nat \ {0} /\ MaxDeployments \in Nat \ {0}
    /\ LogFaults \subseteq {"close", "open", "rename"}

VARIABLES
    current,        \* the deployment being worked on
    files,          \* <<number, deployment>> -> how many entries the file has
    loggingEnabled,
    logger,         \* the file open for writing, or NoFile
    enabling,       \* where Enable is
    toRename,       \* the files Rotate has still to rename
    logged,         \* deployment -> how many entries were written for it
    misplaced,      \* history: a file could not be renamed
    cuts            \* power cuts, failed renames and opens so far

logVars == <<current, files, loggingEnabled, logger, enabling, toRename, logged, misplaced,
             cuts>>

NoFile == <<0, 0>>
Deployments == 1 .. MaxDeployments

LogInit ==
    /\ current = 1 /\ files = [f \in {} |-> 0]
    /\ loggingEnabled = FALSE /\ logger = NoFile /\ enabling = "no" /\ toRename = {}
    /\ logged = [d \in Deployments |-> 0] /\ misplaced = FALSE /\ cuts = 0

------------------------------------------------------------------------------
(* The files are named deployments.<number>.<deployment>.log               *)

\* getSortedLogFiles: the highest name is the oldest file.
Older(f, g) == f[1] > g[1] \/ (f[1] = g[1] /\ f[2] > g[2])
Oldest(fs) == CHOOSE f \in fs : \A g \in fs \ {f} : Older(f, g)
Newest(fs) == CHOOSE f \in fs : \A g \in fs \ {f} : Older(g, f)

\* Mutant: the newest files are deleted.
TrimmedNewest(fs, n) == {f \in fs : Cardinality({g \in fs : Older(g, f)}) < n}

\* What is left when the oldest files are deleted until there are n.
Trimmed(fs, n) == {f \in fs : Cardinality({g \in fs : Older(f, g)}) < n}

\* rotateLogFileName
Rotated(f) == <<f[1] + 1, f[2]>>

------------------------------------------------------------------------------
(* Enable                                                                  *)

\* Mutant: the file of this deployment is not looked for.
RotatesAlways == TRUE

\* Rotate renames unless the newest file is one of this deployment.
Rotates == Newest(Trimmed(DOMAIN files, MaxLogFiles))[2] # current

\* "after rotating we should end up with dlm.maxLogFiles-1 files"
Room == MaxLogFiles - 1

\* Enable, unless the logger is enabled already, for whatever deployment,
\* or the disk is full.
Enable ==
    /\ ~loggingEnabled /\ enabling = "no"
    /\ LET few == Trimmed(DOMAIN files, MaxLogFiles)
           kept == IF few # {} /\ Rotates THEN Trimmed(few, Room) ELSE few
       IN /\ files' = [f \in kept |-> files[f]]
          /\ toRename' = IF few # {} /\ Rotates THEN kept ELSE {}
    /\ enabling' = "rotate"
    /\ UNCHANGED <<current, loggingEnabled, logger, logged, misplaced, cuts>>

\* The oldest file first, so that no name is taken.
RenameNext ==
    /\ enabling = "rotate" /\ toRename # {}
    /\ LET f == Oldest(toRename)
       IN /\ files' = [g \in (DOMAIN files \ {f}) \union {Rotated(f)} |->
                           IF g = Rotated(f) THEN files[f] ELSE files[g]]
          /\ toRename' = toRename \ {f}
    /\ UNCHANGED <<current, loggingEnabled, logger, enabling, logged, misplaced, cuts>>

\* os.Rename fails; Rotate ignores it and goes on with the next file.
RenameFails ==
    /\ enabling = "rotate" /\ toRename # {} /\ "rename" \in LogFaults
    /\ cuts < MaxCuts /\ cuts' = cuts + 1
    /\ toRename' = toRename \ {Oldest(toRename)} /\ misplaced' = TRUE
    /\ UNCHANGED <<current, files, loggingEnabled, logger, enabling, logged>>

\* NewFileLogger opens or creates the first file of this deployment; the
\* version of the client is its next entry.
OpenLog ==
    /\ enabling = "rotate" /\ toRename = {} /\ enabling' = "no"
    /\ LET f == <<1, current>>
       IN /\ files' = [g \in DOMAIN files \union {f} |->
                           (IF g \in DOMAIN files THEN files[g] ELSE 0)
                             + (IF g = f THEN 1 ELSE 0)]
          /\ logger' = f
    /\ loggingEnabled' = TRUE /\ logged' = [logged EXCEPT ![current] = @ + 1]
    /\ UNCHANGED <<current, toRename, misplaced, cuts>>

\* NewFileLogger fails: the files are rotated, and nothing is logged.
OpenFails ==
    /\ enabling = "rotate" /\ toRename = {} /\ "open" \in LogFaults
    /\ cuts < MaxCuts /\ cuts' = cuts + 1
    /\ enabling' = "no" /\ logger' = NoFile
    /\ UNCHANGED <<current, files, loggingEnabled, toRename, logged, misplaced>>

------------------------------------------------------------------------------
(* Logging, and the end of a deployment                                    *)

\* DeploymentHook.Fire and WriteLog; a file that was closed takes nothing.
Fire ==
    /\ loggingEnabled /\ logger # NoFile /\ logged[current] < MaxEntries
    /\ files' = [files EXCEPT ![logger] = @ + 1]
    /\ logged' = [logged EXCEPT ![current] = @ + 1]
    /\ UNCHANGED <<current, loggingEnabled, logger, enabling, toRename, misplaced, cuts>>

\* Disable in idleState; the daemon waits for the next deployment.  If the
\* file cannot be closed the logger stays enabled.
Disable ==
    /\ enabling = "no" /\ current < MaxDeployments
    /\ current' = current + 1 /\ logger' = NoFile
    /\ \/ loggingEnabled' = FALSE
       \/ "close" \in LogFaults /\ UNCHANGED loggingEnabled
    /\ UNCHANGED <<files, enabling, toRename, logged, misplaced, cuts>>

\* A power cut, and the daemon goes on with the same deployment.
PowerCut ==
    /\ cuts < MaxCuts /\ cuts' = cuts + 1
    /\ loggingEnabled' = FALSE /\ logger' = NoFile /\ enabling' = "no" /\ toRename' = {}
    /\ UNCHANGED <<current, files, logged, misplaced>>

LogNext ==
    \/ Enable \/ RenameNext \/ RenameFails \/ OpenLog \/ OpenFails
    \/ Fire \/ Disable \/ PowerCut

LogSpec == LogInit /\ [][LogNext]_logVars

------------------------------------------------------------------------------
(* GetLogs, and what has to hold.                                          *)

\* findLogsForSpecificID takes the first match of the sorted files.
LogsOf(id) ==
    LET found == {f \in DOMAIN files : f[2] = id}
    IN IF found = {} THEN 0 ELSE files[Oldest(found)]

\* What GetLogs sends of the deployment at hand is all that was logged for
\* it, before and after every restart: there is one file of it, and a
\* rotation that was cut short does not split it.  The exception is a rename
\* that failed, which leaves two files with the same number.
LogIsComplete == ~misplaced => LogsOf(current) = logged[current]

\* The logs of the last deployments survive, complete, as many as there is
\* room for beside the current one, and an open logger leaves no more files
\* than that: Rotate deletes neither too many nor too few, as long as no
\* rename has failed.
LastLogsKept ==
    LET before == {d \in Deployments : d < current /\ logged[d] > 0}
    IN ~misplaced =>
       /\ \A d \in before :
            Cardinality({e \in before : e > d}) < MaxLogFiles - 1 => LogsOf(d) = logged[d]
       /\ loggingEnabled => Cardinality(DOMAIN files) <= MaxLogFiles
==============================================================================
