---------------------------- MODULE ModuleInstaller --------------------------
(***************************************************************************)
(* An update module through a whole update (installer/modules.go):         *)
(* Initialize builds the tree of files the module works in, the files of   *)
(* the payload are downloaded as in ModuleDownload, the module is called   *)
(* for the other states and asked its two questions, and Cleanup runs it   *)
(* once more and removes the tree.  The device can reboot at any point;    *)
(* what is running is lost and Cleanup follows.                            *)
(***************************************************************************)
EXTENDS ModuleDownload, Sequences

CONSTANTS
    MaxPrinted,     \* bound on what the module prints in one call
    MaxCalls,       \* bound on the calls between download and cleanup
    MaxReboots      \* bound on reboots

ASSUME ModuleInstallerAssumption ==
    MaxPrinted \in Nat /\ MaxCalls \in Nat /\ MaxReboots \in Nat

VARIABLES
    stage,          \* where the update is
    tree,           \* the module's working directory
    op,             \* the state the module was called with last
    printed,        \* what the module has printed in this call
    output,         \* what ReadLogger has kept of it
    answer,         \* what the call returned
    invoked,        \* whether Download was started, Cleanup run, or Cleanup missed
    calls,
    reboots

installerVars == <<stage, tree, op, printed, output, answer, invoked, calls, reboots>>
moduleVars == <<downloadVars, holder, installerVars>>

Words == {"Yes", "No", "Automatic"}
Newline == "newline"
Queries == {"NeedsArtifactReboot", "SupportsRollback"}

\* Every other state: the module's output is only logged.
PlainCalls == {"ArtifactInstall"}

ModuleInit ==
    /\ DownloadInit
    /\ stage = "initialize" /\ tree = "gone" /\ op = "none"
    /\ printed = <<>> /\ output = <<>> /\ answer = "none"
    /\ invoked = [download |-> FALSE, cleanup |-> FALSE, missed |-> FALSE]
    /\ calls = 0 /\ reboots = 0

------------------------------------------------------------------------------
\* Initialize: buildStreamsTree removes what is there and builds the tree
\* file by file; any of it can fail.
Initialize ==
    /\ stage = "initialize"
    /\ \/ tree' = "built" /\ stage' = "download"
       \/ "files" \in Faults /\ tree' \in {"gone", "partial"} /\ stage' = "cleanup"
    /\ UNCHANGED <<downloadVars, holder, op, printed, output, answer, invoked, calls, reboots>>

\* The goroutines of the download run on beside everything else.
Download ==
    /\ DownloadNext
    /\ PrepareStoreUpdate => stage = "download"
    /\ invoked' = IF module.pc = "off" /\ module'.pc # "off"
                  THEN [invoked EXCEPT !.download = TRUE] ELSE invoked
    /\ stage' = IF stage = "download" /\ client'.pc = "done"
                THEN IF client'.err THEN "cleanup" ELSE "idle"
                ELSE stage
    /\ UNCHANGED <<tree, op, printed, output, answer, calls, reboots>>

------------------------------------------------------------------------------
(* callModule and what becomes of the output.                              *)

\* A call starts the process with an empty ReadLogger.
CallModule(state) ==
    /\ stage = "idle" /\ calls < MaxCalls
    /\ calls' = calls + 1
    /\ stage' = "call" /\ op' = state
    /\ printed' = <<>> /\ output' = <<>> /\ answer' = "none" /\ holder' = "none"
    /\ UNCHANGED <<downloadVars, tree, invoked, reboots>>

\* Mutant: the newline at the end is kept.
TrimRightNot(chunk) == chunk

\* strings.TrimRight(buf, "\n"): the chunk up to its last word.
TrimRight(chunk) ==
    LET words == {i \in DOMAIN chunk : chunk[i] # Newline}
    IN SubSeq(chunk, 1, IF words = {} THEN 0
                        ELSE CHOOSE i \in words : \A j \in words : j <= i)

\* ReadLogger.Write gets the output in chunks of any length, from the process
\* or from what it left.
Write ==
    /\ stage = "call" /\ holder # "gone"
    /\ \E n \in 1 .. MaxPrinted - Len(printed) :
         \E chunk \in [1 .. n -> Words \union {Newline}] :
           /\ printed' = printed \o chunk
           /\ output' = IF op \in Queries THEN output \o TrimRight(chunk) ELSE output
    /\ UNCHANGED <<downloadVars, holder, stage, tree, op, answer, invoked, calls, reboots>>

\* The replies NeedsReboot and SupportsRollback know; nothing means No.
Reply(state, text) ==
    IF state \notin Queries THEN "ok"
    ELSE IF text \in {<<>>, <<"No">>} THEN "No"
    ELSE IF text = <<"Yes">> THEN "Yes"
    ELSE IF text = <<"Automatic">> /\ state = "NeedsArtifactReboot" THEN "Automatic"
    ELSE "err"

\* The process exits, or delayKiller ends it, but what it left holds its
\* output open, and cmd.Wait waits on.
CallHeld ==
    /\ stage \in {"call", "cleaning"} /\ holder = "none"
    /\ holder' = "left"
    /\ UNCHANGED <<downloadVars, installerVars>>

\* What was left behind exits or closes what it held.
HolderLetsGo ==
    /\ holder = "left" /\ holder' = "gone"
    /\ UNCHANGED <<downloadVars, installerVars>>

\* The process ends by itself, or delayKiller ends it, and nobody holds its
\* output.  It may also not have started.
CallReturns ==
    /\ stage = "call" /\ holder # "left"
    /\ answer' \in {Reply(op, output), "failed"}
    /\ stage' = "idle"
    /\ UNCHANGED <<downloadVars, holder, tree, op, printed, output, invoked, calls, reboots>>

------------------------------------------------------------------------------
\* The update is over; the daemon or the standalone command cleans up.
UpdateEnds ==
    /\ stage = "idle" /\ stage' = "cleanup"
    /\ UNCHANGED <<downloadVars, holder, tree, op, printed, output, answer, invoked, calls, reboots>>

\* Mutant: the tree is removed before the module is called.
CleanupRemovesFirst ==
    /\ stage = "cleanup"
    /\ tree' = "gone" /\ holder' = "none"
    /\ stage' = IF tree = "gone" THEN "end" ELSE "cleaning"
    /\ UNCHANGED <<downloadVars, op, printed, output, answer, invoked, calls, reboots>>

\* Cleanup: nothing to do if the tree is gone, or if os.Stat fails for any
\* other reason.
Cleanup ==
    /\ stage = "cleanup"
    /\ holder' = "none"
    /\ \/ /\ stage' = IF tree = "gone" THEN "end" ELSE "cleaning"
          /\ UNCHANGED invoked
       \/ /\ "files" \in Faults /\ tree # "gone"
          /\ stage' = "end"
          /\ invoked' = [invoked EXCEPT !.missed = TRUE]
    /\ UNCHANGED <<downloadVars, tree, op, printed, output, answer, calls, reboots>>

\* What the call came to: the module has run, or could not be started.
CleanupCalled ==
    {[invoked EXCEPT !.cleanup = TRUE]} \union
    (IF "exec" \in Faults /\ holder = "none" THEN {[invoked EXCEPT !.missed = TRUE]} ELSE {})

\* The module has been called; its tree is removed, as far as possible,
\* whatever became of the call.
CleanupReturns ==
    /\ stage = "cleaning" /\ holder # "left"
    /\ invoked' \in CleanupCalled
    /\ tree' = "gone" \/ ("files" \in Faults /\ tree' = "partial")
    /\ stage' = "end"
    /\ UNCHANGED <<downloadVars, holder, op, printed, output, answer, calls, reboots>>

\* What a reboot leaves of the tree: it may have been half built or, once
\* the cleanup call has returned, half removed.
TreeAfterReboot ==
    CASE stage = "initialize" -> {"gone", "partial", "built"} \X {invoked}
      [] stage = "cleaning" -> {<<tree, invoked>>} \union
                               ({"gone", "partial"} \X
                                    IF holder = "left" THEN {} ELSE CleanupCalled)
      [] OTHER -> {<<tree, invoked>>}

\* The device reboots in the middle of the update; Cleanup runs afterwards.
Reboot ==
    /\ stage # "end" /\ reboots < MaxReboots
    /\ reboots' = reboots + 1
    /\ \E left \in TreeAfterReboot : tree' = left[1] /\ invoked' = left[2]
    /\ stage' = "cleanup"
    /\ client' = [client EXCEPT !.pc = "done", !.err = TRUE]
    /\ loop' = [pc |-> "ended", err |-> FALSE]
    /\ streamNext' = NoStream /\ stream' = NoStream /\ stray' = NoStream
    /\ module' = [pc |-> "exited", err |-> TRUE]
    /\ killer' = "stopped" /\ holder' = "none"
    /\ UNCHANGED <<d, copied, op, printed, output, answer, calls>>

ModuleNext ==
    \/ Initialize \/ Download
    \/ (\E s \in Queries \union PlainCalls : CallModule(s))
    \/ Write \/ CallHeld \/ HolderLetsGo \/ CallReturns
    \/ UpdateEnds \/ Cleanup \/ CleanupReturns \/ Reboot

\* The scheduler runs every goroutine, the garbage collector runs finalizers
\* and timers fire.  The module is free to hang, with or without a pipe open:
\* delayKiller ends its process, and a process that was sent SIGKILL exits.
\* What it left outside of its group is under nobody's control.
ModuleSpec ==
    /\ ModuleInit /\ [][ModuleNext]_moduleVars
    /\ WF_moduleVars(Initialize) /\ WF_moduleVars(CallReturns) /\ WF_moduleVars(UpdateEnds)
    /\ WF_moduleVars(Cleanup) /\ WF_moduleVars(CleanupReturns)
    /\ WF_moduleVars(Download /\ PrepareStoreUpdate) /\ WF_moduleVars(Download /\ AllStored)
    /\ WF_moduleVars(Download /\ HandleUnblocked)
    /\ WF_moduleVars(Download /\ WriteStreamNext) /\ WF_moduleVars(Download /\ CreateFile)
    /\ WF_moduleVars(Download /\ CopyUnblocked) /\ WF_moduleVars(Download /\ FinalizeStray)
    /\ WF_moduleVars(Download /\ Terminate) /\ WF_moduleVars(Download /\ Kill)

------------------------------------------------------------------------------
(* What has to hold.                                                       *)

\* FinishStoreUpdate returns success only if every file went, completely, to
\* the same place, the module or files/, and the module exited well.
StoredOneWay ==
    client.pc = "done" /\ ~client.err =>
        /\ module.pc = "exited" /\ ~module.err
        /\ \E place \in {"module", "files"} : \A f \in Files : copied[f] = place

\* The nil that downloadStream returns is the status of its own file, never
\* one left over from an earlier event: the client counts a file as stored
\* only once it has been copied.
StatusIsOwn == \A f \in 1 .. client.stored : copied[f] # "nowhere"

\* Once StoreUpdate and FinishStoreUpdate have returned, the process of the
\* Download state is gone, and so are the goroutines of the download: no later
\* call of the module, Cleanup in particular, meets them in the tree.  The one
\* exception: a goroutine on stream-next that handleFinishChannel has replaced
\* stays until its stream is finalized, and only after a failed download.
NoOverlap ==
    stage \in {"idle", "call", "cleaning", "end"} =>
        /\ ~Running /\ loop.pc \in {"off", "ended"}
        /\ stream = NoStream /\ streamNext = NoStream
        /\ stray # NoStream => client.err /\ stray.to = "stream-next"

\* "If the tree is gone, it definitely executed the script first": once the
\* module was called for Download, the tree is gone or the update has ended
\* only after a completed Cleanup call, over reboots too.  What the comment
\* forgets: a module that could not be started for Cleanup, and an os.Stat
\* that failed although the tree is there.
CleanupRan ==
    invoked.download /\ (tree = "gone" \/ stage = "end") => invoked.cleanup \/ invoked.missed

\* At most one word, and newlines after it.
OneLine(text) == \A i \in DOMAIN text : text[i] # Newline => i = 1

\* The reply the module wrote, as its documentation defines it.
Meant(state, text) ==
    IF text = <<>> \/ text[1] = Newline THEN "No"
    ELSE IF state = "SupportsRollback" /\ text[1] = "Automatic" THEN "err"
    ELSE text[1]

\* A one-line reply of a module that exits well is understood as written, in
\* however many pieces it arrives.
ReplyUnderstood ==
    stage = "idle" /\ op \in Queries /\ OneLine(printed) /\ answer # "failed" =>
        answer = Meant(op, printed)

\* The loop offers a second status for one file while the client offers it the
\* end of the files: the process ended in the middle of the download.
Stuck == loop.pc = "reply" /\ ~d.proc /\ client.pc = "finish"

==============================================================================
