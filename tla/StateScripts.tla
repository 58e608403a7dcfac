----------------------------- MODULE StateScripts ----------------------------
(***************************************************************************)
(* One call of Launcher.ExecuteAll (statescript/executor.go), which runs   *)
(* the scripts of a transition one after the other, lets them ask for      *)
(* another try, and has each killed by a timer when it takes too long.     *)
(*                                                                         *)
(* External: the scripts.  A script may leave a helper behind that holds   *)
(* its stderr, in its own process group or in another one.  Time passes in *)
(* ticks while a script runs, while its stderr is held and while Mender    *)
(* sleeps.                                                                 *)
(***************************************************************************)
EXTENDS Naturals, Sequences, FiniteSets

CONSTANTS
    NScripts,           \* the files found, in the order of their names
    Timeout, RetryInterval, RetryTimeout,   \* in ticks
    MaxHeld             \* bound on the ticks a helper holds a start up

ASSUME ScriptsAssumption ==
    /\ NScripts \in Nat /\ MaxHeld \in Nat
    /\ {Timeout, RetryInterval, RetryTimeout} \subseteq Nat \ {0}

VARIABLES
    scripts,        \* the files: "run", "noexec" (not executable) or "other"
    directory,      \* "ok", "unreadable" or "version": of a wrong version
    ignoreError,
    at,             \* where ExecuteAll is
    index,          \* the script it is at
    main, helper,   \* the processes
    code,           \* the exit code, -1 for a signal or a failed start
    running,        \* ticks since this start
    elapsed,        \* ticks since the first start of this script
    starts,         \* the scripts started, in order
    codes,          \* and what came of each start
    result

callVars == <<scripts, directory, ignoreError>>
processVars == <<main, helper, running, code>>
scriptVars == <<callVars, processVars, at, index, elapsed, starts, codes, result>>

RetryLater == 21
Signal == 255      \* stands for -1

ScriptsInit ==
    /\ scripts \in [1 .. NScripts -> {"run", "noexec", "other"}]
    /\ directory \in {"ok", "unreadable", "version"} /\ ignoreError \in BOOLEAN
    /\ at = "get" /\ index = 0
    /\ main = "none" /\ helper = "none" /\ code = 0 /\ running = 0
    /\ elapsed = 0 /\ starts = <<>> /\ codes = <<>> /\ result = "none"

Chosen == {i \in 1 .. NScripts : scripts[i] # "other"}

Return(err) == at' = "done" /\ result' = err

------------------------------------------------------------------------------
(* ExecuteAll                                                              *)

\* get: the version matters only if there is a script to run.
Get ==
    /\ at = "get"
    /\ IF directory = "unreadable" \/ (directory = "version" /\ Chosen # {})
       THEN Return(IF ignoreError THEN "nil" ELSE "error")
       ELSE at' = "next" /\ UNCHANGED result
    /\ UNCHANGED <<callVars, processVars, index, elapsed, starts, codes>>

\* The next script; one that is not executable is an error, or skipped.
Next ==
    /\ at = "next" /\ index < NScripts /\ index' = index + 1
    /\ CASE scripts[index'] = "other" -> UNCHANGED <<at, result>>
         [] scripts[index'] = "run" -> at' = "start" /\ UNCHANGED result
         [] scripts[index'] = "noexec" ->
              IF ignoreError THEN UNCHANGED <<at, result>> ELSE Return("error")
    /\ elapsed' = 0
    /\ UNCHANGED <<callVars, processVars, starts, codes>>

AllDone ==
    /\ at = "next" /\ index = NScripts /\ Return("nil")
    /\ UNCHANGED <<callVars, processVars, index, elapsed, starts, codes>>

------------------------------------------------------------------------------
(* execute: the process, its timer, and its pipe                           *)

StartScript ==
    /\ at = "start" /\ starts' = Append(starts, index)
    /\ \/ at' = "wait" /\ main' = "running" /\ running' = 0 /\ UNCHANGED code
       \/ at' = "ended" /\ code' = Signal /\ UNCHANGED <<main, running>>
    /\ UNCHANGED <<callVars, helper, index, elapsed, codes, result>>

\* The script ends, or starts a helper first.
ScriptEnds ==
    /\ at = "wait" /\ main = "running" /\ main' = "none" /\ code' \in {0, 1, RetryLater}
    /\ UNCHANGED <<callVars, helper, running, at, index, elapsed, starts, codes, result>>

ScriptForks ==
    /\ at = "wait" /\ main = "running" /\ helper = "none"
    /\ helper' \in {"group", "detached"}
    /\ UNCHANGED <<callVars, main, running, code, at, index, elapsed, starts, codes, result>>

HelperEnds ==
    /\ helper # "none" /\ helper' = "none"
    /\ UNCHANGED <<callVars, main, running, code, at, index, elapsed, starts, codes, result>>

\* A timer that is due goes off first; after it only a helper in another
\* group is waited for.
Tick ==
    /\ at = "wait"
    /\ \/ running < Timeout
       \/ main = "none" /\ helper = "detached" /\ running < Timeout + MaxHeld
    /\ running' = running + 1 /\ elapsed' = elapsed + 1
    /\ UNCHANGED <<callVars, main, helper, code, at, index, starts, codes, result>>

\* Mutant: only the script itself is killed.
KillScript ==
    /\ at = "wait" /\ running >= Timeout /\ main = "running"
    /\ main' = "none" /\ code' = Signal
    /\ UNCHANGED <<callVars, helper, running, at, index, elapsed, starts, codes, result>>

\* time.AfterFunc kills the whole process group.
KillGroup ==
    /\ at = "wait" /\ running >= Timeout /\ (main = "running" \/ helper = "group")
    /\ main' = "none" /\ code' = IF main = "running" THEN Signal ELSE code
    /\ helper' = IF helper = "group" THEN "none" ELSE helper
    /\ UNCHANGED <<callVars, running, at, index, elapsed, starts, codes, result>>

\* ReadAll returns when nobody holds stderr any more, then Wait.
Wait ==
    /\ at = "wait" /\ main = "none" /\ helper = "none"
    /\ at' = "ended"
    /\ UNCHANGED <<callVars, processVars, index, elapsed, starts, codes, result>>

------------------------------------------------------------------------------
(* executeScript: what comes of the exit code                              *)

\* Mutant: the time is measured from the last start.
MayRetrySinceStart == running <= RetryTimeout

MayRetry == elapsed <= RetryTimeout

\* The script wants to be run again later, and there is time.
Again == code = RetryLater /\ MayRetry

\* Mutant: the next script is run, error or not.
IgnoreFailure == at' = "next" /\ UNCHANGED result

\* A failure ends the series; errors are ignored where nothing could be done.
HandleFailure == IF ignoreError THEN at' = "next" /\ UNCHANGED result ELSE Return("error")

Decide ==
    /\ at = "ended" /\ codes' = Append(codes, code)
    /\ CASE code = 0 -> at' = "next" /\ UNCHANGED <<elapsed, result>>
         [] Again ->
              at' = "start" /\ elapsed' = elapsed + RetryInterval /\ UNCHANGED result
         [] OTHER -> HandleFailure /\ UNCHANGED elapsed
    /\ UNCHANGED <<callVars, processVars, index, starts>>

Execution == Get \/ Next \/ AllDone \/ StartScript \/ Tick \/ KillGroup \/ Wait \/ Decide

ScriptsNext == Execution \/ ScriptEnds \/ ScriptForks \/ HelperEnds

\* Mender and its timer go on; nothing is assumed of the scripts.
ScriptsSpec ==
    ScriptsInit /\ [][ScriptsNext]_scriptVars /\ WF_scriptVars(Execution)

------------------------------------------------------------------------------
(* What has to hold.                                                       *)

\* The result is the scripts': success means that each of them has ended
\* well, an error that the last one has not, or could not be run.  Where
\* errors are ignored every script gets its turn, whatever the others did.
LastCode(i) ==
    LET mine == {j \in DOMAIN starts : starts[j] = i}
    IN IF mine = {} THEN Signal ELSE codes[CHOOSE j \in mine : \A k \in mine : k <= j]

ResultIsTrue ==
    /\ result = "nil" /\ ~ignoreError => \A i \in Chosen : LastCode(i) = 0
    /\ result = "nil" /\ ignoreError /\ directory = "ok" =>
         \A i \in Chosen : scripts[i] = "run" => \E j \in DOMAIN starts : starts[j] = i
    /\ result = "error" /\ starts # <<>> =>
         codes[Len(codes)] # 0 \/ scripts[index] = "noexec"

\* A script holds the update up no longer than its window for retries, one
\* more pause and one more run, however often it asks and whatever its
\* earlier runs took.  The run takes up to the timeout; the exception is a
\* helper outside the process group, which the timer does not kill and whose
\* end ReadAll waits for: then the run takes as long as the helper.
WindowKept ==
    elapsed <= RetryTimeout + RetryInterval + (IF running > Timeout THEN running ELSE Timeout)

\* ExecuteAll returns, even if a script hangs and its helpers with it.  Only
\* a helper that left the process group can hold it up.
ExecuteReturns == <>(result # "none") \/ <>[](helper = "detached")
==============================================================================
