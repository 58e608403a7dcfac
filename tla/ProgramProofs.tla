---------------------------- MODULE ProgramProofs ----------------------------
(***************************************************************************)
(* The programs the client runs: the state scripts, for any number of      *)
(* scripts and any retry times, and an update module, for any number of    *)
(* files, calls and reboots.                                               *)
(***************************************************************************)
EXTENDS StateScripts, ModuleInstaller, SequenceTheorems, TLAPS

------------------------------------------------------------------------------
(* The state scripts.                                                      *)

\* The script that is being executed.
Executing == at \in {"start", "wait", "ended"}

\* Script i was started, and its last start ended well.
EndedWell(i) ==
    \E j \in 1 .. Len(codes) :
        starts[j] = i /\ codes[j] = 0 /\ \A k \in 1 .. Len(starts) : starts[k] = i => k <= j

\* Script i was started at all.
WasStarted(i) == \E j \in 1 .. Len(starts) : starts[j] = i

\* A script that ExecuteAll is done with has ended well; where errors are
\* ignored, it was run.
Served(i) == IF ignoreError THEN scripts[i] = "run" => WasStarted(i) ELSE EndedWell(i)

\* There is an exit code for every start but one that is still running, and
\* the scripts before the one at hand are served.
SeriesInv ==
    /\ starts \in Seq(Nat) /\ codes \in Seq(Nat) /\ code \in Nat
    /\ at \in {"wait", "ended"} => Len(starts) = Len(codes) + 1
    /\ at \notin {"wait", "ended"} => Len(starts) = Len(codes)
    /\ \A j \in 1 .. Len(starts) : starts[j] <= index
    /\ at \in {"wait", "ended"} => starts[Len(starts)] = index
    /\ result # "error" => \A i \in Chosen : i <= index /\ (Executing => i # index) => Served(i)

\* The inductive invariant of ExecuteAll.
ResultInv ==
    /\ at \in {"get", "next", "start", "wait", "ended", "done"}
    /\ scripts \in [1 .. NScripts -> {"run", "noexec", "other"}] /\ index \in 0 .. NScripts
    /\ SeriesInv
    /\ at = "get" => index = 0 /\ starts = <<>>
    /\ Executing => index > 0 /\ scripts[index] = "run"
    /\ at # "done" => result = "none"
    /\ result = "nil" => index = NScripts \/ (ignoreError /\ directory # "ok")
    /\ result = "error" /\ starts # <<>> => codes[Len(codes)] # 0 \/ scripts[index] = "noexec"

\* Before the call.
LEMMA ResultInitInv == ScriptsInit => ResultInv
<1> SUFFICES ASSUME ScriptsInit PROVE ResultInv
  OBVIOUS
<1>1. Len(starts) = 0 /\ Len(codes) = 0 /\ starts \in Seq(Nat) /\ codes \in Seq(Nat)
  BY DEF ScriptsInit
<1>2. \A i \in Chosen : ~(i <= 0)
  BY ScriptsAssumption DEF Chosen
<1>3. index = 0 /\ at = "get" /\ result = "none" /\ code = 0 /\ starts = <<>>
  BY Zenon DEF ScriptsInit
<1>4. SeriesInv
  BY <1>1, <1>2, <1>3 DEF SeriesInv
<1> QED BY <1>3, <1>4, ScriptsAssumption DEF ScriptsInit, ResultInv, Executing

\* What happens to the processes while ExecuteAll waits, and the end of it.
LEMMA ProcessResult ==
    ASSUME ResultInv,
           StartScript \/ Tick \/ KillGroup \/ Wait \/ ScriptEnds \/ ScriptForks \/ HelperEnds
    PROVE  ResultInv'
<1>1. UNCHANGED <<scripts, directory, ignoreError, index, codes, result>>
  BY Zenon DEF StartScript, Tick, KillGroup, Wait, ScriptEnds, ScriptForks, HelperEnds, callVars, processVars
<1>2. code' \in Nat
  BY DEF StartScript, Tick, KillGroup, Wait, ScriptEnds, ScriptForks, HelperEnds, processVars,
     ResultInv, SeriesInv, Signal, RetryLater
<1>3. CASE Tick \/ KillGroup \/ Wait \/ ScriptEnds \/ ScriptForks \/ HelperEnds
  <2>1. UNCHANGED starts /\ (UNCHANGED at \/ (at = "wait" /\ at' = "ended"))
    BY <1>3, Zenon DEF Tick, KillGroup, Wait, ScriptEnds, ScriptForks, HelperEnds
  <2>2. Executing' = Executing /\ Chosen' = Chosen /\ \A i : Served(i)' = Served(i)
    BY <1>1, <2>1 DEF Executing, Chosen, Served, WasStarted, EndedWell
  <2>3. SeriesInv'
    BY <1>1, <1>2, <2>1, <2>2, Zenon DEF ResultInv, SeriesInv
  <2> QED BY <1>1, <2>1, <2>2, <2>3, Zenon DEF ResultInv
<1>4. CASE StartScript
  <2>1. /\ at = "start" /\ starts' = Append(starts, index) /\ at' \in {"wait", "ended"}
        /\ starts \in Seq(Nat) /\ index \in Nat /\ Len(starts) = Len(codes)
        /\ Executing /\ Executing' /\ Chosen' = Chosen
    BY <1>1, <1>4, ScriptsAssumption DEF StartScript, ResultInv, SeriesInv, Executing, Chosen
  <2>2. /\ starts' \in Seq(Nat) /\ Len(starts') = Len(starts) + 1 /\ starts'[Len(starts')] = index
        /\ \A j \in 1 .. Len(starts) : starts'[j] = starts[j]
    BY <2>1, AppendProperties
  <2>3. ASSUME NEW i, i # index, Served(i) PROVE Served(i)'
    <3>1. ASSUME WasStarted(i) PROVE WasStarted(i)'
      BY <2>1, <2>2, <3>1 DEF WasStarted
    <3>2. ASSUME EndedWell(i) PROVE EndedWell(i)'
      <4>1. PICK j \in 1 .. Len(codes) :
              starts[j] = i /\ codes[j] = 0 /\ \A k \in 1 .. Len(starts) : starts[k] = i => k <= j
        BY <3>2, Zenon DEF EndedWell
      <4>2. starts'[j] = i /\ codes'[j] = 0 /\ j \in 1 .. Len(codes')
        BY <1>1, <2>1, <2>2, <4>1, Zenon
      <4>3. ASSUME NEW k \in 1 .. Len(starts'), starts'[k] = i PROVE k <= j
        <5>1. k # Len(starts')
          BY <2>2, <2>3, <4>3, Zenon
        <5>2. k \in 1 .. Len(starts)
          <6>1. Len(starts) \in Nat /\ Len(starts') = Len(starts) + 1
            BY <2>1, <2>2
          <6> QED BY ONLY <5>1, <6>1, k \in 1 .. Len(starts')
        <5> QED BY <2>2, <4>1, <4>3, <5>2, Zenon
      <4> QED BY <4>2, <4>3, Zenon DEF EndedWell
    <3> QED BY <1>1, <2>3, <3>1, <3>2, Zenon DEF Served
  <2>4. \A j \in 1 .. Len(starts') : starts'[j] <= index
    <3> SUFFICES ASSUME NEW j \in 1 .. Len(starts') PROVE starts'[j] <= index
      OBVIOUS
    <3>1. CASE j = Len(starts')
      BY <2>1, <2>2, <3>1
    <3>2. CASE j # Len(starts')
      BY <2>1, <2>2, <3>2 DEF ResultInv, SeriesInv
    <3> QED BY <3>1, <3>2, Zenon
  <2>5. SeriesInv'
    <3>1. result' # "error" => \A i \in Chosen' : i <= index' /\ (Executing' => i # index') => Served(i)'
      BY <1>1, <2>1, <2>3, Zenon DEF ResultInv, SeriesInv
    <3> QED BY <1>1, <1>2, <2>1, <2>2, <2>4, <3>1, Zenon DEF ResultInv, SeriesInv
  <2> QED BY <1>1, <2>1, <2>5, Zenon DEF ResultInv
<1> QED BY <1>3, <1>4, Zenon

\* get, the step to the next script, and the end of the series.
LEMMA SeriesResult ==
    ASSUME ResultInv, Get \/ Next \/ AllDone
    PROVE  ResultInv'
<1>1. /\ UNCHANGED <<scripts, directory, ignoreError, code, starts, codes>>
      /\ Chosen' = Chosen /\ \A i : Served(i)' = Served(i)
  <2>1. UNCHANGED <<scripts, directory, ignoreError, code, starts, codes>>
    BY Zenon DEF Get, Next, AllDone, callVars, processVars
  <2> QED BY <2>1, Zenon DEF Chosen, Served, WasStarted, EndedWell
<1>2. CASE Get \/ AllDone
  <2>1. /\ UNCHANGED index /\ at \in {"get", "next"} /\ at' \in {"next", "done"}
        /\ ~Executing /\ ~Executing' /\ result = "none" /\ (at' # "done" => result' = "none")
    BY <1>2, Zenon DEF Get, AllDone, Return, ResultInv, Executing
  <2>2. SeriesInv'
    BY <1>1, <2>1, Zenon DEF ResultInv, SeriesInv
  <2>3. result' = "nil" => index = NScripts \/ (ignoreError /\ directory # "ok")
    BY <1>2, <2>1, Zenon DEF Get, AllDone, Return, ResultInv
  <2>4. result' = "error" => starts = <<>>
    BY <1>2, <2>1, Zenon DEF Get, AllDone, Return, ResultInv
  <2> QED BY <1>1, <2>1, <2>2, <2>3, <2>4, Zenon DEF ResultInv
<1>3. CASE Next
  <2>1. /\ at = "next" /\ index \in Nat /\ index' = index + 1 /\ index' \in 1 .. NScripts
        /\ ~Executing /\ result = "none" /\ scripts[index'] \in {"run", "noexec", "other"}
    BY <1>3, ScriptsAssumption DEF Next, ResultInv, Executing
  <2>2. \/ scripts[index'] = "other" /\ UNCHANGED <<at, result>>
        \/ scripts[index'] = "run" /\ at' = "start" /\ UNCHANGED result
        \/ scripts[index'] = "noexec" /\ ignoreError /\ UNCHANGED <<at, result>>
        \/ scripts[index'] = "noexec" /\ at' = "done" /\ result' = "error"
    BY <1>3, <2>1, Zenon DEF Next, Return
  <2>3. \A j \in 1 .. Len(starts') : starts'[j] <= index'
    <3>1. \A j \in 1 .. Len(starts) : starts[j] <= index /\ starts[j] \in Nat
      BY DEF ResultInv, SeriesInv
    <3> QED BY <1>1, <2>1, <3>1
  <2>4. result' # "error" => \A i \in Chosen' : i <= index' /\ (Executing' => i # index') => Served(i)'
    <3> SUFFICES ASSUME result' # "error", NEW i \in Chosen, i <= index', Executing' => i # index'
                 PROVE  Served(i)
      BY <1>1, Zenon
    <3>1. CASE i = index'
      BY <1>1, <2>2, <3>1, Zenon DEF Executing, Served, Chosen
    <3>2. CASE i # index'
      <4>1. i <= index
        BY <2>1, <3>2 DEF Chosen
      <4> QED BY <2>1, <4>1, Zenon DEF ResultInv, SeriesInv
    <3> QED BY <3>1, <3>2, Zenon
  <2>5. SeriesInv'
    BY <1>1, <2>1, <2>2, <2>3, <2>4, Zenon DEF ResultInv, SeriesInv
  <2> QED BY <1>1, <2>1, <2>2, <2>5 DEF ResultInv, Executing
<1> QED BY <1>2, <1>3, Zenon

\* What comes of the exit code.
LEMMA DecideResult ==
    ASSUME ResultInv, Decide
    PROVE  ResultInv'
<1>1. /\ UNCHANGED <<scripts, directory, ignoreError, code, starts, index>> /\ Chosen' = Chosen
      /\ at = "ended" /\ codes' = Append(codes, code) /\ starts \in Seq(Nat) /\ codes \in Seq(Nat)
      /\ code \in Nat /\ Len(starts) = Len(codes) + 1 /\ starts[Len(starts)] = index /\ result = "none"
      /\ Executing /\ index \in Nat /\ scripts[index] = "run"
  BY ScriptsAssumption DEF Decide, callVars, processVars, Chosen, ResultInv, SeriesInv, Executing
<1>2. /\ codes' \in Seq(Nat) /\ Len(codes') = Len(starts') /\ codes'[Len(codes')] = code
      /\ \A j \in 1 .. Len(codes) : codes'[j] = codes[j]
  BY <1>1, AppendProperties
<1>3. \/ at' = "next" /\ result' = "none" /\ (code = 0 \/ ignoreError)
      \/ at' = "start" /\ result' = "none"
      \/ at' = "done" /\ result' = "error" /\ code # 0
  BY <1>1, Zenon DEF Decide, HandleFailure, Return
<1>4. ASSUME NEW i, Served(i) PROVE Served(i)'
  <2>1. WasStarted(i)' = WasStarted(i)
    BY <1>1, Zenon DEF WasStarted
  <2>2. ASSUME EndedWell(i) PROVE EndedWell(i)'
    <3>1. PICK j \in 1 .. Len(codes) :
            starts[j] = i /\ codes[j] = 0 /\ \A k \in 1 .. Len(starts) : starts[k] = i => k <= j
      BY <2>2, Zenon DEF EndedWell
    <3>2. j \in 1 .. Len(codes') /\ codes'[j] = 0
      BY <1>1, <1>2, <3>1
    <3> QED BY <1>1, <3>1, <3>2, Zenon DEF EndedWell
  <2> QED BY <1>1, <1>4, <2>1, <2>2, Zenon DEF Served
<1>5. ASSUME at' = "next" PROVE Served(index)'
  <2>1. Len(starts) \in 1 .. Len(starts) /\ Len(codes') \in 1 .. Len(codes')
    BY <1>1, <1>2
  <2>2. CASE ignoreError
    BY <1>1, <2>1, <2>2, Zenon DEF Served, WasStarted
  <2>3. CASE ~ignoreError
    <3>1. codes'[Len(codes')] = 0 /\ starts'[Len(codes')] = index
      BY <1>1, <1>2, <1>3, <1>5, <2>3, Zenon
    <3>2. \A k \in 1 .. Len(starts') : k <= Len(codes')
      BY <1>1, <1>2
    <3> QED BY <1>1, <2>1, <2>3, <3>1, <3>2, Zenon DEF Served, EndedWell
  <2> QED BY <2>2, <2>3, Zenon
<1>6. SeriesInv'
  <2>1. result' # "error" => \A i \in Chosen' : i <= index' /\ (Executing' => i # index') => Served(i)'
    <3> SUFFICES ASSUME result' # "error", NEW i \in Chosen, i <= index, Executing' => i # index
                 PROVE  Served(i)'
      BY <1>1, Zenon
    <3>1. CASE i = index
      <4>1. at' = "next"
        BY <1>3, <3>1, Zenon DEF Executing
      <4> QED BY <1>1, <1>5, <3>1, <4>1, Zenon
    <3>2. CASE i # index
      BY <1>1, <1>4, <3>2, Zenon DEF ResultInv, SeriesInv
    <3> QED BY <3>1, <3>2, Zenon
  <2> QED BY <1>1, <1>2, <1>3, <2>1, Zenon DEF ResultInv, SeriesInv
<1> QED BY <1>1, <1>2, <1>3, <1>6, Zenon DEF ResultInv, Executing

\* The invariant holds in every state.
LEMMA ResultSpecInv == ScriptsSpec => []ResultInv
<1>1. ResultInv /\ [ScriptsNext]_scriptVars => ResultInv'
  <2> SUFFICES ASSUME ResultInv, [ScriptsNext]_scriptVars PROVE ResultInv'
    OBVIOUS
  <2>1. CASE UNCHANGED scriptVars
    <3>1. UNCHANGED <<scripts, directory, ignoreError, code, at, index, starts, codes, result>>
      BY <2>1, Zenon DEF scriptVars, callVars, processVars
    <3>2. Executing' = Executing /\ Chosen' = Chosen /\ \A i : Served(i)' = Served(i)
      BY <3>1, Zenon DEF Executing, Chosen, Served, WasStarted, EndedWell
    <3>3. SeriesInv'
      BY <3>1, <3>2, Zenon DEF ResultInv, SeriesInv
    <3> QED BY <3>1, <3>2, <3>3, Zenon DEF ResultInv
  <2> QED BY <2>1, ProcessResult, SeriesResult, DecideResult, Zenon DEF ScriptsNext, Execution
<1> QED BY <1>1, ResultInitInv, PTL DEF ScriptsSpec

\* The last start of a script is the one whose exit code counts.
LEMMA LastCodeIsZero == ASSUME ResultInv, at = "done", NEW i, EndedWell(i) PROVE LastCode(i) = 0
<1> DEFINE mine == {j \in DOMAIN starts : starts[j] = i}
<1>1. PICK j \in 1 .. Len(codes) :
        starts[j] = i /\ codes[j] = 0 /\ \A k \in 1 .. Len(starts) : starts[k] = i => k <= j
  BY Zenon DEF EndedWell
<1>2. DOMAIN starts = 1 .. Len(starts) /\ Len(starts) = Len(codes) /\ Len(starts) \in Nat
  BY DEF ResultInv, SeriesInv
<1>3. j \in mine /\ \A k \in mine : k <= j
  BY <1>1, <1>2, Zenon
<1>4. \A l \in mine : (\A k \in mine : k <= l) => l = j
  <2> SUFFICES ASSUME NEW l \in mine, \A k \in mine : k <= l PROVE l = j
    OBVIOUS
  <2>1. j <= l /\ l <= j /\ l \in Nat /\ j \in Nat
    BY <1>2, <1>3
  <2> QED BY <2>1
<1>5. (CHOOSE l \in mine : \A k \in mine : k <= l) = j
  BY <1>3, <1>4, Zenon
<1>6. LastCode(i) = codes[CHOOSE l \in mine : \A k \in mine : k <= l]
  BY <1>3, Zenon DEF LastCode
<1> QED BY <1>1, <1>5, <1>6, Zenon

\* Launcher.ExecuteAll: success means that every script has ended well or,
\* where errors are ignored, was run; an error, that the last one has not
\* ended well or could not be run.  For any number of scripts and retries.
THEOREM ResultsAreTrue == ScriptsSpec => []ResultIsTrue
<1>2. ASSUME ResultInv PROVE ResultIsTrue
  <2>1. \A i \in Chosen : i \in 1 .. NScripts
    BY Zenon DEF Chosen
  <2>2. ASSUME result = "nil" PROVE at = "done" /\ ~Executing
    BY <1>2, <2>2, Zenon DEF ResultInv, Executing
  <2>3. ASSUME result = "nil", ~ignoreError, NEW i \in Chosen PROVE LastCode(i) = 0
    <3>1. i <= index
      BY <1>2, <2>1, <2>3 DEF ResultInv
    <3>2. EndedWell(i)
      BY <1>2, <2>2, <2>3, <3>1, Zenon DEF ResultInv, SeriesInv, Served
    <3> QED BY <1>2, <2>2, <2>3, <3>2, LastCodeIsZero, Zenon
  <2>4. ASSUME result = "nil", ignoreError, directory = "ok", NEW i \in Chosen, scripts[i] = "run"
        PROVE  \E j \in DOMAIN starts : starts[j] = i
    <3>1. i <= index
      BY <1>2, <2>1, <2>4 DEF ResultInv
    <3>2. WasStarted(i)
      BY <1>2, <2>2, <2>4, <3>1, Zenon DEF ResultInv, SeriesInv, Served
    <3> QED BY <1>2, <3>2 DEF WasStarted, ResultInv, SeriesInv
  <2> QED BY <1>2, <2>3, <2>4, Zenon DEF ResultIsTrue, ResultInv
<1> QED BY <1>2, ResultSpecInv, PTL

\* A start comes within the window and one pause, and from then on the time
\* of the run is all that is added.
WindowInv ==
    /\ elapsed \in Nat /\ running \in Nat
    /\ at = "start" => elapsed <= RetryTimeout + RetryInterval
    /\ at = "wait" => elapsed <= RetryTimeout + RetryInterval + running
    /\ WindowKept

\* executeScript: no sequence of exit codes makes a script hold the update up
\* longer than the window, one pause and one run, for any timeouts; and the
\* run is longer than its timeout only by the time that a helper outside the
\* process group holds stderr.
THEOREM WindowIsKept == ScriptsSpec => []WindowKept
<1>0. Timeout \in Nat /\ RetryTimeout \in Nat /\ RetryInterval \in Nat
  BY ScriptsAssumption, Zenon
<1>1. ScriptsInit => WindowInv
  BY <1>0 DEF ScriptsInit, WindowInv, WindowKept
<1>2. ResultInv /\ WindowInv /\ [ScriptsNext]_scriptVars => WindowInv'
  <2> SUFFICES ASSUME ResultInv, WindowInv, [ScriptsNext]_scriptVars PROVE WindowInv'
    OBVIOUS
  <2>1. CASE Get \/ AllDone
    <3>1. UNCHANGED <<elapsed, running>> /\ at' \in {"next", "done"}
      BY <2>1, Zenon DEF Get, AllDone, Return, processVars
    <3> QED BY <3>1, Zenon DEF WindowInv, WindowKept
  <2>2. CASE Next
    <3>1. scripts[index'] \in {"run", "noexec", "other"} /\ at = "next"
      BY <2>2, ScriptsAssumption DEF Next, ResultInv
    <3>2. at' \in {"next", "start", "done"}
      BY <2>2, <3>1, Zenon DEF Next, Return
    <3>3. elapsed' = 0 /\ UNCHANGED running
      BY <2>2, Zenon DEF Next, processVars
    <3> QED BY <1>0, <3>2, <3>3 DEF WindowInv, WindowKept
  <2>3. CASE StartScript
    BY <1>0, <2>3 DEF StartScript, WindowInv, WindowKept
  <2>4. CASE Tick
    BY <1>0, <2>4 DEF Tick, WindowInv, WindowKept
  <2>5. CASE KillGroup \/ ScriptEnds \/ ScriptForks \/ HelperEnds
    BY <2>5, Zenon DEF KillGroup, ScriptEnds, ScriptForks, HelperEnds, WindowInv, WindowKept
  <2>6. CASE Wait
    BY <2>6, Zenon DEF Wait, processVars, WindowInv, WindowKept
  <2>7. CASE Decide
    <3>1. UNCHANGED running /\ at' # "wait"
      BY <2>7, Zenon DEF Decide, processVars, HandleFailure, Return
    <3>2. CASE at' = "start"
      BY <1>0, <2>7, <3>1, <3>2
      DEF Decide, Again, MayRetry, HandleFailure, Return, WindowInv, WindowKept
    <3>3. CASE at' # "start"
      BY <2>7, <3>1, <3>3, Zenon DEF Decide, HandleFailure, Return, WindowInv, WindowKept
    <3> QED BY <3>2, <3>3, Zenon
  <2>8. CASE UNCHANGED scriptVars
    BY <2>8, Zenon DEF scriptVars, processVars, WindowInv, WindowKept
  <2> QED BY <2>1, <2>2, <2>3, <2>4, <2>5, <2>6, <2>7, <2>8, Zenon DEF ScriptsNext, Execution
<1>3. WindowInv => WindowKept
  BY Zenon DEF WindowInv
<1> QED BY <1>1, <1>2, <1>3, ResultSpecInv, PTL DEF ScriptsSpec

------------------------------------------------------------------------------
(* The download by an update module.                                       *)

\* What streams there are.
Streams ==
    [st : {"none", "opening", "writing", "ok", "err"}, file : 0 .. N,
     to : {"none", "stream-next", "streams", "files"}]

\* What client, loop, download and process can be.
Clients ==
    [pc : {"prepare", "store", "storing", "finish", "finishing", "done"}, stored : 0 .. N, err : BOOLEAN]
Loops == [pc : {"off", "select", "reply", "returning", "final", "ended"}, err : BOOLEAN]
Downloads ==
    [downloader : {"unknown", "module", "mender"}, current : 0 .. N, finishFlag : BOOLEAN, proc : BOOLEAN]
Processes == [pc : {"off", "runs", "reads next", "reads stream", "exited"}, err : BOOLEAN]

\* The types of the download.
DownloadTypeOK ==
    /\ client \in Clients /\ loop \in Loops /\ d \in Downloads /\ module \in Processes
    /\ streamNext \in Streams /\ stream \in Streams
    /\ copied \in [Files -> {"nowhere", "module", "files"}]

\* The client has no copy going.
NoStreams == stream = NoStream /\ streamNext = NoStream

\* The process has gone, and not because of an error.
LeftWell == d.downloader = "mender" /\ ~module.err

\* What the goroutines do is what the loop has asked for last.
StreamsInv ==
    /\ stream # NoStream =>
        /\ stream.st # "none" /\ stream.file = d.current /\ d.current > 0
        /\ stream.to = IF d.downloader = "mender" THEN "files" ELSE "streams"
        /\ d.downloader # "unknown"
        /\ stream.st = "ok" => copied[stream.file] # "nowhere"
    /\ streamNext # NoStream => streamNext.st # "none" /\ d.downloader # "mender"
    /\ streamNext.st = "err" => streamNext.file # 0
    /\ streamNext # NoStream /\ ~d.finishFlag =>
           stream = NoStream /\ streamNext.file = d.current /\ d.current > 0

\* Every file that was copied went to the same place.
PlaceInv ==
    \A f \in Files : copied[f] \in
        {"nowhere", CASE d.downloader = "unknown" -> "nowhere"
                      [] d.downloader = "module" -> "module"
                      [] d.downloader = "mender" -> "files"}

\* Where client and loop are together.
MeetInv ==
    /\ client.pc = "prepare" =>
        /\ loop.pc = "off" /\ module.pc = "off" /\ NoStreams
        /\ client.stored = 0 /\ ~client.err
        /\ d = [downloader |-> "unknown", current |-> 0, finishFlag |-> FALSE, proc |-> TRUE]
    /\ client.pc \in {"store", "storing", "finish"} =>
        loop.pc \in {"select", "reply"} /\ ~d.finishFlag
    /\ client.pc = "store" =>
        /\ NoStreams /\ d.current = client.stored /\ ~client.err
        /\ loop.pc = "reply" => loop.err
        /\ loop.pc = "select" /\ ~d.proc => LeftWell
    /\ client.pc = "storing" =>
        /\ client.stored < N /\ d.current = client.stored + 1 /\ ~client.err
        /\ loop.pc = "reply" /\ ~loop.err => copied[d.current] # "nowhere" /\ NoStreams
        /\ loop.pc = "reply" /\ loop.err => NoStreams \/ ~d.proc
        /\ ~(loop.pc = "reply" /\ loop.err) /\ ~d.proc => LeftWell
    /\ client.pc = "finish" =>
        /\ NoStreams \/ (~d.proc /\ client.err)
        /\ ~client.err =>
            /\ client.stored = N /\ d.current = N
            /\ loop.pc = "reply" => loop.err
            /\ loop.pc = "select" /\ ~d.proc => LeftWell
    /\ client.pc = "finishing" =>
        /\ d.finishFlag /\ loop.pc \in {"select", "returning", "final"}
        /\ loop.pc = "select" <=> d.proc
        /\ d.proc => stream = NoStream
        /\ streamNext.file = 0
        /\ loop.pc = "final" => NoStreams
        /\ ~client.err =>
            /\ client.stored = N /\ stream = NoStream
            /\ ~d.proc /\ ~loop.err => ~module.err
    /\ client.pc = "done" =>
        /\ loop.pc \in {"off", "ended"} /\ module.pc \in {"off", "exited"} /\ NoStreams
        /\ ~client.err => client.stored = N /\ module.pc = "exited" /\ ~module.err
    /\ client.pc \notin {"prepare", "done"} => module.pc # "off"
    /\ ~d.proc => module.pc = "exited"

\* The inductive invariant of the download.
DownloadInv == DownloadTypeOK /\ StreamsInv /\ PlaceInv /\ MeetInv /\ StatusIsOwn

\* What is known of the calls: Cleanup has been run, or was missed.
Invocations == [download : BOOLEAN, cleanup : BOOLEAN, missed : BOOLEAN]
Accounted(inv) == inv.cleanup \/ inv.missed

\* The download belongs to its stage, and what Cleanup needs is there.
StageInv ==
    /\ stage \in {"initialize", "download", "idle", "call", "cleanup", "cleaning", "end"}
    /\ stage = "initialize" => client.pc = "prepare" /\ ~invoked.download
    /\ stage = "download" => client.pc # "done"
    /\ client.pc \notin {"prepare", "done"} => stage = "download"
    /\ stage \in {"idle", "call"} => client.pc = "done"
    /\ stage \in {"download", "idle", "call"} => tree = "built"
    /\ invoked \in Invocations
    /\ invoked.download /\ ~Accounted(invoked) => tree # "gone" /\ stage # "end"

\* What ReadLogger has kept of a line.
FirstWord(text) == IF text = <<>> \/ text[1] = Newline THEN <<>> ELSE <<text[1]>>

\* While the call runs, what was kept of a one-line reply is its word.
ReplyInv ==
    /\ stage \in {"initialize", "download"} => op = "none"
    /\ printed \in Seq(Words \union {Newline})
    /\ stage = "call" /\ op \in Queries /\ OneLine(printed) => output = FirstWord(printed)
    /\ ReplyUnderstood

\* The inductive invariant of the update module.
ModuleInv == DownloadInv /\ StageInv /\ ReplyInv

------------------------------------------------------------------------------
(* The download.                                                           *)

\* What a stream looks like.
LEMMA StreamShape ==
    /\ NoStream \in Streams /\ NoStream.st = "none" /\ NoStream.file = 0
    /\ \A f \in 0 .. N : \A to \in {"stream-next", "streams", "files"} :
        /\ Started(f, to) \in Streams /\ Started(f, to) # NoStream
        /\ Started(f, to).st = "opening" /\ Started(f, to).file = f /\ Started(f, to).to = to
BY ModuleDownloadAssumption DEF Streams, NoStream, Started

\* A goroutine gets on.
LEMMA StreamMoves ==
    ASSUME NEW s \in Streams, NEW t \in {"opening", "writing", "ok", "err"},
           NEW r, r = [s EXCEPT !.st = t]
    PROVE  r \in Streams /\ r # NoStream /\ r.st = t /\ r.file = s.file /\ r.to = s.to
BY Zenon DEF Streams, NoStream

\* An iteration of the loop ends in one of three ways.
LEMMA IterationEnds ==
    ASSUME NEW e, NEW err \in BOOLEAN, EndIteration(e, err)
    PROVE  /\ loop' \in Loops
           /\ loop'.err = err
           /\ loop'.pc = IF e.finishFlag /\ ~e.proc THEN "returning"
                         ELSE IF err THEN "reply" ELSE "select"
BY Zenon DEF EndIteration, Loops

\* Before the first call there is nothing.
LEMMA DownloadInitInv == DownloadInit => DownloadInv
<1> SUFFICES ASSUME DownloadInit PROVE DownloadInv
  OBVIOUS
<1>1. DownloadTypeOK
  BY ModuleDownloadAssumption, StreamShape DEF DownloadInit, DownloadTypeOK, Clients, Loops,
     Downloads, Processes
<1>2. StreamsInv
  BY StreamShape, Zenon DEF DownloadInit, StreamsInv
<1>3. PlaceInv
  BY Zenon DEF DownloadInit, PlaceInv
<1>4. MeetInv
  BY Zenon DEF DownloadInit, MeetInv, NoStreams
<1>5. StatusIsOwn
  BY DEF DownloadInit, StatusIsOwn
<1> QED BY <1>1, <1>2, <1>3, <1>4, <1>5, Zenon DEF DownloadInv

\* The client starts the process and the loop.
LEMMA PrepareInv ==
    ASSUME DownloadInv, PrepareStoreUpdate
    PROVE  DownloadInv'
<1>1. /\ client.pc = "prepare" /\ UNCHANGED <<d, streamNext, stream, copied>>
      /\ \/ /\ client'.pc = "store" /\ client'.stored = client.stored /\ client'.err = client.err
            /\ loop'.pc = "select" /\ module'.pc = "runs"
         \/ /\ client'.pc = "done" /\ client'.stored = client.stored /\ client'.err
            /\ UNCHANGED <<loop, module>>
  <2>1. \/ /\ client' = [client EXCEPT !.pc = "store"]
           /\ loop' = [loop EXCEPT !.pc = "select"] /\ module' = [module EXCEPT !.pc = "runs"]
        \/ client' = [client EXCEPT !.pc = "done", !.err = TRUE] /\ UNCHANGED <<loop, module>>
    BY Zenon DEF PrepareStoreUpdate
  <2>2. client.pc = "prepare" /\ UNCHANGED <<d, streamNext, stream, copied>>
    BY Zenon DEF PrepareStoreUpdate
  <2>3. CASE /\ client' = [client EXCEPT !.pc = "store"]
             /\ loop' = [loop EXCEPT !.pc = "select"] /\ module' = [module EXCEPT !.pc = "runs"]
    BY <2>2, <2>3, Zenon DEF DownloadInv, DownloadTypeOK, Clients, Loops, Downloads, Processes
  <2>4. CASE client' = [client EXCEPT !.pc = "done", !.err = TRUE] /\ UNCHANGED <<loop, module>>
    BY <2>2, <2>4, Zenon DEF DownloadInv, DownloadTypeOK, Clients, Loops, Downloads, Processes
  <2> QED BY <2>1, <2>3, <2>4, Zenon
<1>2. DownloadTypeOK'
  <2>1. client' \in Clients
    BY Zenon DEF PrepareStoreUpdate, DownloadInv, DownloadTypeOK, Clients, Loops, Downloads, Processes
  <2>2. loop' \in Loops
    BY Zenon DEF PrepareStoreUpdate, DownloadInv, DownloadTypeOK, Clients, Loops, Downloads, Processes
  <2>3. module' \in Processes
    BY Zenon DEF PrepareStoreUpdate, DownloadInv, DownloadTypeOK, Clients, Loops, Downloads, Processes
  <2> QED BY <1>1, <2>1, <2>2, <2>3, Zenon DEF DownloadInv, DownloadTypeOK
<1>3. StreamsInv'
  BY <1>1, Zenon DEF DownloadInv, StreamsInv
<1>4. PlaceInv'
  BY <1>1, Zenon DEF DownloadInv, PlaceInv
<1>5. MeetInv'
  <2>1. /\ loop.pc = "off" /\ module.pc = "off" /\ NoStreams /\ client.stored = 0 /\ ~client.err
        /\ d.current = 0 /\ ~d.finishFlag /\ d.proc
    BY <1>1 DEF DownloadInv, MeetInv
  <2>2. NoStreams'
    BY <1>1, <2>1, Zenon DEF NoStreams
  <2> QED BY <1>1, <2>1, <2>2, Zenon DEF MeetInv
<1>6. StatusIsOwn'
  BY <1>1, Zenon DEF DownloadInv, StatusIsOwn
<1> QED BY <1>2, <1>3, <1>4, <1>5, <1>6, Zenon DEF DownloadInv

\* There are no more files, or a checksum is wrong.
LEMMA AllStoredInv ==
    ASSUME DownloadInv, AllStored
    PROVE  DownloadInv'
<1>1. /\ client.pc = "store" /\ UNCHANGED <<loop, d, streamNext, stream, module, copied>>
      /\ client'.pc = "finish" /\ client'.stored = client.stored
      /\ (client.stored = N /\ client'.err = client.err) \/ client'.err
  BY Zenon DEF AllStored, DownloadInv, DownloadTypeOK, Clients, Loops, Downloads, Processes
<1>2. DownloadTypeOK'
  BY <1>1, Zenon DEF AllStored, DownloadInv, DownloadTypeOK, Clients, Loops, Downloads, Processes
<1>3. StreamsInv'
  BY <1>1, Zenon DEF DownloadInv, StreamsInv
<1>4. PlaceInv'
  BY <1>1, Zenon DEF DownloadInv, PlaceInv
<1>5. MeetInv'
  BY <1>1, Zenon DEF DownloadInv, MeetInv, NoStreams, LeftWell
<1>6. StatusIsOwn'
  BY <1>1, Zenon DEF DownloadInv, StatusIsOwn
<1> QED BY <1>2, <1>3, <1>4, <1>5, <1>6, Zenon DEF DownloadInv

\* The process is gone.
LEMMA CmdErrInv ==
    ASSUME DownloadInv, HandleCmdErr
    PROVE  DownloadInv'
<1>1. /\ loop.pc = "select" /\ d.proc /\ module.pc = "exited"
      /\ UNCHANGED <<client, module, copied>>
      /\ client.pc \in {"store", "storing", "finish", "finishing"}
  BY Zenon DEF HandleCmdErr, DownloadInv, MeetInv, DownloadTypeOK, Clients, Loops, Downloads, Processes
<1>2. CASE /\ module.err \/ d.finishFlag \/ d.downloader = "module"
           /\ d' = [d EXCEPT !.proc = FALSE]
           /\ EndIteration([d EXCEPT !.proc = FALSE], module.err \/ ~d.finishFlag)
           /\ UNCHANGED <<streamNext, stream>>
  <2>1. /\ ~d'.proc /\ d'.downloader = d.downloader /\ d'.current = d.current
        /\ d'.finishFlag = d.finishFlag
        /\ loop'.pc = (IF d.finishFlag THEN "returning" ELSE "reply")
        /\ loop'.err = (module.err \/ ~d.finishFlag)
    BY <1>2, Zenon DEF EndIteration, DownloadInv, DownloadTypeOK, Clients, Loops, Downloads, Processes
  <2>2. DownloadTypeOK'
    BY <1>1, <1>2, Zenon DEF EndIteration, DownloadInv, DownloadTypeOK, Clients, Loops, Downloads, Processes
  <2>3. StreamsInv'
    BY <1>1, <1>2, <2>1, Zenon DEF DownloadInv, StreamsInv
  <2>4. PlaceInv'
    BY <1>1, <2>1, Zenon DEF DownloadInv, PlaceInv
  <2>5. MeetInv'
    BY <1>1, <1>2, <2>1, Zenon DEF DownloadInv, MeetInv, NoStreams, LeftWell
  <2>6. StatusIsOwn'
    BY <1>1, Zenon DEF DownloadInv, StatusIsOwn
  <2> QED BY <2>2, <2>3, <2>4, <2>5, <2>6, Zenon DEF DownloadInv
<1>3. CASE /\ ~module.err /\ ~d.finishFlag /\ d.downloader = "unknown"
           /\ d' = [d EXCEPT !.proc = FALSE, !.downloader = "mender"]
           /\ streamNext' = NoStream
           /\ \/ stream' = MenderStream(d.current) /\ EndIteration(d', FALSE)
              \/ UNCHANGED stream /\ EndIteration(d', TRUE)
  <2>1. /\ ~d'.proc /\ d'.downloader = "mender" /\ d'.current = d.current /\ ~d'.finishFlag
        /\ d.current \in 0 .. N
    BY <1>3, Zenon DEF DownloadInv, DownloadTypeOK, Clients, Loops, Downloads, Processes
  <2>2. \/ stream' = MenderStream(d.current) /\ loop'.pc = "select" /\ ~loop'.err
        \/ stream' = stream /\ loop'.pc = "reply" /\ loop'.err
    BY <1>3, <2>1 DEF EndIteration
  <2>3. stream = NoStream
    BY <1>3, Zenon DEF DownloadInv, StreamsInv
  <2>4. \A f \in Files : copied[f] = "nowhere"
    BY <1>3, Zenon DEF DownloadInv, PlaceInv
  <2>5. client.stored = 0
    <3>1. client.stored \in 0 .. N /\ \A f \in 1 .. client.stored : copied[f] # "nowhere"
      BY Zenon DEF DownloadInv, StatusIsOwn, DownloadTypeOK, Clients, Loops, Downloads, Processes
    <3>2. client.stored # 0 => 1 \in 1 .. client.stored /\ 1 \in Files
      BY <3>1, ModuleDownloadAssumption DEF Files
    <3> QED BY <2>4, <3>1, <3>2, Zenon
  <2>6. /\ d.current = 0 => MenderStream(d.current) = NoStream
        /\ d.current # 0 => MenderStream(d.current) = Started(d.current, "files")
    BY Zenon DEF MenderStream
  <2>7. DownloadTypeOK'
    <3>1. loop' \in Loops
      BY <1>3, IterationEnds, Zenon
    <3>2. d' \in Downloads
      BY <1>3, Zenon DEF DownloadInv, DownloadTypeOK, Clients, Loops, Downloads, Processes
    <3>3. stream' \in Streams
      BY <2>1, <2>2, <2>3, <2>6, StreamShape
    <3> QED BY <1>1, <1>3, <3>1, <3>2, <3>3, StreamShape, Zenon DEF DownloadInv, DownloadTypeOK
  <2>8. StreamsInv'
    BY <1>1, <1>3, <2>1, <2>2, <2>3, <2>6, StreamShape DEF StreamsInv
  <2>9. PlaceInv'
    BY <1>1, <2>1, <2>4, Zenon DEF PlaceInv
  <2>10. MeetInv'
    BY <1>1, <1>3, <2>1, <2>2, <2>3, <2>5, <2>6, StreamShape DEF DownloadInv, MeetInv, NoStreams, LeftWell
  <2>11. StatusIsOwn'
    BY <1>1, Zenon DEF DownloadInv, StatusIsOwn
  <2> QED BY <2>7, <2>8, <2>9, <2>10, <2>11, Zenon DEF DownloadInv
<1> QED BY <1>2, <1>3, Zenon DEF HandleCmdErr

\* The next file is offered.
LEMMA NextFileInv ==
    ASSUME DownloadInv, HandleNextArtifactStream
    PROVE  DownloadInv'
<1> DEFINE k == client.stored + 1
<1>1. /\ loop.pc = "select" /\ client.pc = "store" /\ client.stored < N
      /\ client' = [client EXCEPT !.pc = "storing"] /\ d' = [d EXCEPT !.current = k]
      /\ UNCHANGED <<module, copied>>
  BY Zenon DEF HandleNextArtifactStream
<1>2. /\ client'.pc = "storing" /\ client'.stored = client.stored /\ client'.err = client.err
      /\ d'.current = k /\ d'.downloader = d.downloader
      /\ d'.finishFlag = d.finishFlag /\ d'.proc = d.proc
      /\ k \in 1 .. N /\ k \in 0 .. N /\ k # 0
  <2>1. client'.pc = "storing" /\ client'.stored = client.stored /\ client'.err = client.err
    BY <1>1, Zenon DEF DownloadInv, DownloadTypeOK, Clients, Loops, Downloads, Processes
  <2>2. /\ d'.current = k /\ d'.downloader = d.downloader
        /\ d'.finishFlag = d.finishFlag /\ d'.proc = d.proc
    BY <1>1, Zenon DEF DownloadInv, DownloadTypeOK, Clients, Loops, Downloads, Processes
  <2>3. client.stored \in 0 .. N
    BY Zenon DEF DownloadInv, DownloadTypeOK, Clients, Loops, Downloads, Processes
  <2>4. k \in 1 .. N /\ k \in 0 .. N /\ k # 0
    BY <1>1, <2>3, ModuleDownloadAssumption
  <2> QED BY <2>1, <2>2, <2>4, Zenon
<1>3. NoStreams /\ ~d.finishFlag /\ ~client.err /\ (~d.proc => LeftWell) /\ module.pc # "off"
  BY <1>1, Zenon DEF DownloadInv, MeetInv
<1> HIDE DEF k
<1>4. \/ /\ d.downloader = "mender" /\ stream' = Started(k, "files") /\ streamNext' = NoStream
         /\ EndIteration(d', FALSE)
      \/ /\ d.downloader # "mender" /\ stream' = NoStream
         /\ \/ streamNext' = Started(k, "stream-next") /\ EndIteration(d', FALSE)
            \/ streamNext' = NoStream /\ EndIteration(d', TRUE)
  BY <1>2, <1>3, Zenon DEF HandleNextArtifactStream, MenderStream, Publish, NoStreams
<1>5. loop' \in Loops
  BY <1>4, IterationEnds, Zenon
<1> DEFINE s == Started(k, "files")
           p == Started(k, "stream-next")
<1>6. /\ s \in Streams /\ s # NoStream /\ s.st = "opening" /\ s.file = k /\ s.to = "files"
       /\ p \in Streams /\ p # NoStream /\ p.st = "opening" /\ p.file = k
       /\ NoStream \in Streams /\ NoStream.st = "none"
  BY <1>2, StreamShape, Zenon
<1> HIDE DEF s, p
<1>7. /\ loop'.pc = (IF loop'.err THEN "reply" ELSE "select")
      /\ loop'.err => stream' = NoStream /\ streamNext' = NoStream
  BY <1>2, <1>3, <1>4, IterationEnds, Zenon
<1>8. DownloadTypeOK'
  <2>1. client' \in Clients
    BY <1>1, Zenon DEF DownloadInv, DownloadTypeOK, Clients, Loops, Downloads, Processes
  <2>2. d' \in Downloads
    BY <1>1, <1>2, Zenon DEF DownloadInv, DownloadTypeOK, Clients, Loops, Downloads, Processes
  <2>3. stream' \in Streams /\ streamNext' \in Streams
    BY <1>4, <1>6, Zenon DEF s, p
  <2> QED BY <1>1, <1>5, <2>1, <2>2, <2>3, Zenon DEF DownloadInv, DownloadTypeOK
<1>9. StreamsInv'
  <2>1. CASE d.downloader = "mender" /\ stream' = s /\ streamNext' = NoStream
    BY <1>2, <1>3, <1>6, <2>1 DEF StreamsInv
  <2>2. CASE d.downloader # "mender" /\ stream' = NoStream /\ streamNext' = p
    BY <1>2, <1>3, <1>6, <2>2 DEF StreamsInv
  <2>3. CASE stream' = NoStream /\ streamNext' = NoStream
    BY <1>6, <2>3, Zenon DEF StreamsInv
  <2> QED BY <1>4, <2>1, <2>2, <2>3, Zenon DEF s, p
<1>10. PlaceInv'
  BY <1>1, <1>2, Zenon DEF DownloadInv, PlaceInv
<1>11. MeetInv'
  BY <1>1, <1>2, <1>3, <1>7, Zenon DEF DownloadInv, MeetInv, NoStreams, LeftWell, k
<1>12. StatusIsOwn'
  BY <1>1, <1>2, Zenon DEF DownloadInv, StatusIsOwn
<1> QED BY <1>8, <1>9, <1>10, <1>11, <1>12, Zenon DEF DownloadInv

\* The module has taken the name of the file, or the end of them.
LEMMA StreamNextInv ==
    ASSUME DownloadInv, HandleStreamNextChannel
    PROVE  DownloadInv'
<1> DEFINE err == streamNext.st = "err" /\ d.downloader # "mender"
<1>1. /\ loop.pc = "select" /\ streamNext.st \in {"ok", "err"} /\ streamNext' = NoStream
      /\ d' = IF d.downloader = "unknown" /\ ~err THEN [d EXCEPT !.downloader = "module"] ELSE d
      /\ stream' = IF err \/ d.downloader = "mender" \/ d.finishFlag THEN stream
                   ELSE Started(d.current, "streams")
      /\ EndIteration(d', err)
      /\ UNCHANGED <<client, module, copied>>
  BY Zenon DEF HandleStreamNextChannel
<1>2. streamNext # NoStream /\ d.downloader # "mender" /\ client.pc \in {"storing", "finish", "finishing"}
  BY <1>1, StreamShape, Zenon DEF DownloadInv, StreamsInv, MeetInv, NoStreams, DownloadTypeOK,
     Clients, Loops, Downloads, Processes
<1>3. /\ d'.current = d.current /\ d'.finishFlag = d.finishFlag /\ d'.proc = d.proc
      /\ d'.downloader = IF d.downloader = "unknown" /\ ~err THEN "module" ELSE d.downloader
      /\ d.current \in 0 .. N
  BY <1>1, Zenon DEF DownloadInv, DownloadTypeOK, Clients, Loops, Downloads, Processes
<1>4. /\ loop' \in Loops
      /\ loop'.err = err
      /\ loop'.pc = IF d.finishFlag /\ ~d.proc THEN "returning" ELSE IF err THEN "reply" ELSE "select"
  BY <1>1, <1>3, IterationEnds, Zenon
<1>5. ~d.finishFlag => stream = NoStream /\ d.current > 0
  BY <1>2, Zenon DEF DownloadInv, StreamsInv
<1>6. DownloadTypeOK'
  <2>1. d' \in Downloads
    BY <1>1, Zenon DEF DownloadInv, DownloadTypeOK, Clients, Loops, Downloads, Processes
  <2>2. stream' \in Streams /\ streamNext' \in Streams
    BY <1>1, <1>3, StreamShape, Zenon DEF DownloadInv, DownloadTypeOK, Clients, Loops, Downloads, Processes
  <2> QED BY <1>1, <1>4, <2>1, <2>2, Zenon DEF DownloadInv, DownloadTypeOK
<1>7. StreamsInv'
  <2>1. CASE stream' = stream
    BY <1>1, <1>2, <1>3, <2>1, StreamShape DEF DownloadInv, StreamsInv
  <2>2. CASE stream' = Started(d.current, "streams") /\ ~err /\ ~d.finishFlag
    <3> DEFINE s == Started(d.current, "streams")
    <3>1. s # NoStream /\ s.st = "opening" /\ s.file = d.current /\ s.to = "streams" /\ NoStream.st = "none"
      BY <1>3, StreamShape, Zenon
    <3>2. d'.downloader = "module"
      BY <1>2, <1>3, <2>2, Zenon DEF DownloadInv, DownloadTypeOK, Clients, Loops, Downloads, Processes
    <3> HIDE DEF s
    <3> QED BY <1>1, <1>3, <1>5, <2>2, <3>1, <3>2, Zenon DEF StreamsInv, s
  <2> QED BY <1>1, <1>2, <2>1, <2>2, Zenon
<1>8. PlaceInv'
  BY <1>1, <1>3, Zenon DEF DownloadInv, PlaceInv, DownloadTypeOK, Clients, Loops, Downloads, Processes
<1>9. MeetInv'
  <2>1. CASE client.pc = "storing"
    BY <1>1, <1>2, <1>3, <1>4, <1>5, <2>1, Zenon DEF DownloadInv, MeetInv, NoStreams, LeftWell
  <2>2. CASE client.pc = "finish"
    BY <1>1, <1>2, <1>3, <1>4, <2>2, Zenon DEF DownloadInv, MeetInv, NoStreams
  <2>3. CASE client.pc = "finishing"
    BY <1>1, <1>2, <1>3, <1>4, <2>3, StreamShape, Zenon DEF DownloadInv, MeetInv, NoStreams, StreamsInv
  <2> QED BY <1>2, <2>1, <2>2, <2>3, Zenon
<1>10. StatusIsOwn'
  BY <1>1, Zenon DEF DownloadInv, StatusIsOwn
<1> QED BY <1>6, <1>7, <1>8, <1>9, <1>10, Zenon DEF DownloadInv

\* The file has been copied, or not.
LEMMA StreamInv ==
    ASSUME DownloadInv, HandleStreamChannel
    PROVE  DownloadInv'
<1>1. /\ loop.pc = "select" /\ stream.st \in {"ok", "err"} /\ stream' = NoStream
      /\ UNCHANGED <<client, d, streamNext, module, copied>>
      /\ stream.st = "ok" => loop' = [pc |-> "reply", err |-> FALSE]
      /\ stream.st = "err" => EndIteration(d, TRUE)
  BY Zenon DEF HandleStreamChannel
<1>2. /\ stream # NoStream /\ stream.file = d.current
      /\ stream.st = "ok" => copied[d.current] # "nowhere"
      /\ client.pc \in {"storing", "finish"} /\ ~d.finishFlag /\ streamNext = NoStream
  BY <1>1, StreamShape, Zenon DEF DownloadInv, StreamsInv, MeetInv, NoStreams, DownloadTypeOK,
     Clients, Loops, Downloads, Processes
<1>3. /\ loop' \in Loops
      /\ loop'.pc = "reply"
      /\ stream.st = "ok" => ~loop'.err
      /\ stream.st = "err" => loop'.err
  <2>1. CASE stream.st = "ok"
    <3>1. loop' = [pc |-> "reply", err |-> FALSE] /\ stream.st # "err"
      BY <1>1, <2>1, Zenon
    <3> QED BY <3>1, Zenon DEF Loops
  <2>2. CASE stream.st = "err"
    BY <1>1, <1>2, <2>2, IterationEnds, Zenon
  <2> QED BY <1>1, <2>1, <2>2, Zenon
<1>4. DownloadTypeOK'
  BY <1>1, <1>3, StreamShape, Zenon DEF DownloadInv, DownloadTypeOK
<1>5. StreamsInv'
  BY <1>1, <1>2, Zenon DEF DownloadInv, StreamsInv
<1>6. PlaceInv'
  BY <1>1, Zenon DEF DownloadInv, PlaceInv
<1>7. MeetInv'
  BY <1>1, <1>2, <1>3, Zenon DEF DownloadInv, MeetInv, NoStreams, LeftWell
<1>8. StatusIsOwn'
  BY <1>1, Zenon DEF DownloadInv, StatusIsOwn
<1> QED BY <1>4, <1>5, <1>6, <1>7, <1>8, Zenon DEF DownloadInv

\* The end of the files.
LEMMA FinishInv ==
    ASSUME DownloadInv, HandleFinishChannel
    PROVE  DownloadInv'
<1>1. /\ loop.pc = "select" /\ client.pc = "finish"
      /\ client' = [client EXCEPT !.pc = "finishing"] /\ d' = [d EXCEPT !.finishFlag = TRUE]
      /\ streamNext' = IF d.downloader = "mender" THEN streamNext ELSE Started(0, "stream-next")
      /\ EndIteration(d', FALSE)
      /\ UNCHANGED <<stream, module, copied>>
  BY Zenon DEF HandleFinishChannel, Publish
<1>2. /\ client'.pc = "finishing" /\ client'.stored = client.stored /\ client'.err = client.err
      /\ d'.current = d.current /\ d'.downloader = d.downloader /\ d'.finishFlag /\ d'.proc = d.proc
  BY <1>1, Zenon DEF DownloadInv, DownloadTypeOK, Clients, Loops, Downloads, Processes
<1>3. /\ loop' \in Loops
      /\ loop'.pc = (IF d.proc THEN "select" ELSE "returning") /\ ~loop'.err
  BY <1>1, <1>2, IterationEnds, Zenon
<1>4. streamNext' \in Streams /\ streamNext'.file = 0 /\ streamNext'.st # "err"
  <2>1. CASE d.downloader = "mender"
    BY <1>1, <2>1, StreamShape, Zenon DEF DownloadInv, StreamsInv
  <2>2. CASE d.downloader # "mender"
    BY <1>1, <2>2, StreamShape, ModuleDownloadAssumption
  <2> QED BY <2>1, <2>2, Zenon
<1>5. DownloadTypeOK'
  <2>1. client' \in Clients
    BY <1>1, Zenon DEF DownloadInv, DownloadTypeOK, Clients, Loops, Downloads, Processes
  <2>2. d' \in Downloads
    BY <1>1, Zenon DEF DownloadInv, DownloadTypeOK, Clients, Loops, Downloads, Processes
  <2> QED BY <1>1, <1>3, <1>4, <2>1, <2>2, Zenon DEF DownloadInv, DownloadTypeOK
<1>6. StreamsInv'
  BY <1>1, <1>2, <1>4, StreamShape, ModuleDownloadAssumption DEF DownloadInv, StreamsInv
<1>7. PlaceInv'
  BY <1>1, <1>2, Zenon DEF DownloadInv, PlaceInv
<1>8. MeetInv'
  BY <1>1, <1>2, <1>3, <1>4, Zenon DEF DownloadInv, MeetInv, NoStreams, LeftWell
<1>9. StatusIsOwn'
  BY <1>1, <1>2, Zenon DEF DownloadInv, StatusIsOwn
<1> QED BY <1>5, <1>6, <1>7, <1>8, <1>9, Zenon DEF DownloadInv

\* A status is received.
LEMMA StatusInv ==
    ASSUME DownloadInv, SendStatus
    PROVE  DownloadInv'
<1>1. /\ loop.pc \in {"reply", "final"} /\ Waiting /\ StatusReceived(loop.err)
      /\ loop' = [pc |-> IF loop.pc = "final" THEN "ended"
                         ELSE IF d.finishFlag /\ ~d.proc THEN "returning" ELSE "select",
                  err |-> FALSE]
      /\ UNCHANGED <<d, streamNext, stream, module, copied>>
  BY Zenon DEF SendStatus
<1>2. loop' \in Loops
  BY <1>1, Zenon DEF Loops
<1>3. StreamsInv' /\ PlaceInv'
  BY <1>1, Zenon DEF DownloadInv, StreamsInv, PlaceInv
<1>4. CASE client.pc = "storing" /\ loop.err
  <2>1. client' = [client EXCEPT !.pc = "finish", !.err = TRUE]
    BY <1>1, <1>4, Zenon DEF StatusReceived
  <2>2. client'.pc = "finish" /\ client'.err /\ client'.stored = client.stored
    BY <2>1, Zenon DEF DownloadInv, DownloadTypeOK, Clients, Loops, Downloads, Processes
  <2>3. loop.pc = "reply" /\ ~d.finishFlag /\ loop'.pc = "select" /\ (NoStreams \/ ~d.proc)
    BY <1>1, <1>4, Zenon DEF DownloadInv, MeetInv
  <2>4. DownloadTypeOK'
    BY <1>1, <1>2, <2>1, Zenon DEF DownloadInv, DownloadTypeOK, Clients, Loops, Downloads, Processes
  <2>5. MeetInv'
    BY <1>1, <1>4, <2>2, <2>3, Zenon DEF DownloadInv, MeetInv, NoStreams
  <2>6. StatusIsOwn'
    BY <1>1, <2>2, Zenon DEF DownloadInv, StatusIsOwn
  <2> QED BY <1>3, <2>4, <2>5, <2>6, Zenon DEF DownloadInv
<1>5. CASE client.pc = "storing" /\ ~loop.err
  <2>1. client' = [client EXCEPT !.pc = "store", !.stored = @ + 1]
    BY <1>1, <1>5, Zenon DEF StatusReceived
  <2>2. client'.pc = "store" /\ client'.err = client.err /\ client'.stored = client.stored + 1
    BY <2>1, Zenon DEF DownloadInv, DownloadTypeOK, Clients, Loops, Downloads, Processes
  <2>3. /\ loop.pc = "reply" /\ ~d.finishFlag /\ loop'.pc = "select" /\ NoStreams
        /\ d.current = client.stored + 1 /\ copied[d.current] # "nowhere" /\ client.stored < N
        /\ ~client.err /\ (~d.proc => LeftWell)
    BY <1>1, <1>5, Zenon DEF DownloadInv, MeetInv
  <2>4. client.stored \in 0 .. N /\ client.stored + 1 \in 0 .. N
    BY <2>3, ModuleDownloadAssumption, Zenon DEF DownloadInv, DownloadTypeOK, Clients, Loops, Downloads, Processes
  <2>5. DownloadTypeOK'
    <3>1. client' \in Clients
      BY <2>1, <2>4, Zenon DEF DownloadInv, DownloadTypeOK, Clients, Loops, Downloads, Processes
    <3> QED BY <1>1, <1>2, <3>1, Zenon DEF DownloadInv, DownloadTypeOK
  <2>6. MeetInv'
    BY <1>1, <1>5, <2>2, <2>3, Zenon DEF DownloadInv, MeetInv, NoStreams, LeftWell
  <2>7. StatusIsOwn'
    <3> SUFFICES ASSUME NEW f \in 1 .. client.stored + 1 PROVE copied[f] # "nowhere"
      BY <1>1, <2>2, Zenon DEF StatusIsOwn
    <3>1. f \in 1 .. client.stored \/ f = client.stored + 1
      BY <2>4
    <3> QED BY <2>3, <3>1, Zenon DEF DownloadInv, StatusIsOwn
  <2> QED BY <1>3, <2>5, <2>6, <2>7, Zenon DEF DownloadInv
<1>6. CASE client.pc = "finishing"
  <2>1. client' = [client EXCEPT !.pc = "done", !.err = @ \/ loop.err]
    BY <1>1, <1>6, Zenon DEF StatusReceived
  <2>2. client'.pc = "done" /\ client'.err = (client.err \/ loop.err) /\ client'.stored = client.stored
    BY <2>1, Zenon DEF DownloadInv, DownloadTypeOK, Clients, Loops, Downloads, Processes
  <2>3. /\ loop.pc = "final" /\ loop'.pc = "ended" /\ NoStreams /\ ~d.proc /\ module.pc = "exited"
        /\ ~client.err => client.stored = N /\ (~loop.err => ~module.err)
    BY <1>1, <1>6, Zenon DEF DownloadInv, MeetInv
  <2>4. DownloadTypeOK'
    <3>1. client' \in Clients
      BY <2>1, Zenon DEF DownloadInv, DownloadTypeOK, Clients, Loops, Downloads, Processes
    <3> QED BY <1>1, <1>2, <3>1, Zenon DEF DownloadInv, DownloadTypeOK
  <2>5. MeetInv'
    BY <1>1, <1>6, <2>2, <2>3, Zenon DEF MeetInv, NoStreams
  <2>6. StatusIsOwn'
    BY <1>1, <2>2, Zenon DEF DownloadInv, StatusIsOwn
  <2> QED BY <1>3, <2>4, <2>5, <2>6, Zenon DEF DownloadInv
<1> QED BY <1>1, <1>4, <1>5, <1>6, Zenon DEF Waiting

\* The loop gives up its streams.
LEMMA CancelInv ==
    ASSUME DownloadInv, CancelStreams
    PROVE  DownloadInv'
<1>1. /\ loop.pc = "returning" /\ streamNext' = NoStream /\ stream' = NoStream
      /\ loop' = [loop EXCEPT !.pc = "final"] /\ UNCHANGED <<client, d, module, copied>>
  BY Zenon DEF CancelStreams
<1>2. loop'.pc = "final" /\ loop'.err = loop.err
  BY <1>1, Zenon DEF DownloadInv, DownloadTypeOK, Clients, Loops, Downloads, Processes
<1>3. DownloadTypeOK'
  <2>1. loop' \in Loops
    BY <1>1, Zenon DEF DownloadInv, DownloadTypeOK, Loops
  <2> QED BY <1>1, <2>1, StreamShape, Zenon DEF DownloadInv, DownloadTypeOK
<1>4. StreamsInv' /\ PlaceInv' /\ StatusIsOwn'
  BY <1>1, StreamShape, Zenon DEF DownloadInv, StreamsInv, PlaceInv, StatusIsOwn
<1>5. client.pc = "finishing"
  BY <1>1, Zenon DEF DownloadInv, DownloadTypeOK, Clients, Loops, Downloads, Processes, MeetInv
<1>6. MeetInv'
  BY <1>1, <1>2, <1>5, StreamShape, Zenon DEF DownloadInv, MeetInv, NoStreams
<1> QED BY <1>3, <1>4, <1>6, Zenon DEF DownloadInv

\* The goroutine on stream-next gets on; so does the module that reads it.
LEMMA NextStreamMoves ==
    ASSUME DownloadInv, streamNext.st \in {"opening", "writing"},
           NEW t \in {"writing", "ok", "err"}, streamNext' = [streamNext EXCEPT !.st = t],
           t = "err" => streamNext.file # 0,
           UNCHANGED <<client, loop, d, stream, copied>>,
           module' \in Processes,
           module' = module \/ (Running /\ Running')
    PROVE  DownloadInv'
<1>1. /\ streamNext' \in Streams /\ streamNext' # NoStream /\ streamNext'.st = t
      /\ streamNext'.file = streamNext.file /\ streamNext # NoStream
  <2>1. streamNext \in Streams /\ t \in {"opening", "writing", "ok", "err"}
    BY Zenon DEF DownloadInv, DownloadTypeOK
  <2>2. streamNext # NoStream
    BY StreamShape, Zenon
  <2> QED BY <2>1, <2>2, StreamMoves
<1>2. DownloadTypeOK'
  BY <1>1, Zenon DEF DownloadInv, DownloadTypeOK
<1>3. StreamsInv' /\ PlaceInv' /\ StatusIsOwn'
  BY <1>1, Zenon DEF DownloadInv, StreamsInv, PlaceInv, StatusIsOwn
<1>4. MeetInv'
  BY <1>1, Zenon DEF DownloadInv, MeetInv, NoStreams, LeftWell, Running
<1> QED BY <1>2, <1>3, <1>4, Zenon DEF DownloadInv

\* The goroutine that copies gets on.
LEMMA CopyMoves ==
    ASSUME DownloadInv, stream.st \in {"opening", "writing"},
           NEW t \in {"writing", "ok", "err"}, stream' = [stream EXCEPT !.st = t],
           UNCHANGED <<client, loop, d, streamNext>>,
           IF t = "ok"
           THEN copied' = [copied EXCEPT ![stream.file] = IF stream.to = "files" THEN "files" ELSE "module"]
           ELSE UNCHANGED copied,
           module' \in Processes,
           module' = module \/ (Running /\ Running')
    PROVE  DownloadInv'
<1>1. /\ stream' \in Streams /\ stream' # NoStream /\ stream'.st = t /\ stream'.to = stream.to
      /\ stream'.file = stream.file /\ stream # NoStream
  <2>1. stream \in Streams /\ t \in {"opening", "writing", "ok", "err"}
    BY Zenon DEF DownloadInv, DownloadTypeOK
  <2>2. stream # NoStream
    BY StreamShape, Zenon
  <2> QED BY <2>1, <2>2, StreamMoves
<1>2. stream.file = d.current /\ d.current \in Files
  <2>1. d.current \in 0 .. N
    BY Zenon DEF DownloadInv, DownloadTypeOK, Downloads
  <2>2. stream.file = d.current /\ d.current > 0
    BY <1>1, Zenon DEF DownloadInv, StreamsInv
  <2> QED BY <2>1, <2>2, ModuleDownloadAssumption DEF Files
<1>3. /\ d.downloader \in {"module", "mender"}
      /\ stream.to = IF d.downloader = "mender" THEN "files" ELSE "streams"
  BY <1>1, Zenon DEF DownloadInv, StreamsInv, DownloadTypeOK, Downloads
<1>4. /\ copied' \in [Files -> {"nowhere", "module", "files"}]
      /\ \A f \in Files : f # d.current => copied'[f] = copied[f]
      /\ t # "ok" => copied' = copied
      /\ t = "ok" => copied'[d.current] = IF d.downloader = "mender" THEN "files" ELSE "module"
  BY <1>2, <1>3, Zenon DEF DownloadInv, DownloadTypeOK
<1>5. \A f \in Files : copied[f] # "nowhere" => copied'[f] # "nowhere"
  BY <1>2, <1>4, Zenon
<1>6. DownloadTypeOK'
  BY <1>1, <1>4, Zenon DEF DownloadInv, DownloadTypeOK
<1>7. StreamsInv'
  BY <1>1, <1>2, <1>3, <1>4, Zenon DEF DownloadInv, StreamsInv
<1>8. PlaceInv'
  BY <1>2, <1>3, <1>4, Zenon DEF DownloadInv, PlaceInv
<1>9. StatusIsOwn'
  <2>1. client.stored \in 0 .. N
    BY Zenon DEF DownloadInv, DownloadTypeOK, Clients
  <2>2. \A f \in 1 .. client.stored : f \in Files
    BY <2>1, ModuleDownloadAssumption DEF Files
  <2> QED BY <1>5, <2>2, Zenon DEF DownloadInv, StatusIsOwn
<1>10. MeetInv'
  BY <1>1, <1>2, <1>5, Zenon DEF DownloadInv, MeetInv, NoStreams, LeftWell, Running
<1> QED BY <1>6, <1>7, <1>8, <1>9, <1>10, Zenon DEF DownloadInv

\* The process gets on, or ends.
LEMMA ProcessMoves ==
    ASSUME DownloadInv, UNCHANGED <<client, loop, d, stream, streamNext, copied>>,
           module' \in Processes,
           module' = module \/ (Running /\ module'.pc # "off")
    PROVE  DownloadInv'
<1>1. DownloadTypeOK'
  BY Zenon DEF DownloadInv, DownloadTypeOK
<1>2. StreamsInv' /\ PlaceInv' /\ StatusIsOwn'
  BY Zenon DEF DownloadInv, StreamsInv, PlaceInv, StatusIsOwn
<1>3. MeetInv'
  BY Zenon DEF DownloadInv, MeetInv, NoStreams, LeftWell, Running
<1> QED BY <1>1, <1>2, <1>3, Zenon DEF DownloadInv

\* The goroutines and the process of the module.
LEMMA OthersInv ==
    ASSUME DownloadInv,
           Goroutines \/ ModuleOpens \/ ModuleCloses \/ ModuleExits \/ Terminate \/ Kill
    PROVE  DownloadInv'
<1>1. module \in Processes
  BY Zenon DEF DownloadInv, DownloadTypeOK
<1>2. CASE WriteStreamNext
  BY <1>1, <1>2, NextStreamMoves, Zenon DEF WriteStreamNext
<1>3. CASE CreateFile
  BY <1>1, <1>3, CopyMoves, Zenon DEF CreateFile
<1>4. CASE CopyEnds
  BY <1>1, <1>4, CopyMoves, Zenon DEF CopyEnds
<1>5. CASE FinalizeStray
  BY <1>1, <1>5, ProcessMoves, Zenon DEF FinalizeStray
<1>6. CASE ModuleOpens
  <2>1. ASSUME \/ module' = [module EXCEPT !.pc = "reads next"]
               \/ module' = [module EXCEPT !.pc = "reads stream"]
        PROVE  /\ module' \in Processes
               /\ Running /\ Running'
    BY <1>1, <1>6, <2>1, Zenon DEF Running, ModuleOpens, Processes
  <2> QED BY <1>6, <2>1, NextStreamMoves, CopyMoves, Zenon DEF ModuleOpens
<1>7. CASE ModuleCloses
  <2>1. module' \in Processes /\ module'.pc # "off" /\ Running
    BY <1>1, <1>7, Zenon DEF ModuleCloses, Running, Processes
  <2> QED BY <1>7, <2>1, ProcessMoves, Zenon DEF ModuleCloses
<1>8. CASE ModuleExits
  <2>1. module' \in Processes /\ module'.pc # "off" /\ Running
    BY <1>8 DEF ModuleExits, Processes
  <2> QED BY <1>8, <2>1, ProcessMoves, Zenon DEF ModuleExits
<1>9. CASE Terminate \/ Kill
  <2>1. module' = module \/ (Running /\ module' = [pc |-> "exited", err |-> TRUE])
    BY <1>9, Zenon DEF Terminate, Kill
  <2>2. module' \in Processes /\ (module' = module \/ (Running /\ module'.pc # "off"))
    <3>1. CASE module' = module
      BY <1>1, <3>1, Zenon
    <3>2. CASE Running /\ module' = [pc |-> "exited", err |-> TRUE]
      BY <3>2, Zenon DEF Processes
    <3> QED BY <2>1, <3>1, <3>2, Zenon
  <2> QED BY <1>9, <2>2, ProcessMoves, Zenon DEF Terminate, Kill
<1> QED BY <1>2, <1>3, <1>4, <1>5, <1>6, <1>7, <1>8, <1>9, Zenon DEF Goroutines

\* Every step of the download.
LEMMA DownloadNextInv ==
    ASSUME DownloadInv, DownloadNext
    PROVE  DownloadInv'
BY PrepareInv, AllStoredInv, CmdErrInv, NextFileInv, StreamNextInv, StreamInv, FinishInv, StatusInv,
   CancelInv, OthersInv, Zenon DEF DownloadNext, Handle

------------------------------------------------------------------------------
(* The module through the update.                                          *)

\* Nothing of the download changes.
LEMMA DownloadStill ==
    ASSUME DownloadInv, UNCHANGED downloadVars
    PROVE  DownloadInv'
<1>1. UNCHANGED <<client, loop, d, streamNext, stream, module, copied>>
  BY Zenon DEF downloadVars
<1>2. DownloadTypeOK'
  BY <1>1, Zenon DEF DownloadInv, DownloadTypeOK
<1>3. StreamsInv' /\ PlaceInv' /\ StatusIsOwn'
  BY <1>1, Zenon DEF DownloadInv, StreamsInv, PlaceInv, StatusIsOwn
<1>4. MeetInv'
  BY <1>1, Zenon DEF DownloadInv, MeetInv, NoStreams, LeftWell
<1> QED BY <1>2, <1>3, <1>4, Zenon DEF DownloadInv

\* Where the steps of the download take the client and the process.
LEMMA ClientSteps ==
    ASSUME DownloadInv, DownloadNext
    PROVE  /\ client.pc = "done" => client'.pc = "done"
           /\ client.pc = "prepare" /\ ~PrepareStoreUpdate => client' = client
           /\ client.pc # "prepare" => client'.pc # "prepare"
           /\ module.pc = "off" /\ ~PrepareStoreUpdate => module'.pc = "off"
<1>1. client \in Clients /\ module \in Processes
  BY Zenon DEF DownloadInv, DownloadTypeOK
<1>2. CASE PrepareStoreUpdate
  BY <1>1, <1>2, Zenon DEF PrepareStoreUpdate, Clients
<1>3. CASE AllStored
  BY <1>1, <1>3, Zenon DEF AllStored, Clients
<1>4. CASE HandleCmdErr \/ HandleStreamNextChannel \/ HandleStreamChannel \/ CancelStreams
  BY <1>4, Zenon DEF HandleCmdErr, HandleStreamNextChannel, HandleStreamChannel, CancelStreams
<1>5. CASE HandleNextArtifactStream
  BY <1>1, <1>5, Zenon DEF HandleNextArtifactStream, Clients
<1>6. CASE HandleFinishChannel
  BY <1>1, <1>6, Zenon DEF HandleFinishChannel, Clients
<1>7. CASE SendStatus
  <2>1. Waiting /\ StatusReceived(loop.err) /\ UNCHANGED module
    BY <1>7, Zenon DEF SendStatus
  <2>2. client.pc \in {"storing", "finishing"} /\ client'.pc \in {"finish", "store", "done"}
    BY <1>1, <2>1, Zenon DEF Waiting, StatusReceived, Clients
  <2> QED BY <2>1, <2>2, Zenon
<1>8. CASE Goroutines
  BY <1>8, Zenon DEF Goroutines, WriteStreamNext, CreateFile, CopyEnds, FinalizeStray
<1>9. CASE ModuleOpens \/ ModuleCloses \/ ModuleExits \/ Terminate \/ Kill
  BY <1>9, Zenon DEF ModuleOpens, ModuleCloses, ModuleExits, Terminate, Kill, Running
<1> QED BY <1>2, <1>3, <1>4, <1>5, <1>6, <1>7, <1>8, <1>9, Zenon DEF DownloadNext, Handle

\* A step of the download in the midst of the update.
LEMMA DownloadStepInv ==
    ASSUME ModuleInv, Download
    PROVE  ModuleInv'
<1>1. /\ DownloadNext /\ (PrepareStoreUpdate => stage = "download")
      /\ invoked' = IF module.pc = "off" /\ module'.pc # "off"
                    THEN [invoked EXCEPT !.download = TRUE] ELSE invoked
      /\ stage' = IF stage = "download" /\ client'.pc = "done"
                  THEN IF client'.err THEN "cleanup" ELSE "idle"
                  ELSE stage
      /\ UNCHANGED <<tree, op, printed, output, answer>>
  BY Zenon DEF Download
<1>2. DownloadInv'
  BY <1>1, DownloadNextInv, Zenon DEF ModuleInv
<1>3. /\ client.pc = "done" => client'.pc = "done"
      /\ client.pc = "prepare" /\ stage # "download" => client' = client
      /\ client.pc # "prepare" => client'.pc # "prepare"
      /\ module.pc = "off" /\ stage # "download" => module'.pc = "off"
  BY <1>1, ClientSteps, Zenon DEF ModuleInv
<1>4. StageInv'
  <2>1. invoked' \in Invocations /\ Accounted(invoked') = Accounted(invoked)
    BY <1>1, Zenon DEF ModuleInv, StageInv, Invocations, Accounted
  <2>2. stage # "download" => invoked' = invoked /\ stage' = stage
    BY <1>1, <1>3, Zenon
  <2>3. CASE stage = "download"
    BY <1>1, <1>3, <2>1, <2>3, Zenon DEF ModuleInv, StageInv
  <2>4. CASE stage # "download"
    BY <1>1, <1>3, <2>1, <2>2, <2>4, Zenon DEF ModuleInv, StageInv
  <2> QED BY <2>3, <2>4, Zenon
<1>5. ReplyInv'
  BY <1>1, Zenon DEF ModuleInv, ReplyInv, ReplyUnderstood, Queries, OneLine, Meant, FirstWord
<1> QED BY <1>2, <1>4, <1>5, Zenon DEF ModuleInv

\* A call of Cleanup is accounted for, whether the module ran or could not be
\* started.
LEMMA CleanupAccounted ==
    ASSUME NEW was \in Invocations,
           NEW now \in {[was EXCEPT !.cleanup = TRUE], [was EXCEPT !.missed = TRUE]}
    PROVE  now \in Invocations /\ Accounted(now)
BY Zenon DEF Invocations, Accounted

\* The tree is built, a call starts, the update ends, Cleanup begins and ends.
LEMMA StagesInv ==
    ASSUME ModuleInv, Initialize \/ UpdateEnds \/ Cleanup \/ CleanupReturns
                        \/ \E s \in Queries \union PlainCalls : CallModule(s)
    PROVE  ModuleInv'
<1>1. UNCHANGED downloadVars /\ UNCHANGED client
  BY Zenon DEF Initialize, UpdateEnds, Cleanup, CleanupReturns, CallModule, downloadVars
<1>2. DownloadInv'
  BY <1>1, DownloadStill, Zenon DEF ModuleInv
<1>3. StageInv'
  <2> DEFINE Unmissed == (stage' = IF tree = "gone" THEN "end" ELSE "cleaning") /\ invoked' = invoked
  <2>1. CASE Initialize
    BY <1>1, <2>1, Zenon DEF Initialize, ModuleInv, StageInv
  <2>2. CASE UpdateEnds \/ (Cleanup /\ Unmissed)
    BY <1>1, <2>2, Zenon DEF UpdateEnds, Cleanup, ModuleInv, StageInv
  <2>3. CASE CleanupReturns \/ (Cleanup /\ ~Unmissed)
    <3>1. invoked' \in {[invoked EXCEPT !.cleanup = TRUE], [invoked EXCEPT !.missed = TRUE]}
      BY <2>3, Zenon DEF CleanupReturns, CleanupCalled, Cleanup
    <3>2. stage \in {"cleanup", "cleaning"} /\ stage' = "end"
      BY <2>3, Zenon DEF CleanupReturns, Cleanup
    <3> QED BY <1>1, <3>1, <3>2, CleanupAccounted, Zenon DEF ModuleInv, StageInv
  <2>4. CASE \E s \in Queries \union PlainCalls : CallModule(s)
    BY <1>1, <2>4, Zenon DEF CallModule, ModuleInv, StageInv
  <2> QED BY <2>1, <2>2, <2>3, <2>4, Zenon
<1>4. ReplyInv'
  <2>1. CASE Initialize \/ UpdateEnds \/ Cleanup \/ CleanupReturns
    BY <2>1, Zenon DEF Initialize, UpdateEnds, Cleanup, CleanupReturns, ModuleInv, ReplyInv, ReplyUnderstood
  <2>2. CASE \E s \in Queries \union PlainCalls : CallModule(s)
    <3>1. stage' = "call" /\ printed' = <<>> /\ output' = <<>>
      BY <2>2, Zenon DEF CallModule
    <3> QED BY <3>1 DEF ReplyInv, ReplyUnderstood, FirstWord
  <2> QED BY <2>1, <2>2, Zenon
<1> QED BY <1>2, <1>3, <1>4, Zenon DEF ModuleInv

\* The device reboots.
LEMMA RebootInv ==
    ASSUME ModuleInv, Reboot
    PROVE  ModuleInv'
<1>1. /\ stage # "end" /\ stage' = "cleanup" /\ UNCHANGED <<d, copied, op, printed, output, answer>>
      /\ client' = [client EXCEPT !.pc = "done", !.err = TRUE]
      /\ loop' = [pc |-> "ended", err |-> FALSE] /\ module' = [pc |-> "exited", err |-> TRUE]
      /\ streamNext' = NoStream /\ stream' = NoStream
      /\ \E left \in TreeAfterReboot : tree' = left[1] /\ invoked' = left[2]
  BY Zenon DEF Reboot
<1>2. client' \in Clients /\ client'.pc = "done" /\ client'.err /\ client'.stored = client.stored
  BY <1>1, Zenon DEF ModuleInv, DownloadInv, DownloadTypeOK, Clients
<1>3. loop' \in Loops /\ loop'.pc = "ended" /\ module' \in Processes /\ module'.pc = "exited"
  BY <1>1, Zenon DEF Loops, Processes
<1>4. DownloadInv'
  <2>1. DownloadTypeOK'
    BY <1>1, <1>2, <1>3, StreamShape, Zenon DEF ModuleInv, DownloadInv, DownloadTypeOK
  <2>2. StreamsInv' /\ StatusIsOwn'
    BY <1>1, <1>2, StreamShape DEF ModuleInv, DownloadInv, StreamsInv, StatusIsOwn
  <2>4. PlaceInv'
    BY <1>1, Zenon DEF ModuleInv, DownloadInv, PlaceInv
  <2>3. MeetInv'
    BY <1>1, <1>2, <1>3, Zenon DEF MeetInv, NoStreams
  <2> QED BY <2>1, <2>2, <2>3, <2>4, Zenon DEF DownloadInv
<1>5. /\ invoked' \in Invocations
      /\ invoked'.download /\ ~Accounted(invoked') => tree' # "gone"
  <2>1. invoked \in Invocations
    BY Zenon DEF ModuleInv, StageInv
  <2>2. CASE stage = "initialize"
    <3>1. invoked' = invoked /\ ~invoked.download
      BY <1>1, <2>2 DEF TreeAfterReboot, ModuleInv, StageInv
    <3> QED BY <2>1, <3>1, Zenon
  <2>3. CASE stage = "cleaning"
    <3>1. \/ tree' = tree /\ invoked' = invoked
          \/ invoked' \in CleanupCalled
      <4>1. PICK left \in TreeAfterReboot : tree' = left[1] /\ invoked' = left[2]
        BY <1>1, Zenon
      <4>2. \/ left = <<tree, invoked>>
            \/ left \in {"gone", "partial"} \X CleanupCalled
        BY <2>3, <4>1 DEF TreeAfterReboot
      <4> QED BY <4>1, <4>2
    <3>2. CASE invoked' \in CleanupCalled
      <4>1. invoked' \in {[invoked EXCEPT !.cleanup = TRUE], [invoked EXCEPT !.missed = TRUE]}
        BY <3>2, Zenon DEF CleanupCalled
      <4> QED BY <2>1, <4>1, CleanupAccounted, Zenon
    <3> QED BY <2>1, <3>1, <3>2, Zenon DEF ModuleInv, StageInv
  <2>4. CASE stage \notin {"initialize", "cleaning"}
    <3>1. tree' = tree /\ invoked' = invoked
      BY <1>1, <2>4 DEF TreeAfterReboot
    <3> QED BY <2>1, <3>1, Zenon DEF ModuleInv, StageInv
  <2> QED BY <2>2, <2>3, <2>4, Zenon
<1>6. StageInv'
  BY <1>1, <1>2, <1>5, Zenon DEF StageInv
<1>7. ReplyInv'
  BY <1>1, Zenon DEF ModuleInv, ReplyInv, ReplyUnderstood
<1> QED BY <1>4, <1>6, <1>7, Zenon DEF ModuleInv

------------------------------------------------------------------------------
(* The reply.                                                              *)

\* The first word of a text is a text.
LEMMA FirstWordIsText ==
    ASSUME NEW text \in Seq(Words \union {Newline})
    PROVE  FirstWord(text) \in Seq(Words \union {Newline})
<1>1. CASE text = <<>> \/ text[1] = Newline
  BY <1>1 DEF FirstWord
<1>2. CASE text # <<>> /\ text[1] # Newline
  <2>1. text[1] \in Words \union {Newline} /\ FirstWord(text) = <<text[1]>>
    BY <1>2 DEF FirstWord
  <2> QED BY <2>1
<1> QED BY <1>1, <1>2, Zenon

\* What TrimRight leaves of a chunk with at most one word, at its start.
LEMMA TrimOneLine ==
    ASSUME NEW n \in Nat \ {0}, NEW chunk \in [1 .. n -> Words \union {Newline}],
           OneLine(chunk)
    PROVE  TrimRight(chunk) = FirstWord(chunk)
<1> DEFINE words == {i \in DOMAIN chunk : chunk[i] # Newline}
<1>1. chunk \in Seq(Words \union {Newline}) /\ Len(chunk) = n /\ chunk # <<>> /\ DOMAIN chunk = 1 .. n
  OBVIOUS
<1>2. words \subseteq {1} /\ 1 \in DOMAIN chunk
  BY <1>1 DEF OneLine
<1>3. CASE chunk[1] = Newline
  <2>1. words = {}
    BY <1>2, <1>3, Zenon
  <2>2. TrimRight(chunk) = SubSeq(chunk, 1, 0)
    BY <2>1, Zenon DEF TrimRight
  <2> QED BY <1>1, <1>3, <2>2 DEF FirstWord
<1>4. CASE chunk[1] # Newline
  <2>1. words = {1}
    BY <1>2, <1>4, Zenon
  <2>2. (CHOOSE i \in words : \A j \in words : j <= i) = 1
    BY <2>1
  <2>3. TrimRight(chunk) = SubSeq(chunk, 1, 1)
    BY <2>1, <2>2, Zenon DEF TrimRight
  <2>4. SubSeq(chunk, 1, 1) = <<chunk[1]>>
    <3>1. /\ SubSeq(chunk, 1, 1) \in Seq(Words \union {Newline})
          /\ Len(SubSeq(chunk, 1, 1)) = 1 /\ SubSeq(chunk, 1, 1)[1] = chunk[1]
      BY <1>1, <1>2
    <3>2. chunk[1] \in Words \union {Newline}
      BY <1>1, <1>2, Zenon
    <3>3. <<chunk[1]>> \in Seq(Words \union {Newline}) /\ Len(<<chunk[1]>>) = 1 /\ <<chunk[1]>>[1] = chunk[1]
      BY <3>2
    <3>4. \A i \in 1 .. Len(SubSeq(chunk, 1, 1)) : SubSeq(chunk, 1, 1)[i] = <<chunk[1]>>[i]
      <4>1. ASSUME NEW i \in 1 .. Len(SubSeq(chunk, 1, 1)) PROVE i = 1
        BY <3>1
      <4> QED BY <3>1, <3>3, <4>1, Zenon
    <3> HIDE DEF words
    <3> QED BY ONLY <3>1, <3>3, <3>4, SeqEqual, Zenon
  <2> QED BY <1>1, <1>4, <2>3, <2>4, Zenon DEF FirstWord
<1> QED BY <1>3, <1>4, Zenon

\* What it leaves of a chunk of newlines.
LEMMA TrimNewlines ==
    ASSUME NEW n \in Nat, NEW chunk \in [1 .. n -> Words \union {Newline}],
           \A i \in 1 .. n : chunk[i] = Newline
    PROVE  TrimRight(chunk) = <<>>
<1>1. {i \in DOMAIN chunk : chunk[i] # Newline} = {}
  OBVIOUS
<1>2. TrimRight(chunk) = SubSeq(chunk, 1, 0)
  BY <1>1, Zenon DEF TrimRight
<1> QED BY <1>2

\* The process writes.
LEMMA WriteInv ==
    ASSUME ModuleInv, Write
    PROVE  ModuleInv'
<1>1. PICK n \in 1 .. MaxPrinted - Len(printed) :
        \E chunk \in [1 .. n -> Words \union {Newline}] :
           /\ printed' = printed \o chunk
           /\ output' = IF op \in Queries THEN output \o TrimRight(chunk) ELSE output
  BY Zenon DEF Write
<1>2. PICK chunk \in [1 .. n -> Words \union {Newline}] :
           /\ printed' = printed \o chunk
           /\ output' = IF op \in Queries THEN output \o TrimRight(chunk) ELSE output
  BY <1>1, Zenon
<1>3. stage = "call" /\ UNCHANGED downloadVars /\ UNCHANGED <<stage, tree, op, answer, invoked>>
  BY Zenon DEF Write
<1>4. UNCHANGED client
  BY <1>3, Zenon DEF downloadVars
<1>5. /\ printed \in Seq(Words \union {Newline}) /\ n \in Nat \ {0}
      /\ chunk \in Seq(Words \union {Newline}) /\ Len(chunk) = n
  BY ModuleInstallerAssumption DEF ModuleInv, ReplyInv
<1>6. printed' \in Seq(Words \union {Newline})
  BY <1>2, <1>5
<1>7. ASSUME op \in Queries, OneLine(printed \o chunk)
      PROVE  output \o TrimRight(chunk) = FirstWord(printed \o chunk)
  <2>1. CASE printed = <<>>
    <3>1. printed \o chunk = chunk
      BY <1>5, <2>1
    <3>2. OneLine(printed) /\ FirstWord(printed) = <<>>
      BY <2>1 DEF OneLine, FirstWord
    <3>3. output = <<>>
      BY <1>3, <1>7, <3>2, Zenon DEF ModuleInv, ReplyInv
    <3>4. TrimRight(chunk) = FirstWord(chunk)
      BY <1>5, <1>7, <3>1, TrimOneLine, Zenon
    <3>5. FirstWord(chunk) \in Seq(Words \union {Newline})
      BY <1>5, FirstWordIsText, Zenon
    <3> QED BY <3>1, <3>3, <3>4, <3>5
  <2>2. CASE printed # <<>>
    <3>1. Len(printed) \in Nat \ {0} /\ DOMAIN printed = 1 .. Len(printed)
      BY <1>5, <2>2
    <3>2. /\ DOMAIN (printed \o chunk) = 1 .. Len(printed) + n
          /\ \A i \in 1 .. Len(printed) : (printed \o chunk)[i] = printed[i]
          /\ \A i \in 1 .. n : (printed \o chunk)[Len(printed) + i] = chunk[i]
      BY <1>5, <3>1
    <3>3. \A i \in 1 .. n : chunk[i] = Newline
      <4> SUFFICES ASSUME NEW i \in 1 .. n, chunk[i] # Newline PROVE FALSE
        OBVIOUS
      <4>1. Len(printed) + i \in DOMAIN (printed \o chunk) /\ Len(printed) + i # 1
        BY <1>5, <3>1, <3>2
      <4> QED BY <1>7, <3>2, <4>1, Zenon DEF OneLine
    <3>4. OneLine(printed)
      <4> SUFFICES ASSUME NEW i \in 1 .. Len(printed), printed[i] # Newline PROVE i = 1
        BY <3>1, Zenon DEF OneLine
      <4>1. i \in DOMAIN (printed \o chunk) /\ (printed \o chunk)[i] # Newline
        BY <1>5, <3>1, <3>2
      <4> QED BY <1>7, <4>1, Zenon DEF OneLine
    <3>5. output = FirstWord(printed)
      BY <1>3, <1>7, <3>4, Zenon DEF ModuleInv, ReplyInv
    <3>6. TrimRight(chunk) = <<>>
      BY <1>5, <3>3, TrimNewlines, Zenon
    <3>7. FirstWord(printed) \in Seq(Words \union {Newline})
      BY <1>5, FirstWordIsText, Zenon
    <3>8. FirstWord(printed \o chunk) = FirstWord(printed)
      BY <1>5, <2>2, <3>1, <3>2 DEF FirstWord
    <3> QED BY <3>5, <3>6, <3>7, <3>8
  <2> QED BY <2>1, <2>2, Zenon
<1>8. DownloadInv'
  BY <1>3, DownloadStill, Zenon DEF ModuleInv
<1>9. StageInv'
  BY <1>3, <1>4, Zenon DEF ModuleInv, StageInv
<1>10. ReplyInv'
  BY <1>2, <1>3, <1>6, <1>7, Zenon DEF ReplyInv, ReplyUnderstood
<1> QED BY <1>8, <1>9, <1>10, Zenon DEF ModuleInv

\* NeedsReboot and SupportsRollback read the first word as it was meant.
LEMMA ReplyMeant ==
    ASSUME NEW text \in Seq(Words \union {Newline}), NEW state \in Queries
    PROVE  Reply(state, FirstWord(text)) = Meant(state, text)
<1>1. CASE text = <<>>
  BY <1>1, Zenon DEF Reply, Meant, FirstWord
<1>2. CASE text # <<>> /\ text[1] = Newline
  BY <1>2, Zenon DEF Reply, Meant, FirstWord
<1>3. CASE text # <<>> /\ text[1] # Newline
  <2>1. text[1] \in Words
    BY <1>3
  <2>2. FirstWord(text) = <<text[1]>> /\ FirstWord(text)[1] = text[1] /\ FirstWord(text) # <<>>
    BY <1>3, Zenon DEF FirstWord
  <2> QED BY <1>3, <2>1, <2>2 DEF Reply, Meant, Words, Queries
<1> QED BY <1>1, <1>2, <1>3, Zenon

\* The call returns.
LEMMA CallReturnsInv ==
    ASSUME ModuleInv, CallReturns
    PROVE  ModuleInv'
<1>1. /\ stage = "call" /\ stage' = "idle" /\ answer' \in {Reply(op, output), "failed"}
      /\ UNCHANGED downloadVars /\ UNCHANGED <<tree, op, printed, output, invoked>>
  BY Zenon DEF CallReturns
<1>2. UNCHANGED client
  BY <1>1, Zenon DEF downloadVars
<1>3. DownloadInv'
  BY <1>1, DownloadStill, Zenon DEF ModuleInv
<1>4. StageInv'
  BY <1>1, <1>2, Zenon DEF ModuleInv, StageInv
<1>5. ASSUME op \in Queries, OneLine(printed), answer' # "failed"
      PROVE  answer' = Meant(op, printed)
  <2>1. output = FirstWord(printed) /\ printed \in Seq(Words \union {Newline})
    BY <1>1, <1>5, Zenon DEF ModuleInv, ReplyInv
  <2> QED BY <1>1, <1>5, <2>1, ReplyMeant, Zenon
<1>6. ReplyInv'
  BY <1>1, <1>5, Zenon DEF ModuleInv, ReplyInv, ReplyUnderstood
<1> QED BY <1>3, <1>4, <1>6, Zenon DEF ModuleInv

------------------------------------------------------------------------------
\* ModuleInv is an invariant.
LEMMA SpecModule == ModuleSpec => []ModuleInv
<1>1. ModuleInit => ModuleInv
  <2> SUFFICES ASSUME ModuleInit PROVE ModuleInv
    OBVIOUS
  <2>1. DownloadInv /\ client.pc = "prepare"
    BY DownloadInitInv, Zenon DEF ModuleInit, DownloadInv, MeetInv, DownloadInit
  <2>2. StageInv
    BY <2>1, Zenon DEF ModuleInit, StageInv, Invocations
  <2>3. ReplyInv
    BY DEF ModuleInit, ReplyInv, ReplyUnderstood, Queries
  <2> QED BY <2>1, <2>2, <2>3, Zenon DEF ModuleInv
<1>2. ModuleInv /\ [ModuleNext]_moduleVars => ModuleInv'
  <2> SUFFICES ASSUME ModuleInv, [ModuleNext]_moduleVars PROVE ModuleInv'
    OBVIOUS
  <2>1. CASE Download
    BY <2>1, DownloadStepInv, Zenon
  <2>2. CASE Initialize \/ UpdateEnds \/ Cleanup \/ CleanupReturns
               \/ \E s \in Queries \union PlainCalls : CallModule(s)
    BY <2>2, StagesInv, Zenon
  <2>3. CASE Write
    BY <2>3, WriteInv, Zenon
  <2>4. CASE CallReturns
    BY <2>4, CallReturnsInv, Zenon
  <2>5. CASE Reboot
    BY <2>5, RebootInv, Zenon
  <2>6. CASE CallHeld \/ HolderLetsGo \/ UNCHANGED moduleVars
    <3>1. UNCHANGED downloadVars /\ UNCHANGED client
          /\ UNCHANGED <<stage, tree, op, printed, output, answer, invoked>>
      BY <2>6, Zenon DEF CallHeld, HolderLetsGo, moduleVars, installerVars, downloadVars
    <3>2. DownloadInv'
      BY <3>1, DownloadStill, Zenon DEF ModuleInv
    <3>3. StageInv' /\ ReplyInv'
      BY <3>1, Zenon DEF ModuleInv, StageInv, ReplyInv, ReplyUnderstood
    <3> QED BY <3>2, <3>3, Zenon DEF ModuleInv
  <2> QED BY <2>1, <2>2, <2>3, <2>4, <2>5, <2>6, Zenon DEF ModuleNext
<1> QED BY <1>1, <1>2, PTL DEF ModuleSpec

\* However the module takes its files, stops, exits early or hangs, a download
\* that succeeds stored every file, all of them in the same place, with the
\* process ended well.
THEOREM FilesStoredOneWay == ModuleSpec => []StoredOneWay
<1>1. ModuleInv => StoredOneWay
  <2> SUFFICES ASSUME ModuleInv, client.pc = "done", ~client.err
               PROVE  /\ module.pc = "exited" /\ ~module.err
                      /\ \E place \in {"module", "files"} : \A f \in Files : copied[f] = place
    BY Zenon DEF StoredOneWay
  <2>1. module.pc = "exited" /\ ~module.err /\ client.stored = N
    BY Zenon DEF ModuleInv, DownloadInv, MeetInv, LeftWell
  <2>2. \A f \in Files : copied[f] # "nowhere"
    BY <2>1, Zenon DEF ModuleInv, DownloadInv, StatusIsOwn, Files
  <2>3. PlaceInv
    BY Zenon DEF ModuleInv, DownloadInv
  <2>4. CASE d.downloader = "unknown"
    <3>1. \A f \in Files : copied[f] \in {"nowhere"}
      BY <2>3, <2>4, Zenon DEF PlaceInv
    <3>2. Files = {}
      BY <2>2, <3>1, Zenon
    <3> QED BY <2>1, <3>2, Zenon
  <2>5. CASE d.downloader = "module"
    <3>1. \A f \in Files : copied[f] \in {"nowhere", "module"}
      BY <2>3, <2>5, Zenon DEF PlaceInv
    <3> QED BY <2>1, <2>2, <3>1, Zenon
  <2>6. CASE d.downloader = "mender"
    <3>1. \A f \in Files : copied[f] \in {"nowhere", "files"}
      BY <2>3, <2>6, Zenon DEF PlaceInv
    <3> QED BY <2>1, <2>2, <3>1, Zenon
  <2>7. d.downloader \in {"unknown", "module", "mender"}
    BY Zenon DEF ModuleInv, DownloadInv, DownloadTypeOK, Downloads
  <2> QED BY <2>1, <2>4, <2>5, <2>6, <2>7, Zenon
<1> QED BY <1>1, SpecModule, PTL

\* The nil that downloadStream returns is always the status of its own file.
THEOREM StatusesAreOwn == ModuleSpec => []StatusIsOwn
<1>1. ModuleInv => StatusIsOwn
  BY Zenon DEF ModuleInv, DownloadInv
<1> QED BY <1>1, SpecModule, PTL

\* A goroutine that handleFinishChannel replaced was on stream-next, and the
\* download has failed.
StrayInv ==
    /\ streamNext # NoStream => streamNext.to = "stream-next"
    /\ stray # NoStream => client.err /\ stray.to = "stream-next"

\* Every step of the download keeps it that way.
LEMMA StrayNext ==
    ASSUME DownloadInv, StrayInv, DownloadNext
    PROVE  StrayInv'
<1>1. client \in Clients /\ streamNext \in Streams
  BY Zenon DEF DownloadInv, DownloadTypeOK
<1>2. CASE PrepareStoreUpdate \/ AllStored
  <2>1. UNCHANGED <<streamNext, stray>> /\ (client.err => client'.err)
    BY <1>1, <1>2, Zenon DEF PrepareStoreUpdate, AllStored, Clients
  <2> QED BY <2>1, Zenon DEF StrayInv
<1>3. CASE HandleCmdErr \/ HandleStreamNextChannel \/ HandleStreamChannel \/ CancelStreams
  <2>1. UNCHANGED <<client, stray>> /\ streamNext' \in {streamNext, NoStream}
    BY <1>3, Zenon DEF HandleCmdErr, HandleStreamNextChannel, HandleStreamChannel, CancelStreams
  <2> QED BY <2>1, Zenon DEF StrayInv
<1>4. CASE HandleNextArtifactStream
  <2>1. /\ client' = [client EXCEPT !.pc = "storing"] /\ UNCHANGED stray
        /\ streamNext' \in {streamNext, NoStream, Publish(d'.current)}
    BY <1>4, Zenon DEF HandleNextArtifactStream
  <2>2. client'.err = client.err /\ Publish(d'.current).to = "stream-next"
    BY <1>1, <2>1, Zenon DEF Clients, Publish, Started
  <2> QED BY <2>1, <2>2, Zenon DEF StrayInv
<1>5. CASE HandleFinishChannel
  <2>1. /\ client.pc = "finish" /\ client' = [client EXCEPT !.pc = "finishing"]
        /\ \/ UNCHANGED <<streamNext, stray>>
           \/ streamNext' = Publish(0) /\ stray' = streamNext
    BY <1>5, Zenon DEF HandleFinishChannel
  <2>2. client'.err = client.err /\ Publish(0).to = "stream-next"
    BY <1>1, <2>1, Zenon DEF Clients, Publish, Started
  <2>3. streamNext # NoStream => client.err
    BY <2>1, Zenon DEF DownloadInv, MeetInv, NoStreams
  <2> QED BY <2>1, <2>2, <2>3, Zenon DEF StrayInv
<1>6. CASE SendStatus
  <2>1. Waiting /\ StatusReceived(loop.err) /\ UNCHANGED <<streamNext, stray>>
    BY <1>6, Zenon DEF SendStatus
  <2>2. client.err => client'.err
    BY <1>1, <2>1, Zenon DEF Waiting, StatusReceived, Clients
  <2> QED BY <2>1, <2>2, Zenon DEF StrayInv
<1>7. CASE Goroutines \/ ModuleOpens \/ ModuleCloses \/ ModuleExits \/ Terminate \/ Kill
  <2>1. /\ UNCHANGED client /\ stray' \in {stray, NoStream}
        /\ \/ UNCHANGED streamNext
           \/ /\ streamNext.st \in {"opening", "writing"}
              /\ \E st \in {"writing", "ok", "err"} : streamNext' = [streamNext EXCEPT !.st = st]
    BY <1>7, Zenon DEF Goroutines, WriteStreamNext, CreateFile, CopyEnds, FinalizeStray, ModuleOpens,
       ModuleCloses, ModuleExits, Terminate, Kill
  <2>2. streamNext' # NoStream => streamNext # NoStream /\ streamNext'.to = streamNext.to
    <3>1. CASE UNCHANGED streamNext
      BY <3>1, Zenon
    <3>2. CASE /\ streamNext.st \in {"opening", "writing"}
               /\ \E st \in {"writing", "ok", "err"} : streamNext' = [streamNext EXCEPT !.st = st]
      <4>1. streamNext # NoStream
        BY <3>2, StreamShape, Zenon
      <4> QED BY <1>1, <3>2, <4>1, Zenon DEF Streams
    <3> QED BY <2>1, <3>1, <3>2, Zenon
  <2> QED BY <2>1, <2>2, Zenon DEF StrayInv
<1> QED BY <1>2, <1>3, <1>4, <1>5, <1>6, <1>7, Zenon DEF DownloadNext, Handle

\* The download's process and its goroutines do not outlive StoreUpdate and
\* FinishStoreUpdate, but for one on stream-next that was replaced in a failed
\* download: no later call of the module runs beside them.
THEOREM CallsNeverOverlap == ModuleSpec => []NoOverlap
<1>1. ModuleInv /\ StrayInv => NoOverlap
  BY Zenon DEF ModuleInv, DownloadInv, StageInv, MeetInv, NoStreams, NoOverlap, Running, StrayInv
<1>2. ModuleInit => StrayInv
  BY Zenon DEF ModuleInit, DownloadInit, StrayInv
<1>3. ModuleInv /\ StrayInv /\ [ModuleNext]_moduleVars => StrayInv'
  <2> SUFFICES ASSUME ModuleInv, StrayInv, [ModuleNext]_moduleVars PROVE StrayInv'
    OBVIOUS
  <2>1. CASE Download
    BY <2>1, StrayNext, Zenon DEF Download, ModuleInv
  <2>2. CASE Reboot
    BY <2>2, Zenon DEF Reboot, StrayInv
  <2>3. CASE UNCHANGED downloadVars
    BY <2>3, Zenon DEF downloadVars, StrayInv
  <2>4. Download \/ Reboot \/ UNCHANGED downloadVars
    BY Zenon DEF ModuleNext, moduleVars, Initialize, CallModule, Write, CallHeld, HolderLetsGo, CallReturns,
       UpdateEnds, Cleanup, CleanupReturns
  <2> QED BY <2>1, <2>2, <2>3, <2>4, Zenon
<1>4. ModuleSpec => ModuleInit /\ [][ModuleNext]_moduleVars
  BY PTL DEF ModuleSpec
<1> QED BY <1>1, <1>2, <1>3, <1>4, SpecModule, PTL

\* Once the module was called for Download, the tree is removed and the update
\* ends only after a completed Cleanup call, wherever the device reboots; the
\* exceptions are a module that cannot be started for Cleanup and an os.Stat
\* that fails.
THEOREM CleanupIsRun == ModuleSpec => []CleanupRan
<1>1. ModuleInv => CleanupRan
  BY Zenon DEF ModuleInv, StageInv, CleanupRan, Accounted
<1> QED BY <1>1, SpecModule, PTL

\* A one-line reply is understood as the module wrote it, in however many
\* pieces it arrives.
THEOREM RepliesAreUnderstood == ModuleSpec => []ReplyUnderstood
<1>1. ModuleInv => ReplyUnderstood
  BY Zenon DEF ModuleInv, ReplyInv
<1> QED BY <1>1, SpecModule, PTL

==============================================================================
