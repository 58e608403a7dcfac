---------------------------- MODULE ModuleDownload ---------------------------
(***************************************************************************)
(* The Download state of an update module (installer/modules.go): how the  *)
(* client hands the files of a payload to the module, or stores them       *)
(* itself when the module does not want them.                              *)
(*                                                                         *)
(* Five parties run at once.  The client calls StoreUpdate for each file   *)
(* and FinishStoreUpdate at the end; downloadProcessLoop serves it through *)
(* unbuffered channels; a goroutine per open pipe or file copies the data  *)
(* (type stream); the module's process reads the pipes stream-next and     *)
(* streams/NAME as it likes and exits when it likes; delayKiller ends it   *)
(* when it takes too long.  A send on an unbuffered channel is one step    *)
(* with its receive.                                                       *)
(*                                                                         *)
(* stream-next, which buildStreamsTree has just created, can be opened.    *)
(***************************************************************************)
EXTENDS Naturals, FiniteSets

CONSTANTS
    N,              \* files of the payload
    Faults          \* "exec", "mkfifo", "files", "copy", "checksum"

ASSUME ModuleDownloadAssumption ==
    /\ N \in Nat
    /\ Faults \subseteq {"exec", "mkfifo", "files", "copy", "checksum"}

VARIABLES
    client,       \* the caller: where it is, the files it has stored, its error
    loop,         \* downloadProcessLoop: where it is and the error it sends
    d,            \* the status variables of moduleDownload
    streamNext,   \* d.streamNext and its goroutine
    stream,       \* d.stream and its goroutine
    stray,        \* a stream that was started in d.streamNext and overwritten
    module,       \* the process: what it reads, how it exited
    killer,       \* delayKiller
    copied,       \* where each file has been copied to, completely
    holder        \* what the module's last process left behind when it exited:
                  \* nothing, or a process outside of its group, still there or not

downloadVars == <<client, loop, d, streamNext, stream, stray, module, killer, copied>>

Files == 1 .. N

\* type stream: how far it is, which file it copies and where to.
NoStream == [st |-> "none", file |-> 0, to |-> "none"]
Started(file, to) == [st |-> "opening", file |-> file, to |-> to]

DownloadInit ==
    /\ client = [pc |-> "prepare", stored |-> 0, err |-> FALSE]
    /\ loop = [pc |-> "off", err |-> FALSE]
    /\ d = [downloader |-> "unknown", current |-> 0, finishFlag |-> FALSE, proc |-> TRUE]
    /\ streamNext = NoStream /\ stream = NoStream /\ stray = NoStream
    /\ module = [pc |-> "off", err |-> FALSE]
    /\ killer = "off"
    /\ copied = [f \in Files |-> "nowhere"]
    /\ holder = "none"

Running == module.pc \in {"runs", "reads next", "reads stream"}
Waiting == client.pc \in {"storing", "finishing"}

------------------------------------------------------------------------------
(* The client.                                                             *)

\* PrepareStoreUpdate starts the process, the killer and the loop.
PrepareStoreUpdate ==
    /\ client.pc = "prepare"
    /\ \/ /\ client' = [client EXCEPT !.pc = "store"]
          /\ loop' = [loop EXCEPT !.pc = "select"]
          /\ module' = [module EXCEPT !.pc = "runs"]
          /\ killer' = "armed"
       \/ /\ "exec" \in Faults
          /\ client' = [client EXCEPT !.pc = "done", !.err = TRUE]
          /\ UNCHANGED <<loop, module, killer>>
    /\ UNCHANGED <<d, streamNext, stream, stray, copied>>

\* readAndInstall of the artifact's reader calls StoreUpdate for every file of
\* the payload until one fails, or its checksum does, and then
\* FinishStoreUpdate.
AllStored ==
    /\ client.pc = "store"
    /\ \/ client.stored = N /\ client' = [client EXCEPT !.pc = "finish"]
       \/ "checksum" \in Faults /\ client' = [client EXCEPT !.pc = "finish", !.err = TRUE]
    /\ UNCHANGED <<loop, d, streamNext, stream, stray, module, killer, copied>>

\* Mutant: any status the loop sends ends the download stream well.
StatusReceivedOk(err) ==
    CASE client.pc = "storing" ->
           /\ client' = [client EXCEPT !.pc = "store", !.stored = @ + 1]
           /\ UNCHANGED killer
      [] client.pc = "finishing" ->
           /\ client' = [client EXCEPT !.pc = "done", !.err = @ \/ err]
           /\ killer' = "stopped"

\* What the client does with the status it waits for: the end of
\* downloadStream, or of finishDownloadProcess and FinishStoreUpdate.  An
\* error of StoreUpdate outlives the status of FinishStoreUpdate.
StatusReceived(err) ==
    CASE client.pc = "storing" ->
           /\ client' = IF err THEN [client EXCEPT !.pc = "finish", !.err = TRUE]
                        ELSE [client EXCEPT !.pc = "store", !.stored = @ + 1]
           /\ UNCHANGED killer
      [] client.pc = "finishing" ->
           /\ client' = [client EXCEPT !.pc = "done", !.err = @ \/ err]
           /\ killer' = "stopped"

------------------------------------------------------------------------------
(* downloadProcessLoop.                                                    *)

\* Mutant: the loop does not wait for the process.
EndIterationEarly(dNext, err) ==
    loop' = IF dNext.finishFlag
            THEN [pc |-> "returning", err |-> err]
            ELSE [pc |-> IF err THEN "reply" ELSE "select", err |-> err]

\* The end of every iteration: leave once finished and the process is gone,
\* send an error back otherwise.
EndIteration(dNext, err) ==
    loop' = IF dNext.finishFlag /\ ~dNext.proc
            THEN [pc |-> "returning", err |-> err]
            ELSE [pc |-> IF err THEN "reply" ELSE "select", err |-> err]

\* The client stores the file itself.
MenderStream(f) == IF f = 0 THEN NoStream ELSE Started(f, "files")

\* The process has exited.  Without an error and before any file was taken,
\* the module leaves the download to the client.
HandleCmdErr ==
    /\ loop.pc = "select" /\ d.proc /\ module.pc = "exited"
    /\ LET exited == [d EXCEPT !.proc = FALSE]
           switched == [exited EXCEPT !.downloader = "mender"]
       IN \/ /\ module.err \/ d.finishFlag \/ d.downloader = "module"
             /\ LET err == module.err \/ ~d.finishFlag
                IN d' = exited /\ EndIteration(exited, err)
             /\ UNCHANGED <<streamNext, stream>>
          \/ /\ ~module.err /\ ~d.finishFlag /\ d.downloader = "unknown"
             /\ d' = switched
             /\ streamNext' = NoStream
             /\ \/ stream' = MenderStream(d.current) /\ EndIteration(switched, FALSE)
                \/ /\ "files" \in Faults
                   /\ UNCHANGED stream /\ EndIteration(switched, TRUE)
    /\ UNCHANGED <<client, stray, module, killer, copied>>

\* publishNameInStreamNext, started: the name goes into stream-next once its
\* pipe has been made.
Publish(f) == Started(f, "stream-next")

\* downloadStream offers the next file.
HandleNextArtifactStream ==
    /\ loop.pc = "select" /\ client.pc = "store" /\ client.stored < N
    /\ client' = [client EXCEPT !.pc = "storing"]
    /\ d' = [d EXCEPT !.current = client.stored + 1]
    /\ \/ /\ d.downloader = "mender"
          /\ stream' = MenderStream(d'.current)
          /\ EndIteration(d', FALSE)
          /\ UNCHANGED streamNext
       \/ /\ d.downloader # "mender"
          /\ \/ streamNext' = Publish(d'.current) /\ EndIteration(d', FALSE)
             \/ "mkfifo" \in Faults /\ streamNext' = NoStream /\ EndIteration(d', TRUE)
          /\ UNCHANGED stream
    /\ UNCHANGED <<stray, module, killer, copied>>

\* The goroutine on stream-next is done: the module takes the files itself.
HandleStreamNextChannel ==
    /\ loop.pc = "select" /\ streamNext.st \in {"ok", "err"}
    /\ streamNext' = NoStream
    /\ LET err == streamNext.st = "err" /\ d.downloader # "mender"
       IN /\ d' = IF d.downloader = "unknown" /\ ~err
                  THEN [d EXCEPT !.downloader = "module"] ELSE d
          /\ stream' = IF err \/ d.downloader = "mender" \/ d.finishFlag THEN stream
                       ELSE Started(d.current, "streams")
          /\ EndIteration(d', err)
    /\ UNCHANGED <<client, stray, module, killer, copied>>

\* The file has been copied, or not.  Success is sent to the client inside
\* the handler, an error at the end of the iteration.
HandleStreamChannel ==
    /\ loop.pc = "select" /\ stream.st \in {"ok", "err"}
    /\ stream' = NoStream
    /\ IF stream.st = "ok" THEN loop' = [pc |-> "reply", err |-> FALSE]
                           ELSE EndIteration(d, TRUE)
    /\ UNCHANGED <<client, d, streamNext, stray, module, killer, copied>>

\* finishDownloadProcess: there are no more files; an empty line says so.
HandleFinishChannel ==
    /\ loop.pc = "select" /\ client.pc = "finish"
    /\ client' = [client EXCEPT !.pc = "finishing"]
    /\ d' = [d EXCEPT !.finishFlag = TRUE]
    /\ IF d.downloader = "mender" THEN UNCHANGED <<streamNext, stray>>
       ELSE streamNext' = Publish(0) /\ stray' = streamNext
    /\ EndIteration(d', FALSE)
    /\ UNCHANGED <<stream, module, killer, copied>>

\* d.status <- err, from the loop or from detachedDownloadProcess.
SendStatus ==
    /\ loop.pc \in {"reply", "final"} /\ Waiting
    /\ StatusReceived(loop.err)
    /\ loop' = [pc |-> IF loop.pc = "final" THEN "ended"
                       ELSE IF d.finishFlag /\ ~d.proc THEN "returning" ELSE "select",
                err |-> FALSE]
    /\ UNCHANGED <<d, streamNext, stream, stray, module, copied>>

\* The deferred cancels: a goroutine on a pipe is shaken loose, one on a file
\* has to end by itself.
CancelStreams ==
    /\ loop.pc = "returning"
    /\ stream.to = "files" => stream.st \in {"ok", "err"}
    /\ streamNext' = NoStream /\ stream' = NoStream
    /\ loop' = [loop EXCEPT !.pc = "final"]
    /\ UNCHANGED <<client, d, stray, module, killer, copied>>

------------------------------------------------------------------------------
(* The goroutines of stream.start, stream-next first.                      *)

\* Writing a name takes one small write: it fails only when the module is no
\* longer there to read it.
WriteStreamNext ==
    /\ streamNext.st = "writing"
    /\ \/ streamNext' = [streamNext EXCEPT !.st = "ok"]
       \/ /\ streamNext.file # 0 /\ module.pc # "reads next"
          /\ streamNext' = [streamNext EXCEPT !.st = "err"]
    /\ UNCHANGED <<client, loop, d, stream, stray, module, killer, copied>>

\* A file is created in files/.
CreateFile ==
    /\ stream.st = "opening" /\ stream.to = "files"
    /\ \/ stream' = [stream EXCEPT !.st = "writing"]
       \/ "files" \in Faults /\ stream' = [stream EXCEPT !.st = "err"]
    /\ UNCHANGED <<client, loop, d, streamNext, stray, module, killer, copied>>

\* io.Copy ends: all of it is in the file or the pipe, or the artifact could
\* not be read or the file not be written, or the module closed the pipe.
CopyEnds ==
    /\ stream.st = "writing"
    /\ \/ /\ stream' = [stream EXCEPT !.st = "ok"]
          /\ copied' = [copied EXCEPT ![stream.file] =
                            IF stream.to = "files" THEN "files" ELSE "module"]
       \/ /\ "copy" \in Faults \/ (stream.to = "streams" /\ module.pc # "reads stream")
          /\ stream' = [stream EXCEPT !.st = "err"]
          /\ UNCHANGED copied
    /\ UNCHANGED <<client, loop, d, streamNext, stray, module, killer>>

\* The finalizer of a stream nobody refers to any more cancels it.
FinalizeStray ==
    /\ stray # NoStream
    /\ stray' = NoStream
    /\ UNCHANGED <<client, loop, d, streamNext, stream, module, killer, copied>>

------------------------------------------------------------------------------
(* The module's process, external: it does what it likes with the pipes.   *)

ModuleOpens ==
    /\ module.pc = "runs"
    /\ \/ /\ streamNext.st = "opening"
          /\ streamNext' = [streamNext EXCEPT !.st = "writing"]
          /\ module' = [module EXCEPT !.pc = "reads next"]
          /\ UNCHANGED stream
       \/ /\ stream.st = "opening" /\ stream.to = "streams"
          /\ stream' = [stream EXCEPT !.st = "writing"]
          /\ module' = [module EXCEPT !.pc = "reads stream"]
          /\ UNCHANGED streamNext
    /\ UNCHANGED <<client, loop, d, stray, killer, copied>>

\* It closes a pipe at the end, or before.
ModuleCloses ==
    /\ module.pc \in {"reads next", "reads stream"}
    /\ module' = [module EXCEPT !.pc = "runs"]
    /\ UNCHANGED <<client, loop, d, streamNext, stream, stray, killer, copied>>

ModuleExits ==
    /\ Running
    /\ \E e \in BOOLEAN : module' = [pc |-> "exited", err |-> e]
    /\ UNCHANGED <<client, loop, d, streamNext, stream, stray, killer, copied>>

\* delayKiller: SIGTERM, which a process may survive, and then SIGKILL.
Terminate ==
    /\ killer = "armed" /\ killer' = "terminated"
    /\ module' \in {module} \union (IF Running THEN {[pc |-> "exited", err |-> TRUE]} ELSE {})
    /\ UNCHANGED <<client, loop, d, streamNext, stream, stray, copied>>


Kill ==
    /\ killer = "terminated" /\ killer' = "killed"
    /\ module' = IF Running THEN [pc |-> "exited", err |-> TRUE] ELSE module
    /\ UNCHANGED <<client, loop, d, streamNext, stream, stray, copied>>

------------------------------------------------------------------------------
Handle ==
    \/ HandleCmdErr \/ HandleNextArtifactStream \/ HandleStreamNextChannel
    \/ HandleStreamChannel \/ HandleFinishChannel \/ SendStatus \/ CancelStreams

Goroutines == WriteStreamNext \/ CreateFile \/ CopyEnds \/ FinalizeStray

\* Setpgid and kill(-pid): whatever the process started and left in its group
\* is killed with it.  What it moved out of the group can outlive it and hold
\* its output, or one of the pipes, open.
LeavesHolder ==
    holder' \in IF Running /\ module'.pc = "exited" THEN {"none", "left"} ELSE {holder}

DownloadNext ==
    /\ \/ PrepareStoreUpdate \/ AllStored \/ Handle \/ Goroutines
       \/ ModuleOpens \/ ModuleCloses \/ ModuleExits \/ Terminate \/ Kill
    /\ LeavesHolder

------------------------------------------------------------------------------
(* What goes on whatever the module has left.                              *)

\* cmd.Wait returns once nobody holds the output open, which goes through a
\* pipe since Stdout and Stderr are no files; stream.cancel returns once the
\* goroutine is off its pipe.
HandleUnblocked ==
    Handle /\ (holder = "left" => loop.pc # "returning" /\ (d'.proc = d.proc))

\* io.Copy is not stuck on a pipe that somebody holds open.
CopyUnblocked ==
    CopyEnds /\ (stream.to = "streams" => module.pc # "reads stream" /\ holder # "left")
==============================================================================
