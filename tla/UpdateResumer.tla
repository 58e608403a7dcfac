---------------------------- MODULE UpdateResumer ----------------------------
(***************************************************************************)
(* The stream an artifact is downloaded through (client/update_resumer.go) *)
(* and the waiting times between two attempts (GetExponentialBackoffTime   *)
(* in client/client.go).  A connection can break after any byte; Read      *)
(* hides that from its caller by asking the server for the rest.           *)
(*                                                                         *)
(* The server is external.  It may refuse, answer with something that is   *)
(* no part of the artifact, or with a part that starts too early or too    *)
(* late; what it does send are the bytes it says they are.                 *)
(***************************************************************************)
EXTENDS Naturals, Sequences, FiniteSets

CONSTANTS
    ContentLength,      \* bytes of the artifact
    BufSizes,           \* lengths of the caller's buffer
    MaxWaits            \* values of maxWait, in minutes

ASSUME ResumerAssumption ==
    /\ ContentLength \in Nat \ {0}
    /\ BufSizes \subseteq Nat \ {0}
    /\ MaxWaits \subseteq Nat

VARIABLES
    rpc,            \* where Read is
    stream,         \* position in the artifact of what h.stream sends next
    offset,
    origOffset,     \* offset at the start of this Read
    buf,            \* the caller's buffer, as far as it was filled
    bufLen,         \* its length
    retryAttempts,
    maxWait,
    received,       \* all that the calls of Read returned
    readErr         \* the error the last of them returned

resumerVars == <<rpc, stream, offset, origOffset, buf, bufLen, retryAttempts, maxWait,
                 received, readErr>>

Artifact == [i \in 1 .. ContentLength |-> i]
Least(S) == CHOOSE x \in S : \A y \in S : x <= y

ResumerInit ==
    /\ rpc = "idle"
    /\ stream = 0 /\ offset = 0 /\ origOffset = 0
    /\ buf = <<>> /\ bufLen \in BufSizes
    /\ retryAttempts = 0 /\ maxWait \in MaxWaits
    /\ received = <<>> /\ readErr = "nil"

------------------------------------------------------------------------------
(* GetExponentialBackoffTime, in minutes; 0 stands for the error.          *)

\* Mutant: one attempt more at the maximum.
BackoffTimeEager(tried, max) ==
    LET rounds == {i \in 0 .. tried : 3 * i <= tried}
        atMax == {i \in rounds : 2 ^ i >= max}
    IN IF atMax = {} THEN 2 ^ (tried \div 3)
       ELSE IF tried - 3 * Least(atMax) > 3 THEN 0
       ELSE IF max < 1 THEN 1 ELSE max

\* Round i of the loop tries three times with 2^i minutes; the first round
\* that reaches the maximum is the last.
BackoffTime(tried, max) ==
    LET rounds == {i \in 0 .. tried : 3 * i <= tried}
        atMax == {i \in rounds : 2 ^ i >= max}
    IN IF atMax = {} THEN 2 ^ (tried \div 3)
       ELSE IF tried - 3 * Least(atMax) >= 3 THEN 0
       ELSE IF max < 1 THEN 1 ELSE max

------------------------------------------------------------------------------
(* Read                                                                    *)

Reading == rpc \notin {"idle", "ended"}

\* The caller reads on until it gets an error or the end.
ReadCalled ==
    /\ rpc = "idle"
    /\ rpc' = "stream"
    /\ origOffset' = offset /\ buf' = <<>>
    /\ UNCHANGED <<stream, offset, bufLen, retryAttempts, maxWait, received, readErr>>

\* Read returns what has been read since origOffset.
ReadReturns(filled, upTo, err) ==
    /\ received' = received \o SubSeq(filled, 1, upTo - origOffset)
    /\ readErr' = err
    /\ rpc' = IF err = "nil" THEN "idle" ELSE "ended"

\* h.stream.Read(buf[h.offset-origOffset:])
Fill(data) == SubSeq(buf, 1, offset - origOffset) \o data

\* Mutant: every end is taken for the true one.
PassedOnAnyEnd(err, upTo) == err # "broken" \/ upTo <= 0

\* What is not hidden from the caller: success, the end behind the last
\* byte, and whatever comes before the first one.
PassedOn(err, upTo) ==
    err = "nil" \/ upTo <= 0 \/ (err = "eof" /\ upTo >= ContentLength)

\* The connection gives some bytes and nothing else, an early or the true
\* end, or breaks.
StreamRead ==
    /\ rpc = "stream"
    /\ \E n \in 0 .. ContentLength, err \in {"nil", "eof", "broken"} :
         /\ n <= bufLen - (offset - origOffset) /\ n <= ContentLength - stream
         /\ err = "nil" => n > 0 \/ bufLen = offset - origOffset
         /\ LET filled == Fill(SubSeq(Artifact, stream + 1, stream + n))
                upTo == offset + n
            IN /\ offset' = upTo /\ buf' = filled /\ stream' = stream + n
               /\ IF PassedOn(err, upTo)
                  THEN ReadReturns(filled, upTo, err)
                  ELSE rpc' = "retry" /\ UNCHANGED <<received, readErr>>
    /\ UNCHANGED <<origOffset, bufLen, retryAttempts, maxWait>>

\* Mutant: the attempts are not counted.
RetryUncounted ==
    /\ rpc = "retry"
    /\ IF BackoffTime(retryAttempts, maxWait) = 0
       THEN ReadReturns(buf, offset, "gave up")
       ELSE rpc' = "request" /\ UNCHANGED <<received, readErr>>
    /\ UNCHANGED <<stream, offset, origOffset, buf, bufLen, retryAttempts, maxWait>>

\* Waits, or gives up and returns what it has.
Retry ==
    /\ rpc = "retry"
    /\ IF BackoffTime(retryAttempts, maxWait) = 0
       THEN ReadReturns(buf, offset, "gave up") /\ UNCHANGED retryAttempts
       ELSE /\ retryAttempts' = retryAttempts + 1 /\ rpc' = "request"
            /\ UNCHANGED <<received, readErr>>
    /\ UNCHANGED <<stream, offset, origOffset, buf, bufLen, maxWait>>

\* The request fails, or getStreamFromPartialContent refuses the answer:
\* not partial, garbled, of another size.
RequestFails ==
    /\ rpc = "request" /\ rpc' = "retry"
    /\ UNCHANGED <<stream, offset, origOffset, buf, bufLen, retryAttempts, maxWait,
                   received, readErr>>

\* Mutant: what the server sends again is not skipped.
SkippedTo(newOffset) == newOffset

\* io.CopyN(ioutil.Discard, res.Body, h.offset-newOffset)
CatchUp(newOffset) == newOffset + (offset - newOffset)

\* The answer is a part of the artifact.  It must not start late; if it
\* starts early, what was received before is skipped, unless the connection
\* breaks again.
PartialContent ==
    /\ rpc = "request"
    /\ \E newOffset \in 0 .. ContentLength :
         \/ newOffset > offset /\ rpc' = "retry" /\ UNCHANGED stream
         \/ newOffset <= offset /\ stream' = CatchUp(newOffset) /\ rpc' = "stream"
         \/ newOffset < offset /\ rpc' = "retry" /\ UNCHANGED stream
    /\ UNCHANGED <<offset, origOffset, buf, bufLen, retryAttempts, maxWait, received, readErr>>

ResumerStep == StreamRead \/ Retry \/ RequestFails \/ PartialContent

------------------------------------------------------------------------------
(* What has to hold.                                                       *)

\* The caller sees the artifact from its first byte on, no byte twice, none
\* left out, however often the connection broke.
ReceivedIsPrefix ==
    /\ received = SubSeq(Artifact, 1, Len(received))
    /\ ~Reading => Len(received) = offset

\* A regular end is reported only with the whole artifact, or before its
\* first byte.
EofIsComplete == readErr = "eof" => received \in {<<>>, Artifact}

\* "Start with one minute, and try three times, then double interval
\* (maxInterval is maximum) and try again.  Repeat until we tried three
\* times with maxInterval": the intervals in order, three attempts each.
Intervals(max) ==
    {IF max < 1 THEN 1 ELSE max} \union {2 ^ i : i \in {j \in 0 .. max : 2 ^ j < max}}

Scheduled(tried, max) ==
    LET round == tried \div 3
    IN IF round >= Cardinality(Intervals(max)) THEN 0
       ELSE CHOOSE w \in Intervals(max) :
                Cardinality({v \in Intervals(max) : v < w}) = round

\* The loop of GetExponentialBackoffTime waits what its comment says, and a
\* download makes no more attempts than that, all its breaks together.
RetriesAsScheduled ==
    /\ BackoffTime(retryAttempts, maxWait) = Scheduled(retryAttempts, maxWait)
    /\ retryAttempts <= 3 * Cardinality(Intervals(maxWait))
==============================================================================
