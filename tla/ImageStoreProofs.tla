-------------------------- MODULE ImageStoreProofs ---------------------------
(***************************************************************************)
(* The stream hides every break of the connection, a StoreUpdate that      *)
(* returns success has written the image, and none ever writes behind it:  *)
(* whatever the sizes of artifact, image, partition, sector, frame and     *)
(* buffers, and for any number of attempts.                                *)
(***************************************************************************)
EXTENDS ImageStore, SequenceTheorems, TLAPS

------------------------------------------------------------------------------
(* The stream                                                              *)

\* s holds the bytes of the artifact that follow the first n.
Continues(s, n) == s \in Seq(Nat) /\ \A i \in 1 .. Len(s) : s[i] = n + i

\* The buffer continues what was received, and the connection is at the end
\* of the buffer unless it has to be resumed.
ResumerInv ==
    /\ rpc \in {"idle", "stream", "retry", "request", "ended"}
    /\ offset \in 0 .. ContentLength /\ origOffset \in 0 .. offset /\ bufLen \in Nat
    /\ rpc \in {"idle", "stream"} => stream = offset
    /\ Continues(received, 0)
    /\ Len(received) = IF Reading THEN origOffset ELSE offset
    /\ Reading => Continues(buf, origOffset) /\ Len(buf) = offset - origOffset
    /\ readErr = "eof" => rpc = "ended" /\ (offset = 0 \/ offset = ContentLength)

\* The artifact as the sequence of its bytes.
LEMMA ArtifactBytes ==
    /\ Artifact \in Seq(Nat) /\ Len(Artifact) = ContentLength
    /\ \A i \in 1 .. ContentLength : Artifact[i] = i
BY ResumerAssumption DEF Artifact

\* What the connection sends.
LEMMA SentBytes ==
    ASSUME NEW from \in Nat, NEW n \in Nat, from + n <= ContentLength
    PROVE  /\ Continues(SubSeq(Artifact, from + 1, from + n), from)
           /\ Len(SubSeq(Artifact, from + 1, from + n)) = n
<1>1. \A i \in from + 1 .. from + n : Artifact[i] \in Nat /\ Artifact[i] = i
  BY ArtifactBytes, ResumerAssumption
<1>2. /\ SubSeq(Artifact, from + 1, from + n) \in Seq(Nat)
      /\ Len(SubSeq(Artifact, from + 1, from + n)) =
            IF from + 1 <= from + n THEN (from + n) - (from + 1) + 1 ELSE 0
      /\ \A i \in 1 .. (from + n) - (from + 1) + 1 :
            SubSeq(Artifact, from + 1, from + n)[i] = Artifact[from + 1 + i - 1]
  BY <1>1, SubSeqProperties
<1>3. Len(SubSeq(Artifact, from + 1, from + n)) = n
  BY <1>2
<1>4. \A i \in 1 .. n : SubSeq(Artifact, from + 1, from + n)[i] = from + i
  BY <1>1, <1>2
<1> QED BY <1>2, <1>3, <1>4, Zenon DEF Continues

\* A prefix of bytes in order is in order.
LEMMA PrefixContinues ==
    ASSUME NEW s, NEW n \in Nat, Continues(s, n), NEW k \in 0 .. Len(s)
    PROVE  Continues(SubSeq(s, 1, k), n) /\ Len(SubSeq(s, 1, k)) = k
<1>1. Len(s) \in Nat /\ \A i \in 1 .. k : s[i] \in Nat /\ s[i] = n + i
  BY DEF Continues
<1>2. /\ SubSeq(s, 1, k) \in Seq(Nat)
      /\ Len(SubSeq(s, 1, k)) = IF 1 <= k THEN k - 1 + 1 ELSE 0
      /\ \A i \in 1 .. k - 1 + 1 : SubSeq(s, 1, k)[i] = s[1 + i - 1]
  BY <1>1, SubSeqProperties
<1> QED BY <1>1, <1>2 DEF Continues

\* Bytes in order, followed by the bytes that come next.
LEMMA ConcatContinues ==
    ASSUME NEW s, NEW t, NEW n \in Nat, Continues(s, n), Continues(t, n + Len(s))
    PROVE  Continues(s \o t, n) /\ Len(s \o t) = Len(s) + Len(t)
<1>1. s \in Seq(Nat) /\ t \in Seq(Nat) /\ Len(s) \in Nat /\ Len(t) \in Nat
  BY DEF Continues
<1>2. /\ s \o t \in Seq(Nat) /\ Len(s \o t) = Len(s) + Len(t)
      /\ \A i \in 1 .. Len(s) + Len(t) :
            (s \o t)[i] = IF i <= Len(s) THEN s[i] ELSE t[i - Len(s)]
  BY <1>1, ConcatProperties, Zenon
<1>3. ASSUME NEW i \in 1 .. Len(s \o t) PROVE (s \o t)[i] = n + i
  <2>1. CASE i <= Len(s)
    BY <1>1, <1>2, <1>3, <2>1 DEF Continues
  <2>2. CASE i > Len(s)
    <3>1. i - Len(s) \in 1 .. Len(t)
      BY <1>1, <1>2, <2>2
    <3> QED BY <1>1, <1>2, <2>2, <3>1 DEF Continues
  <2> QED BY <1>1, <1>2, <2>1, <2>2
<1> QED BY <1>2, <1>3, Zenon DEF Continues

\* Before the first Read.
LEMMA ResumerInitInv == ImageInit => ResumerInv
BY ResumerAssumption DEF ImageInit, ResumerInit, ResumerInv, Reading, Continues

\* What a Read that returns adds to what was received.
LEMMA ReturnsContinue ==
    ASSUME ResumerInv, Reading, NEW filled, Continues(filled, origOffset), NEW upTo \in Nat,
           Len(filled) = upTo - origOffset, NEW err, ReadReturns(filled, upTo, err)
    PROVE  Continues(received', 0) /\ Len(received') = upTo
<1>1. origOffset \in Nat /\ upTo - origOffset \in 0 .. Len(filled)
  BY ResumerAssumption DEF ResumerInv, Continues
<1>2. /\ Continues(SubSeq(filled, 1, upTo - origOffset), origOffset)
      /\ Len(SubSeq(filled, 1, upTo - origOffset)) = upTo - origOffset
  BY <1>1, PrefixContinues, Zenon
<1>3. Continues(received, 0) /\ Len(received) = origOffset
  BY Zenon DEF ResumerInv
<1>4. /\ Continues(received \o SubSeq(filled, 1, upTo - origOffset), 0)
      /\ Len(received \o SubSeq(filled, 1, upTo - origOffset)) = origOffset + (upTo - origOffset)
  BY <1>1, <1>2, <1>3, ConcatContinues
<1> QED BY <1>1, <1>4 DEF ReadReturns

\* A Read of the connection, whatever it gives and however it ends.
LEMMA StreamReadInv ==
    ASSUME ResumerInv, StreamRead
    PROVE  ResumerInv'
<1>1. PICK n \in 0 .. ContentLength, err \in {"nil", "eof", "broken"} :
        /\ n <= ContentLength - stream
        /\ LET filled == Fill(SubSeq(Artifact, stream + 1, stream + n))
               upTo == offset + n
           IN /\ offset' = upTo /\ buf' = filled /\ stream' = stream + n
              /\ IF PassedOn(err, upTo)
                 THEN ReadReturns(filled, upTo, err)
                 ELSE rpc' = "retry" /\ UNCHANGED <<received, readErr>>
  BY Zenon DEF StreamRead
<1>2. /\ rpc = "stream" /\ Reading /\ stream = offset /\ offset \in Nat /\ origOffset \in 0 .. offset
      /\ UNCHANGED <<origOffset, bufLen>> /\ n \in Nat /\ offset + n <= ContentLength
      /\ Continues(buf, origOffset) /\ Len(buf) = offset - origOffset /\ readErr # "eof"
  BY <1>1, ResumerAssumption DEF StreamRead, ResumerInv, Reading
<1>3. Continues(buf', origOffset) /\ Len(buf') = offset + n - origOffset
  <2>1. /\ Continues(SubSeq(buf, 1, offset - origOffset), origOffset)
        /\ Len(SubSeq(buf, 1, offset - origOffset)) = offset - origOffset
    BY <1>2, PrefixContinues
  <2>2. /\ Continues(SubSeq(Artifact, stream + 1, stream + n), offset)
        /\ Len(SubSeq(Artifact, stream + 1, stream + n)) = n
    BY <1>2, SentBytes, Zenon
  <2>3. origOffset + (offset - origOffset) = offset /\ origOffset \in Nat
    BY <1>2
  <2>4. buf' = SubSeq(buf, 1, offset - origOffset) \o SubSeq(Artifact, stream + 1, stream + n)
    BY <1>1, Zenon DEF Fill
  <2>5. /\ Continues(buf', origOffset)
        /\ Len(buf') = (offset - origOffset) + n
    BY <2>1, <2>2, <2>3, <2>4, ConcatContinues, Zenon
  <2> QED BY <1>2, <2>5
<1>4. CASE ReadReturns(buf', offset + n, err) /\ PassedOn(err, offset + n)
  <2>1. Continues(received', 0) /\ Len(received') = offset + n
    BY <1>2, <1>3, <1>4, ReturnsContinue
  <2> QED
    BY <1>1, <1>2, <1>4, <2>1, ResumerAssumption
    DEF ReadReturns, PassedOn, ResumerInv, Reading
<1>5. CASE rpc' = "retry" /\ UNCHANGED <<received, readErr>>
  BY <1>1, <1>2, <1>3, <1>5, ResumerAssumption DEF ResumerInv, Reading
<1> QED BY <1>1, <1>4, <1>5, Zenon

\* The other steps of Read.
LEMMA ResumerStepInv ==
    ASSUME ResumerInv, ReadCalled \/ ResumerStep
    PROVE  ResumerInv'
<1>1. CASE ReadCalled
  BY <1>1, ResumerAssumption DEF ReadCalled, ResumerInv, Reading, Continues
<1>2. CASE Retry
  <2>1. CASE ReadReturns(buf, offset, "gave up")
    <3>0. rpc = "retry"
      BY <1>2, Zenon DEF Retry
    <3>1. /\ Reading /\ offset \in Nat /\ Continues(buf, origOffset)
          /\ Len(buf) = offset - origOffset
      BY <3>0, ResumerAssumption DEF ResumerInv, Reading
    <3>2. Continues(received', 0) /\ Len(received') = offset
      BY <2>1, <3>1, ReturnsContinue, Zenon
    <3> QED BY <1>2, <2>1, <3>1, <3>2, Zenon DEF Retry, ReadReturns, ResumerInv, Reading
  <2>2. CASE rpc' = "request" /\ UNCHANGED <<received, readErr>>
    BY <1>2, <2>2, Zenon DEF Retry, ResumerInv, Reading
  <2> QED BY <1>2, <2>1, <2>2, Zenon DEF Retry
<1>3. CASE RequestFails
  BY <1>3, Zenon DEF RequestFails, ResumerInv, Reading
<1>4. CASE PartialContent
  BY <1>4, ResumerAssumption DEF PartialContent, CatchUp, ResumerInv, Reading
<1> QED BY <1>1, <1>2, <1>3, <1>4, StreamReadInv, Zenon DEF ResumerStep

\* Nothing but Read touches its variables.
LEMMA ResumerNextInv == ResumerInv /\ [ImageNext]_imageVars => ResumerInv'
<1> SUFFICES ASSUME ResumerInv, [ImageNext]_imageVars PROVE ResumerInv'
  OBVIOUS
<1>1. CASE UNCHANGED resumerVars
  BY <1>1, Zenon DEF resumerVars, ResumerInv, Reading
<1>2. CASE ReadCalled \/ ResumerStep
  BY <1>2, ResumerStepInv, Zenon
<1> QED BY <1>1, <1>2, Zenon DEF ImageNext, imageVars, ReadHeaders, Open, CopyReads, CopyEnds, FrameWrite,
        FrameFlush, FrameReturn, UbiWrite, FrameClose, CloseDevice

\* The invariant holds in every state.
LEMMA ResumerSpecInv == ImageSpec => []ResumerInv
BY ResumerInitInv, ResumerNextInv, PTL DEF ImageSpec

\* Bytes in order from the first are a prefix of the artifact.
LEMMA ContinuesIsPrefix ==
    ASSUME NEW s, Continues(s, 0), Len(s) <= ContentLength
    PROVE  s = SubSeq(Artifact, 1, Len(s))
<1>1. Len(s) \in Nat /\ s \in Seq(Nat) /\ \A i \in 1 .. Len(s) : s[i] = i
  BY DEF Continues
<1>2. /\ SubSeq(Artifact, 0 + 1, 0 + Len(s)) \in Seq(Nat)
      /\ Len(SubSeq(Artifact, 0 + 1, 0 + Len(s))) = Len(s)
      /\ \A i \in 1 .. Len(s) : SubSeq(Artifact, 0 + 1, 0 + Len(s))[i] = i
  <2>1. /\ Continues(SubSeq(Artifact, 0 + 1, 0 + Len(s)), 0)
        /\ Len(SubSeq(Artifact, 0 + 1, 0 + Len(s))) = Len(s)
    BY <1>1, SentBytes
  <2> QED BY <1>1, <2>1, Zenon DEF Continues
<1>3. SubSeq(Artifact, 0 + 1, 0 + Len(s)) = SubSeq(Artifact, 1, Len(s))
  BY <1>1
<1> QED BY <1>1, <1>2, <1>3, SeqEqual, Zenon

\* UpdateResumer.Read delivers the artifact from its first byte on, no byte
\* twice and none left out.
THEOREM PrefixReceived == ImageSpec => []ReceivedIsPrefix
<1>1. ASSUME ResumerInv PROVE ReceivedIsPrefix
  <2>1. Continues(received, 0) /\ Len(received) <= ContentLength
    BY <1>1, ResumerAssumption DEF ResumerInv
  <2> QED BY <1>1, <2>1, ContinuesIsPrefix, Zenon DEF ResumerInv, ReceivedIsPrefix
<1> QED BY <1>1, ResumerSpecInv, PTL

\* Read reports the end only after the last byte, or before the first.
THEOREM EofCompletes == ImageSpec => []EofIsComplete
<1>1. ASSUME ResumerInv, readErr = "eof" PROVE received \in {<<>>, Artifact}
  <2>1. /\ Continues(received, 0) /\ Len(received) = offset
        /\ offset = 0 \/ offset = ContentLength
    BY <1>1, Zenon DEF ResumerInv, Reading
  <2>2. received \in Seq(Nat) /\ \A i \in 1 .. Len(received) : received[i] = i
    BY <2>1 DEF Continues
  <2>3. CASE offset = 0
    BY <2>1, <2>2, <2>3, EmptySeq, Zenon
  <2>4. CASE offset = ContentLength
    <3>1. Len(received) = Len(Artifact) /\ \A i \in 1 .. Len(received) : received[i] = Artifact[i]
      BY <2>1, <2>2, <2>4, ArtifactBytes
    <3> QED BY <2>2, <3>1, ArtifactBytes, SeqEqual, Zenon
  <2> QED BY <2>1, <2>3, <2>4, Zenon
<1>2. ResumerInv => EofIsComplete
  BY <1>1, Zenon DEF EofIsComplete
<1> QED BY <1>2, ResumerSpecInv, PTL

------------------------------------------------------------------------------
(* The partition                                                           *)

\* The first n bytes of the partition are those of the image.
Holds(n) == \A i \in 1 .. n : device[i] = HeaderSize + i

\* Bytes of the image that io.Copy has handed on.
Passed == Len(received) - HeaderSize - chunk

Copying == {"copy", "write", "flush"}

\* While nothing has failed, partition and frame together hold what was
\* handed on, and the limit is what is missing.
StoreInv ==
    /\ spc \in {"headers", "open", "close", "closing", "done"} \union Copying
    /\ chunk \in Nat
    /\ spc \in {"headers", "open"} => pos = 0 /\ frame = <<>>
    /\ spc = "open" => Len(received) >= HeaderSize /\ chunk = Len(received) - HeaderSize
    /\ spc \in {"headers", "open"} \union Copying => ~storeErr
    /\ spc \in Copying =>
         /\ DeviceSize >= ImageSize /\ Len(received) - chunk >= HeaderSize
         /\ limit = ImageSize - Passed
         /\ pos \in Nat /\ Holds(pos) /\ Continues(frame, HeaderSize + pos)
         /\ pos + Len(frame) = IF spc = "flush" THEN Passed + chunk ELSE Passed
         /\ spc = "copy" => chunk = 0
         /\ ubi => frame = <<>> /\ spc # "flush"
    /\ spc = "close" /\ ~storeErr =>
         /\ DeviceSize >= ImageSize /\ pos \in Nat
         /\ Holds(pos) /\ Continues(frame, HeaderSize + pos) /\ pos + Len(frame) = ImageSize
    /\ spc = "closing" /\ ~storeErr => Holds(ImageSize) /\ DeviceSize >= ImageSize
    /\ spc = "done" /\ ~storeErr =>
         Holds(ImageSize) /\ \A i \in 1 .. ImageSize : durable[i] = device[i]

\* The sizes are numbers, and no more is received than there is.
LEMMA Sizes ==
    ASSUME ResumerInv
    PROVE  /\ ContentLength \in Nat /\ HeaderSize \in Nat /\ HeaderSize >= 1
           /\ ImageSize \in Nat /\ ContentLength = HeaderSize + ImageSize /\ DeviceSize \in Nat
           /\ Len(received) \in Nat /\ Len(received) <= ContentLength
<1>1. /\ ContentLength \in Nat /\ HeaderSize \in Nat /\ HeaderSize >= 1
      /\ ImageSize \in Nat /\ ContentLength = HeaderSize + ImageSize /\ DeviceSize \in Nat
  BY ResumerAssumption, ImageStoreAssumption DEF ImageSize
<1>2. Len(received) \in Nat /\ Len(received) <= ContentLength
  BY <1>1 DEF ResumerInv, Reading, Continues
<1> QED BY <1>1, <1>2, Zenon

\* A call of Read gives back no byte it has returned, and adds some only
\* when it returns.
LEMMA ReceivedGrows ==
    ASSUME ResumerInv, ResumerInv', ReadCalled \/ ResumerStep
    PROVE  /\ Len(received') >= Len(received)
           /\ Returned \/ received' = received
<1>1. CASE ReadCalled
  BY <1>1, Sizes DEF ReadCalled
<1>2. CASE ResumerStep
  <2>1. UNCHANGED origOffset /\ Reading
    BY <1>2, Zenon DEF ResumerStep, StreamRead, Retry, RequestFails, PartialContent, Reading
  <2>2. Returned \/ received' = received
    BY <1>2, Zenon DEF ResumerStep, StreamRead, Retry, RequestFails, PartialContent, ReadReturns, Returned
  <2>3. Len(received) = origOffset /\ Len(received') >= origOffset
    BY <2>1, ResumerAssumption DEF ResumerInv, Reading
  <2> QED BY <2>2, <2>3, Zenon
<1> QED BY <1>1, <1>2, Zenon

\* Before the first byte.
LEMMA StoreInitInv == ImageInit => StoreInv
BY DEF ImageInit, ResumerInit, StoreInv, Copying

------------------------------------------------------------------------------
(* Writing                                                                 *)

\* Bytes of the image written behind those that are there already.
LEMMA WrittenHolds ==
    ASSUME ResumerInv, pos \in Nat, Holds(pos), NEW bytes, Continues(bytes, HeaderSize + pos),
           pos + Len(bytes) <= DeviceSize, device' = Written(bytes), pos' = pos + Len(bytes)
    PROVE  Holds(pos)'
<1>1. Len(bytes) \in Nat /\ HeaderSize \in Nat /\ DeviceSize \in Nat
  BY Sizes DEF Continues
<1>2. ASSUME NEW i \in 1 .. pos + Len(bytes) PROVE device'[i] = HeaderSize + i
  <2>1. i \in 1 .. DeviceSize /\ i \in Nat
    BY <1>1
  <2>2. device'[i] = IF i \in pos + 1 .. pos + Len(bytes) THEN bytes[i - pos] ELSE device[i]
    BY <2>1, Zenon DEF Written
  <2>3. CASE i <= pos
    BY <1>1, <2>1, <2>2, <2>3 DEF Holds
  <2>4. CASE i > pos
    <3>1. i - pos \in 1 .. Len(bytes) /\ i \in pos + 1 .. pos + Len(bytes)
      BY <1>1, <2>1, <2>4
    <3>2. bytes[i - pos] = HeaderSize + pos + (i - pos)
      BY <3>1, Zenon DEF Continues
    <3> QED BY <1>1, <2>1, <2>2, <3>1, <3>2
  <2> QED BY <2>1, <2>3, <2>4
<1> QED BY <1>2, Zenon DEF Holds

\* The same when the partition may hold them already.
LEMMA OptimizedHolds ==
    ASSUME ResumerInv, pos \in Nat, Holds(pos), NEW bytes, Continues(bytes, HeaderSize + pos),
           pos + Len(bytes) <= DeviceSize, OptimizedWrite(bytes)
    PROVE  pos' = pos + Len(bytes) /\ Holds(pos)'
<1>1. pos' = pos + Len(bytes)
  BY Zenon DEF OptimizedWrite, FlushingWrite
<1>2. CASE Clean(bytes)
  <2>1. UNCHANGED device /\ Len(bytes) \in Nat /\ HeaderSize \in Nat
    BY <1>2, Sizes DEF OptimizedWrite, Continues
  <2>2. ASSUME NEW i \in 1 .. pos + Len(bytes) PROVE device[i] = HeaderSize + i
    <3>1. CASE i <= pos
      BY <2>1, <3>1 DEF Holds
    <3>2. CASE i > pos
      <4>1. i - pos \in 1 .. Len(bytes) /\ pos + (i - pos) = i
        BY <2>1, <3>2
      <4>2. i - pos \in DOMAIN bytes
        BY <4>1 DEF Continues
      <4>3. device[pos + (i - pos)] = bytes[i - pos]
        BY <1>2, <4>2, Zenon DEF Clean
      <4>4. bytes[i - pos] = HeaderSize + pos + (i - pos)
        BY <4>1, Zenon DEF Continues
      <4> QED BY <2>1, <4>1, <4>3, <4>4
    <3> QED BY <2>1, <3>1, <3>2
  <2> QED BY <1>1, <2>1, <2>2, Zenon DEF Holds
<1>3. CASE ~Clean(bytes)
  BY <1>1, <1>3, WrittenHolds, Zenon DEF OptimizedWrite, FlushingWrite
<1> QED BY <1>1, <1>2, <1>3, Zenon

\* What is left when the first n bytes are taken away.
LEMMA RestContinues ==
    ASSUME NEW s, NEW m \in Nat, Continues(s, m), NEW n \in Nat, n <= Len(s)
    PROVE  Continues(SubSeq(s, n + 1, Len(s)), m + n) /\ Len(SubSeq(s, n + 1, Len(s))) = Len(s) - n
<1>1. Len(s) \in Nat /\ \A i \in n + 1 .. Len(s) : s[i] \in Nat /\ s[i] = m + i
  BY DEF Continues
<1>2. /\ SubSeq(s, n + 1, Len(s)) \in Seq(Nat)
      /\ Len(SubSeq(s, n + 1, Len(s))) = IF n + 1 <= Len(s) THEN Len(s) - (n + 1) + 1 ELSE 0
      /\ \A i \in 1 .. Len(s) - (n + 1) + 1 : SubSeq(s, n + 1, Len(s))[i] = s[n + 1 + i - 1]
  BY <1>1, SubSeqProperties
<1>3. Len(SubSeq(s, n + 1, Len(s))) = Len(s) - n
  BY <1>1, <1>2
<1>4. \A i \in 1 .. Len(s) - n : SubSeq(s, n + 1, Len(s))[i] = m + n + i
  BY <1>1, <1>2
<1> QED BY <1>2, <1>3, <1>4, Zenon DEF Continues

\* LimitedWriteCloser has nothing to hold back: what is to be written is
\* what was received last.
LEMMA AllIsAllowed ==
    ASSUME ResumerInv, StoreInv, spc \in {"write", "flush"}
    PROVE  /\ chunk <= limit /\ Allowed = chunk /\ Passed \in Nat /\ limit - chunk \in Nat
           /\ Continues(ToWrite, HeaderSize + Passed) /\ Len(ToWrite) = chunk
<1>1. /\ chunk \in Nat /\ Len(received) - chunk >= HeaderSize /\ limit = ImageSize - Passed
      /\ Continues(received, 0)
  BY Zenon DEF StoreInv, Copying, ResumerInv
<1>2. chunk <= limit /\ Passed \in Nat /\ limit - chunk \in Nat
  <2>1. Passed \in Nat /\ Passed + chunk = Len(received) - HeaderSize
    BY <1>1, Sizes DEF Passed
  <2>2. Passed + chunk <= ImageSize
    BY <2>1, Sizes
  <2>3. ImageSize \in Nat /\ chunk \in Nat /\ limit = ImageSize - Passed
    BY <1>1, Sizes, Zenon
  <2> QED BY <2>1, <2>2, <2>3
<1>3. Allowed = chunk
  <2>1. limit \in Int
    BY <1>1, Sizes DEF Passed
  <2> QED BY <1>1, <1>2, <2>1 DEF Allowed
<1>4. ToWrite = SubSeq(received, HeaderSize + Passed + 1, Len(received))
  <2>1. /\ (Len(received) - chunk) + 1 = HeaderSize + Passed + 1
        /\ (Len(received) - chunk) + chunk = Len(received)
    BY <1>1, Sizes DEF Passed
  <2>2. ToWrite = SubSeq(received, (Len(received) - chunk) + 1, (Len(received) - chunk) + chunk)
    BY <1>3, Zenon DEF ToWrite
  <2> QED BY <2>1, <2>2, Zenon
<1>5. /\ HeaderSize + Passed \in Nat /\ HeaderSize + Passed <= Len(received)
      /\ Len(received) - (HeaderSize + Passed) = chunk
      /\ 0 + (HeaderSize + Passed) = HeaderSize + Passed
  <2>1. HeaderSize + Passed = Len(received) - chunk
    BY <1>1, Sizes DEF Passed
  <2>2. HeaderSize \in Nat /\ Len(received) \in Nat /\ chunk \in Nat /\ Passed \in Nat
    BY <1>1, <1>2, Sizes, Zenon
  <2> QED BY <2>1, <2>2
<1>6. /\ Continues(SubSeq(received, HeaderSize + Passed + 1, Len(received)),
                   0 + (HeaderSize + Passed))
      /\ Len(SubSeq(received, HeaderSize + Passed + 1, Len(received)))
            = Len(received) - (HeaderSize + Passed)
  BY <1>1, <1>5, RestContinues, Zenon
<1> QED BY <1>2, <1>3, <1>4, <1>5, <1>6, Zenon

------------------------------------------------------------------------------
(* The steps of StoreUpdate                                                *)

\* The archive reader reads.
LEMMA ReadHeadersInv ==
    ASSUME ResumerInv, ResumerInv', StoreInv, ReadHeaders
    PROVE  StoreInv'
<1>1. /\ spc = "headers" /\ pos' = 0 /\ frame' = <<>>
      /\ chunk \in Nat /\ HeaderSize \in Nat /\ Len(received') \in Nat /\ ~storeErr
  BY Sizes DEF ReadHeaders, deviceVars, StoreInv, ResumerInv, Continues
<1>2. CASE spc' = "open" /\ Len(received') >= HeaderSize /\ chunk' = Len(received') - HeaderSize
           /\ ~storeErr'
  BY <1>1, <1>2 DEF StoreInv, Copying
<1>3. CASE spc' = "done" /\ storeErr' = TRUE /\ UNCHANGED chunk
  BY <1>1, <1>3, Zenon DEF StoreInv, Copying
<1>4. CASE UNCHANGED <<spc, chunk, storeErr>>
  BY <1>1, <1>4, Zenon DEF StoreInv, Copying
<1> QED BY <1>1, <1>2, <1>3, <1>4, Zenon DEF ReadHeaders

\* blockdevice.Open
LEMMA OpenInv ==
    ASSUME ResumerInv, StoreInv, Open
    PROVE  StoreInv'
<1>1. /\ spc = "open" /\ pos' = 0 /\ frame' = <<>> /\ UNCHANGED <<received, chunk>> /\ chunk \in Nat
      /\ Len(received) >= HeaderSize /\ chunk = Len(received) - HeaderSize /\ ~storeErr
  BY Zenon DEF Open, StoreInv, resumerVars
<1>2. CASE /\ DeviceSize >= ImageSize /\ limit' = ImageSize /\ UNCHANGED storeErr
           /\ spc' = IF chunk > 0 THEN "write" ELSE "copy"
  <2>1. Passed' = 0 /\ Holds(pos)' /\ Continues(frame', HeaderSize + pos') /\ Len(frame') = 0
    BY <1>1, Sizes DEF Passed, Holds, Continues
  <2>2. limit' = ImageSize - Passed'
    BY <1>2, <2>1, Sizes
  <2> QED BY <1>1, <1>2, <2>1, <2>2, Sizes DEF StoreInv, Copying
<1>3. CASE spc' = "done" /\ storeErr' = TRUE
  BY <1>1, <1>3, Zenon DEF StoreInv, Copying
<1> QED BY <1>2, <1>3, Zenon DEF Open

\* io.Copy reads.
LEMMA CopyReadsInv ==
    ASSUME ResumerInv, ResumerInv', StoreInv, CopyReads
    PROVE  StoreInv'
<1>1. /\ spc = "copy" /\ chunk = 0 /\ UNCHANGED <<pos, device, frame, limit, ubi, storeErr>>
      /\ Len(received) \in Nat /\ Len(received') \in Nat /\ HeaderSize \in Nat /\ ImageSize \in Nat
      /\ Len(received') >= Len(received) /\ Len(received) >= HeaderSize
  <2>1. /\ spc = "copy" /\ UNCHANGED <<pos, device, frame, limit, ubi, storeErr>>
        /\ Len(received') >= Len(received)
    BY ReceivedGrows, Zenon DEF CopyReads, deviceVars
  <2>2. chunk = 0 /\ Len(received) - chunk >= HeaderSize
    BY <2>1, Zenon DEF StoreInv, Copying
  <2>3. Len(received') \in Nat
    BY DEF ResumerInv, Continues
  <2> QED BY <2>1, <2>2, <2>3, Sizes
<1>2. CASE spc' = "write" /\ chunk' = Len(received') - Len(received)
  <2>1. Passed' = Passed /\ chunk' \in Nat /\ Len(received') - chunk' >= HeaderSize
    BY <1>1, <1>2 DEF Passed
  <2> QED BY <1>1, <1>2, <2>1, Zenon DEF StoreInv, Copying, Holds, Continues
<1>3. CASE UNCHANGED <<spc, chunk>> /\ Len(received') = Len(received)
  <2>1. Passed' = Passed
    BY <1>3, Zenon DEF Passed
  <2> QED BY <1>1, <1>3, <2>1, Zenon DEF StoreInv, Copying, Holds, Continues
<1> QED BY <1>1, <1>2, <1>3, ReceivedGrows DEF CopyReads

\* The stream has ended.
LEMMA CopyEndsInv ==
    ASSUME ResumerInv, StoreInv, CopyEnds
    PROVE  StoreInv'
<1>1. /\ spc = "copy" /\ rpc = "ended" /\ chunk = 0 /\ spc' = "close"
      /\ UNCHANGED <<received, pos, device, frame, chunk>> /\ storeErr' = (readErr # "eof")
      /\ Len(received) - chunk >= HeaderSize
  BY Zenon DEF CopyEnds, deviceVars, resumerVars, StoreInv, Copying
<1>2. CASE readErr = "eof"
  <2>1. Len(received) = ContentLength
    BY <1>1, <1>2, Sizes DEF ResumerInv, Reading
  <2>2. Passed = ImageSize
    BY <1>1, <2>1, Sizes DEF Passed
  <2> QED BY <1>1, <2>2, Zenon DEF StoreInv, Copying, Holds, Continues
<1>3. CASE readErr # "eof"
  BY <1>1, <1>3, Zenon DEF StoreInv, Copying
<1> QED BY <1>2, <1>3, Zenon

\* BlockFrameWriter.Write takes bytes into its buffer.
LEMMA FrameWriteInv ==
    ASSUME ResumerInv, StoreInv, FrameWrite
    PROVE  StoreInv'
<1>1. /\ spc = "write" /\ spc' = "flush" /\ ~ubi /\ frame' = frame \o ToWrite
      /\ UNCHANGED <<received, pos, device, limit, chunk, storeErr, ubi>>
  BY Zenon DEF FrameWrite, deviceVars, resumerVars
<1>2. /\ pos \in Nat /\ chunk \in Nat /\ Continues(frame, HeaderSize + pos)
      /\ pos + Len(frame) = Passed /\ Len(frame) \in Nat /\ HeaderSize \in Nat
  <2>1. /\ pos \in Nat /\ chunk \in Nat /\ Continues(frame, HeaderSize + pos)
        /\ pos + Len(frame) = Passed
    BY <1>1, Zenon DEF StoreInv, Copying
  <2>2. Len(frame) \in Nat
    BY <2>1 DEF Continues
  <2> QED BY <2>1, <2>2, Sizes, Zenon
<1>3. Continues(ToWrite, HeaderSize + pos + Len(frame)) /\ Len(ToWrite) = chunk
  <2>1. HeaderSize + pos + Len(frame) = HeaderSize + Passed
    BY <1>2
  <2>2. Continues(ToWrite, HeaderSize + Passed) /\ Len(ToWrite) = chunk
    BY <1>1, AllIsAllowed, Zenon
  <2> QED BY <2>1, <2>2, Zenon
<1>4. Continues(frame', HeaderSize + pos) /\ Len(frame') = Len(frame) + chunk
  <2>1. HeaderSize + pos \in Nat
    BY <1>2
  <2>2. /\ Continues(frame \o ToWrite, HeaderSize + pos)
        /\ Len(frame \o ToWrite) = Len(frame) + Len(ToWrite)
    BY <1>2, <1>3, <2>1, ConcatContinues, Zenon
  <2> QED BY <1>1, <1>3, <2>2, Zenon
<1>5. Passed' = Passed /\ pos + Len(frame') = Passed + chunk
  BY <1>1, <1>2, <1>4 DEF Passed
<1> QED BY <1>1, <1>4, <1>5, Zenon DEF StoreInv, Copying, Holds, Continues

\* BlockFrameWriter.Write writes a full frame.
LEMMA FrameFlushInv ==
    ASSUME ResumerInv, StoreInv, FrameFlush
    PROVE  StoreInv'
<1> DEFINE next == SubSeq(frame, 1, FrameSize)
<1>1. /\ spc = "flush" /\ Len(frame) >= FrameSize /\ UNCHANGED <<received, limit, ubi>>
      /\ frame' = SubSeq(frame, FrameSize + 1, Len(frame))
  BY Zenon DEF FrameFlush, resumerVars
<1>2. /\ pos \in Nat /\ chunk \in Nat /\ Holds(pos) /\ Continues(frame, HeaderSize + pos)
      /\ pos + Len(frame) = Passed + chunk /\ DeviceSize >= ImageSize /\ Len(frame) \in Nat
      /\ HeaderSize \in Nat /\ DeviceSize \in Nat /\ ImageSize \in Nat /\ FrameSize \in Nat
  BY <1>1, Sizes, FrameAssumption DEF StoreInv, Copying, Continues
<1>3. CASE OptimizedWrite(next) /\ UNCHANGED <<spc, chunk, storeErr>>
  <2>1. Continues(next, HeaderSize + pos) /\ Len(next) = FrameSize
    BY <1>1, <1>2, PrefixContinues
  <2>2. Passed + chunk <= ImageSize /\ Passed \in Nat
    <3>1. chunk <= limit /\ Passed \in Nat
      BY <1>1, AllIsAllowed, Zenon
    <3>2. limit = ImageSize - Passed
      BY <1>1, Zenon DEF StoreInv, Copying
    <3> QED BY <1>2, <3>1, <3>2
  <2>3. pos + Len(next) <= DeviceSize
    BY <1>1, <1>2, <2>1, <2>2
  <2>4. pos' = pos + FrameSize /\ Holds(pos)'
    BY <1>2, <1>3, <2>1, <2>3, OptimizedHolds, Zenon
  <2>5. Continues(frame', HeaderSize + pos + FrameSize) /\ Len(frame') = Len(frame) - FrameSize
    BY <1>1, <1>2, RestContinues
  <2>6. /\ Continues(frame', HeaderSize + pos') /\ pos' + Len(frame') = Passed + chunk
        /\ pos' \in Nat
    <3>1. HeaderSize + pos + FrameSize = HeaderSize + pos'
      BY <1>2, <2>4
    <3> QED BY <1>2, <2>4, <2>5, <3>1
  <2>7. Passed' = Passed
    BY <1>1, <1>3, Zenon DEF Passed
  <2> QED BY <1>1, <1>2, <1>3, <2>4, <2>6, <2>7, Zenon DEF StoreInv, Copying, Continues
<1>4. CASE BrokenWrite(next) /\ spc' = "close" /\ storeErr' = TRUE /\ chunk' = 0
  BY <1>4, Zenon DEF StoreInv, Copying
<1> QED BY <1>3, <1>4, Zenon DEF FrameFlush

\* LimitedWriteCloser.Write has handed the chunk on.
LEMMA ChunkPassed ==
    ASSUME ResumerInv, chunk \in Nat, Len(received) - chunk >= HeaderSize,
           limit = ImageSize - Passed, Passed \in Nat,
           UNCHANGED received, chunk' = 0, limit' = limit - chunk
    PROVE  /\ Passed' = Passed + chunk /\ limit' = ImageSize - Passed'
           /\ Len(received') - chunk' >= HeaderSize
<1>1. Len(received) \in Nat /\ HeaderSize \in Nat /\ ImageSize \in Nat
  BY Sizes, Zenon
<1>2. Passed' = Len(received) - HeaderSize - 0 /\ Passed = Len(received) - HeaderSize - chunk
  BY Zenon DEF Passed
<1>3. Passed' = Passed + chunk
  BY <1>1, <1>2
<1>4. limit' = ImageSize - (Passed + chunk)
  BY <1>1
<1>5. Len(received) - 0 >= HeaderSize
  BY <1>1
<1> QED BY <1>3, <1>4, <1>5, Zenon

\* ... and returns to LimitedWriteCloser.
LEMMA FrameReturnInv ==
    ASSUME ResumerInv, StoreInv, FrameReturn
    PROVE  StoreInv'
<1>1. /\ spc = "flush" /\ UNCHANGED <<received, pos, device, frame, ubi>>
      /\ limit' = limit - Allowed /\ storeErr' = (chunk > limit) /\ chunk' = 0
      /\ spc' = IF chunk > limit THEN "close" ELSE "copy"
  BY Zenon DEF FrameReturn, LimitedReturn, deviceVars, resumerVars
<1>2. chunk <= limit /\ Allowed = chunk /\ Passed \in Nat /\ limit - chunk \in Nat
  BY <1>1, AllIsAllowed, Zenon
<1>3. chunk \in Nat /\ limit = ImageSize - Passed /\ Len(received) - chunk >= HeaderSize
  BY <1>1, Zenon DEF StoreInv, Copying
<1>4. /\ Passed' = Passed + chunk /\ limit' = ImageSize - Passed'
      /\ Len(received') - chunk' >= HeaderSize
  BY <1>1, <1>2, <1>3, ChunkPassed, Zenon
<1>5. spc' = "copy" /\ ~storeErr'
  <2>1. limit \in Int
    BY <1>2, <1>3, Sizes
  <2>2. ~(chunk > limit)
    BY <1>2, <1>3, <2>1
  <2> QED BY <1>1, <2>2, Zenon
<1> QED BY <1>1, <1>4, <1>5, Zenon DEF StoreInv, Copying, Holds, Continues

\* A UBI volume is written.
LEMMA UbiWriteInv ==
    ASSUME ResumerInv, StoreInv, UbiWrite
    PROVE  StoreInv'
<1>1. spc = "write" /\ ubi /\ UNCHANGED <<received, frame, ubi>>
  BY Zenon DEF UbiWrite, resumerVars
<1>2. /\ chunk <= limit /\ Allowed = chunk /\ Passed \in Nat /\ limit - chunk \in Nat
      /\ Continues(ToWrite, HeaderSize + Passed) /\ Len(ToWrite) = chunk
  BY <1>1, AllIsAllowed, Zenon
<1>3. /\ chunk \in Nat /\ limit = ImageSize - Passed /\ Len(received) - chunk >= HeaderSize
      /\ pos \in Nat /\ Holds(pos) /\ frame = <<>> /\ pos = Passed /\ DeviceSize >= ImageSize
  <2>1. /\ chunk \in Nat /\ limit = ImageSize - Passed /\ Len(received) - chunk >= HeaderSize
        /\ pos \in Nat /\ Holds(pos) /\ frame = <<>> /\ pos + Len(frame) = Passed
        /\ DeviceSize >= ImageSize
    BY <1>1, Zenon DEF StoreInv, Copying
  <2>2. Len(frame) = 0
    BY <2>1, Zenon
  <2> QED BY <2>1, <2>2
<1>4. CASE device' = Written(ToWrite) /\ pos' = pos + Allowed /\ LimitedReturn
  <2>1. limit' = limit - chunk /\ chunk' = 0
    BY <1>2, <1>4, Zenon DEF LimitedReturn
  <2>2. pos + Len(ToWrite) <= DeviceSize /\ pos' = pos + Len(ToWrite)
    <3>1. DeviceSize \in Nat /\ ImageSize \in Nat
      BY Sizes, Zenon
    <3>2. pos + chunk <= DeviceSize
      BY <1>2, <1>3, <3>1
    <3> QED BY <1>2, <1>4, <3>2, Zenon
  <2>3. Holds(pos)'
    BY <1>2, <1>3, <1>4, <2>2, WrittenHolds, Zenon
  <2>4. /\ Passed' = Passed + chunk /\ limit' = ImageSize - Passed'
        /\ Len(received') - chunk' >= HeaderSize
    BY <1>1, <1>2, <1>3, <2>1, ChunkPassed, Zenon
  <2>5. spc' = "copy" /\ ~storeErr'
    <3>1. limit \in Int
      BY <1>2, <1>3, Sizes
    <3>2. ~(chunk > limit)
      BY <1>2, <1>3, <3>1
    <3> QED BY <1>4, <3>2, Zenon DEF LimitedReturn
  <2>6. /\ pos' \in Nat /\ frame' = <<>> /\ Continues(frame', HeaderSize + pos')
        /\ pos' + Len(frame') = Passed'
    BY <1>1, <1>2, <1>3, <2>2, <2>4 DEF Continues
  <2> QED BY <1>1, <1>3, <2>1, <2>3, <2>4, <2>5, <2>6, Zenon DEF StoreInv, Copying
<1>5. CASE spc' = "close" /\ storeErr' = TRUE /\ chunk' = 0
  BY <1>5, Zenon DEF StoreInv, Copying
<1> QED BY <1>4, <1>5, Zenon DEF UbiWrite

\* BlockFrameWriter.Close
LEMMA FrameCloseInv ==
    ASSUME ResumerInv, StoreInv, FrameClose
    PROVE  StoreInv'
<1>1. spc = "close" /\ spc' = "closing" /\ UNCHANGED chunk /\ chunk \in Nat
  BY Zenon DEF FrameClose, StoreInv
<1>2. CASE ~storeErr /\ OptimizedWrite(frame) /\ UNCHANGED storeErr
  <2>1. /\ DeviceSize >= ImageSize /\ pos \in Nat /\ Holds(pos)
        /\ Continues(frame, HeaderSize + pos) /\ pos + Len(frame) = ImageSize
    BY <1>1, <1>2, Zenon DEF StoreInv
  <2>2. pos + Len(frame) <= DeviceSize
    BY <2>1, Sizes, Zenon
  <2>3. pos' = ImageSize /\ Holds(pos)'
    BY <1>2, <2>1, <2>2, OptimizedHolds, Zenon
  <2>4. Holds(ImageSize)'
    BY <2>3, Zenon DEF Holds
  <2> QED BY <1>1, <1>2, <2>1, <2>4, Zenon DEF StoreInv, Copying
<1>3. CASE storeErr' = TRUE
  BY <1>1, <1>3, Zenon DEF StoreInv, Copying
<1>4. storeErr' = storeErr \/ storeErr' = TRUE
  BY Zenon DEF FrameClose
<1>5. CASE storeErr /\ UNCHANGED storeErr
  BY <1>1, <1>5, Zenon DEF StoreInv, Copying
<1> QED BY <1>2, <1>3, <1>4, <1>5, Zenon DEF FrameClose

\* The device is closed.
LEMMA CloseDeviceInv ==
    ASSUME ResumerInv, StoreInv, CloseDevice
    PROVE  StoreInv'
<1>1. spc = "closing" /\ spc' = "done" /\ UNCHANGED <<chunk, device>> /\ chunk \in Nat
  BY Zenon DEF CloseDevice, StoreInv
<1>2. CASE durable' = device /\ UNCHANGED storeErr
  BY <1>1, <1>2, Zenon DEF StoreInv, Copying, Holds
<1>3. CASE storeErr' = TRUE
  BY <1>1, <1>3, Zenon DEF StoreInv, Copying
<1> QED BY <1>2, <1>3, Zenon DEF CloseDevice

------------------------------------------------------------------------------
(* The theorem                                                             *)

\* Every step, and none.
LEMMA StoreNextInv ==
    ASSUME ResumerInv, ResumerInv', StoreInv, [ImageNext]_imageVars
    PROVE  StoreInv'
<1>1. CASE ImageNext
  BY <1>1, ReadHeadersInv, OpenInv, CopyReadsInv, CopyEndsInv, FrameWriteInv, FrameFlushInv,
     FrameReturnInv, UbiWriteInv, FrameCloseInv, CloseDeviceInv, Zenon DEF ImageNext
<1>2. CASE UNCHANGED imageVars
  <2>1. UNCHANGED <<spc, chunk, pos, frame, received, storeErr, limit, ubi, device, durable>>
    BY <1>2, Zenon DEF imageVars, deviceVars, resumerVars
  <2> QED BY <2>1, Zenon DEF StoreInv, Copying, Holds, Continues, Passed
<1> QED BY <1>1, <1>2, Zenon

\* A byte of the image is the one that many behind the headers.
LEMMA ImageBytes == ASSUME NEW i \in 1 .. ImageSize PROVE Image[i] = HeaderSize + i
<1>1. /\ ContentLength \in Nat /\ HeaderSize \in Nat /\ ImageSize \in Nat
      /\ ContentLength = HeaderSize + ImageSize
  BY ResumerAssumption, ImageStoreAssumption DEF ImageSize
<1>2. /\ Continues(SubSeq(Artifact, HeaderSize + 1, HeaderSize + ImageSize), HeaderSize)
      /\ Len(SubSeq(Artifact, HeaderSize + 1, HeaderSize + ImageSize)) = ImageSize
  BY <1>1, SentBytes
<1>3. Continues(Image, HeaderSize) /\ Len(Image) = ImageSize
  BY <1>1, <1>2, Zenon DEF Image
<1> QED BY <1>3, Zenon DEF Continues

\* dualRootfsDeviceImpl.StoreUpdate: success means that the partition holds
\* the image and would after a power cut, for every size of image, partition,
\* sector, frame and buffer, every break of the connection and every fault of
\* the device.
THEOREM ImageStored == ImageSpec => []StoredIsImage
<1>1. ImageInit => ResumerInv /\ StoreInv
  BY ResumerInitInv, StoreInitInv, Zenon DEF ImageInit
<1>2. ResumerInv /\ StoreInv /\ [ImageNext]_imageVars => (ResumerInv /\ StoreInv)'
  BY ResumerNextInv, StoreNextInv, Zenon
<1>3. ResumerInv /\ StoreInv => StoredIsImage
  <2> SUFFICES ASSUME StoreInv, spc = "done", ~storeErr, NEW i \in 1 .. ImageSize
               PROVE  device[i] = Image[i] /\ durable[i] = Image[i]
    BY Zenon DEF StoredIsImage
  <2>1. device[i] = HeaderSize + i /\ durable[i] = device[i]
    BY Zenon DEF StoreInv, Holds
  <2> QED BY <2>1, ImageBytes, Zenon
<1> QED BY <1>1, <1>2, <1>3, PTL DEF ImageSpec

------------------------------------------------------------------------------
(* The bytes behind the image                                              *)

\* What may still be written when the device is closed, after a failure too,
\* ends with the image.
RoomInv ==
    /\ NothingBehindImage
    /\ spc = "close" => pos \in Nat /\ frame \in Seq(Nat) /\ pos + Len(frame) <= ImageSize

\* Bytes written before the end of the image leave the rest alone.
LEMMA WrittenInside ==
    ASSUME ResumerInv, NothingBehindImage, pos \in Nat, NEW bytes, Len(bytes) \in Nat,
           pos + Len(bytes) <= ImageSize, device' = Written(bytes)
    PROVE  NothingBehindImage'
<1> SUFFICES ASSUME NEW i \in ImageSize + 1 .. DeviceSize PROVE device'[i] = 0
  BY Zenon DEF NothingBehindImage
<1>1. ImageSize \in Nat /\ DeviceSize \in Nat
  BY Sizes, Zenon
<1>2. i \in 1 .. DeviceSize /\ i \notin pos + 1 .. pos + Len(bytes)
  BY <1>1
<1>3. device'[i] = device[i]
  BY <1>2, Zenon DEF Written
<1> QED BY <1>3, Zenon DEF NothingBehindImage

\* The first bytes of a sequence.
LEMMA Front ==
    ASSUME NEW s \in Seq(Nat), NEW n \in 0 .. Len(s)
    PROVE  Len(SubSeq(s, 1, n)) = n
BY SubSeqProperties

\* A write, whether it succeeds or not, gets no further than its last byte.
LEMMA WriteInside ==
    ASSUME ResumerInv, NothingBehindImage, pos \in Nat, NEW bytes \in Seq(Nat),
           pos + Len(bytes) <= ImageSize, OptimizedWrite(bytes) \/ BrokenWrite(bytes)
    PROVE  NothingBehindImage' /\ pos' \in pos .. pos + Len(bytes)
<1>1. Len(bytes) \in Nat /\ ImageSize \in Nat
  BY Sizes
<1>2. CASE UNCHANGED device
  BY <1>1, <1>2 DEF OptimizedWrite, FlushingWrite, BrokenWrite, NothingBehindImage
<1>3. CASE device' = Written(bytes) /\ pos' = pos + Len(bytes)
  BY <1>1, <1>3, WrittenInside
<1>4. CASE \E n \in 0 .. Len(bytes) - 1 : device' = Written(SubSeq(bytes, 1, n)) /\ pos' = pos + n
  <2>1. PICK n \in 0 .. Len(bytes) - 1 : device' = Written(SubSeq(bytes, 1, n)) /\ pos' = pos + n
    BY <1>4, Zenon
  <2>2. Len(SubSeq(bytes, 1, n)) = n
    BY <1>1, <2>1, Front
  <2>3. pos + n <= ImageSize /\ n \in Nat
    BY <1>1, <2>1
  <2>4. NothingBehindImage'
    BY <2>1, <2>2, <2>3, WrittenInside, Zenon
  <2> QED BY <1>1, <2>1, <2>4
<1> QED BY <1>2, <1>3, <1>4, Zenon DEF OptimizedWrite, FlushingWrite, BrokenWrite

\* While io.Copy runs, the frame ends before the image does.
LEMMA FrameInside ==
    ASSUME ResumerInv, StoreInv, spc \in Copying
    PROVE  pos \in Nat /\ frame \in Seq(Nat) /\ pos + Len(frame) <= ImageSize
<1>1. /\ pos \in Nat /\ frame \in Seq(Nat) /\ chunk \in Nat /\ Len(received) - chunk >= HeaderSize
      /\ pos + Len(frame) = IF spc = "flush" THEN Passed + chunk ELSE Passed
  BY Zenon DEF StoreInv, Continues
<1>2. Passed + chunk = Len(received) - HeaderSize /\ Passed <= Passed + chunk
  <2>1. chunk \in Nat /\ HeaderSize \in Nat /\ Len(received) \in Nat
    BY <1>1, Sizes, Zenon
  <2> QED BY <2>1 DEF Passed
<1>3. Len(received) - HeaderSize <= ImageSize
  BY Sizes
<1>4. Passed \in Int /\ Len(frame) \in Nat /\ ImageSize \in Nat
  BY <1>1, Sizes DEF Passed
<1> QED BY <1>1, <1>2, <1>3, <1>4

\* BlockFrameWriter.Write writes a full frame, or fails to.
LEMMA FrameFlushRoom ==
    ASSUME ResumerInv, StoreInv, RoomInv, FrameFlush
    PROVE  RoomInv'
<1> DEFINE next == SubSeq(frame, 1, FrameSize)
<1>1. /\ spc = "flush" /\ Len(frame) >= FrameSize /\ FrameSize \in Nat
      /\ frame' = SubSeq(frame, FrameSize + 1, Len(frame))
      /\ OptimizedWrite(next) \/ BrokenWrite(next)
  BY FrameAssumption, Zenon DEF FrameFlush
<1>2. pos \in Nat /\ frame \in Seq(Nat) /\ pos + Len(frame) <= ImageSize /\ ImageSize \in Nat
  BY <1>1, FrameInside, Sizes, Zenon DEF Copying
<1>3. next \in Seq(Nat) /\ Len(next) = FrameSize
  <2>1. FrameSize \in 0 .. Len(frame) /\ \A i \in 1 .. FrameSize : frame[i] \in Nat
    BY <1>1, <1>2
  <2> QED BY <1>2, <2>1, Front, SubSeqProperties
<1>4. NothingBehindImage' /\ pos' \in pos .. pos + FrameSize
  <2>1. pos + Len(next) <= ImageSize
    <3>1. Len(frame) \in Nat
      BY <1>2
    <3>2. pos + FrameSize <= ImageSize
      BY <1>1, <1>2, <3>1
    <3> QED BY <1>3, <3>2, Zenon
  <2> QED BY <1>1, <1>2, <1>3, <2>1, WriteInside, Zenon DEF RoomInv
<1>5. frame' \in Seq(Nat) /\ Len(frame') = Len(frame) - FrameSize
  <2>1. \A i \in FrameSize + 1 .. Len(frame) : frame[i] \in Nat
    BY <1>1, <1>2
  <2>2. /\ SubSeq(frame, FrameSize + 1, Len(frame)) \in Seq(Nat)
        /\ Len(SubSeq(frame, FrameSize + 1, Len(frame))) =
              IF FrameSize + 1 <= Len(frame) THEN Len(frame) - (FrameSize + 1) + 1 ELSE 0
    BY <1>1, <1>2, <2>1, SubSeqProperties
  <2> QED BY <1>1, <1>2, <2>2
<1>6. pos' \in Nat /\ pos' + Len(frame') <= ImageSize
  <2>1. pos' \in Nat /\ pos' <= pos + FrameSize /\ Len(frame) \in Nat /\ FrameSize \in Nat
    BY <1>1, <1>2, <1>4
  <2>2. pos' + (Len(frame) - FrameSize) <= ImageSize
    BY <1>2, <2>1
  <2> QED BY <1>5, <2>1, <2>2, Zenon
<1> QED BY <1>4, <1>5, <1>6, Zenon DEF RoomInv

\* A UBI volume is written, or not.
LEMMA UbiWriteRoom ==
    ASSUME ResumerInv, StoreInv, RoomInv, UbiWrite
    PROVE  RoomInv'
<1>1. spc = "write" /\ ubi /\ UNCHANGED frame
  BY Zenon DEF UbiWrite
<1>2. /\ chunk <= limit /\ Allowed = chunk /\ Passed \in Nat
      /\ ToWrite \in Seq(Nat) /\ Len(ToWrite) = chunk
  BY <1>1, AllIsAllowed, Zenon DEF Continues
<1>3. /\ frame = <<>> /\ Len(frame) = 0 /\ pos \in Nat /\ chunk \in Nat /\ pos + chunk <= ImageSize
      /\ limit \in Int
  <2>1. /\ frame = <<>> /\ pos \in Nat /\ chunk \in Nat /\ pos + Len(frame) = Passed
        /\ limit = ImageSize - Passed
    BY <1>1, Zenon DEF StoreInv, Copying
  <2>2. Len(frame) = 0
    BY <2>1, Zenon
  <2> QED BY <1>2, <2>1, <2>2, Sizes
<1>4. CASE device' = Written(ToWrite) /\ pos' = pos + Allowed /\ LimitedReturn
  <2>1. NothingBehindImage'
    BY <1>2, <1>3, <1>4, WrittenInside, Zenon DEF RoomInv
  <2>2. spc' = "copy"
    BY <1>2, <1>3, <1>4 DEF LimitedReturn
  <2> QED BY <2>1, <2>2, Zenon DEF RoomInv
<1>5. CASE \E n \in 0 .. Allowed - 1 : device' = Written(SubSeq(ToWrite, 1, n)) /\ pos' = pos + n
  <2>1. PICK n \in 0 .. chunk - 1 : device' = Written(SubSeq(ToWrite, 1, n)) /\ pos' = pos + n
    BY <1>2, <1>5, Zenon
  <2>2. Len(SubSeq(ToWrite, 1, n)) = n
    BY <1>2, <1>3, <2>1, Front
  <2>3. pos + n <= ImageSize /\ n \in Nat /\ ImageSize \in Nat
    BY <1>3, <2>1, Sizes
  <2>4. NothingBehindImage'
    BY <1>3, <2>1, <2>2, <2>3, WrittenInside, Zenon DEF RoomInv
  <2>5. pos' \in Nat /\ frame' \in Seq(Nat) /\ pos' + Len(frame') <= ImageSize
    BY <1>1, <1>3, <2>1, <2>3
  <2> QED BY <2>4, <2>5, Zenon DEF RoomInv
<1> QED BY <1>4, <1>5, Zenon DEF UbiWrite

\* BlockFrameWriter.Close writes the rest, after a failure too.
LEMMA FrameCloseRoom ==
    ASSUME ResumerInv, RoomInv, FrameClose
    PROVE  RoomInv'
<1>1. /\ spc = "close" /\ spc' = "closing"
      /\ OptimizedWrite(frame) \/ BrokenWrite(frame)
      /\ pos \in Nat /\ frame \in Seq(Nat) /\ pos + Len(frame) <= ImageSize
  BY Zenon DEF FrameClose, RoomInv
<1>2. NothingBehindImage'
  BY <1>1, WriteInside, Zenon DEF RoomInv
<1> QED BY <1>1, <1>2, Zenon DEF RoomInv

\* Every step, and none.
LEMMA RoomNextInv ==
    ASSUME ResumerInv, StoreInv, RoomInv, [ImageNext]_imageVars
    PROVE  RoomInv'
<1>1. CASE ReadHeaders \/ CopyReads \/ FrameWrite \/ CloseDevice
  BY <1>1, Zenon DEF ReadHeaders, CopyReads, FrameWrite, CloseDevice, deviceVars, RoomInv, NothingBehindImage,
     StoreInv, Copying
<1>2. CASE Open
  <2>1. spc' # "close" /\ (UNCHANGED device \/ device' = [i \in 1 .. DeviceSize |-> 0])
    BY <1>2, Zenon DEF Open
  <2>2. \A i \in ImageSize + 1 .. DeviceSize : i \in 1 .. DeviceSize
    BY Sizes
  <2> QED BY <2>1, <2>2, Zenon DEF RoomInv, NothingBehindImage
<1>3. CASE CopyEnds
  <2>1. spc = "copy" /\ UNCHANGED <<device, pos, frame>>
    BY <1>3, Zenon DEF CopyEnds, deviceVars
  <2>2. pos \in Nat /\ frame \in Seq(Nat) /\ pos + Len(frame) <= ImageSize
    BY <2>1, FrameInside, Zenon DEF Copying
  <2> QED BY <2>1, <2>2, Zenon DEF RoomInv, NothingBehindImage
<1>4. CASE FrameReturn
  <2>1. spc = "flush" /\ UNCHANGED <<device, pos, frame>> /\ spc' = IF chunk > limit THEN "close" ELSE "copy"
    BY <1>4, Zenon DEF FrameReturn, LimitedReturn, deviceVars
  <2>2. pos \in Nat /\ frame \in Seq(Nat) /\ pos + Len(frame) <= ImageSize
    BY <2>1, FrameInside, Zenon DEF Copying
  <2> QED BY <2>1, <2>2, Zenon DEF RoomInv, NothingBehindImage
<1>5. CASE UNCHANGED imageVars
  BY <1>5, Zenon DEF imageVars, deviceVars, RoomInv, NothingBehindImage
<1> QED BY <1>1, <1>2, <1>3, <1>4, <1>5, FrameFlushRoom, UbiWriteRoom, FrameCloseRoom, Zenon DEF ImageNext

\* Before the first byte.
LEMMA RoomInitInv == ImageInit => RoomInv
<1> SUFFICES ASSUME ImageInit PROVE RoomInv
  OBVIOUS
<1>1. spc = "headers"
  BY Zenon DEF ImageInit
<1>2. PICK same \in SUBSET (1 .. ImageSize) :
        device = [i \in 1 .. DeviceSize |-> IF i \in same THEN HeaderSize + i ELSE 0]
  BY Zenon DEF ImageInit
<1>3. ImageSize \in Nat /\ DeviceSize \in Nat
  BY ResumerInitInv, Sizes, Zenon
<1>4. ASSUME NEW i \in ImageSize + 1 .. DeviceSize PROVE i \in 1 .. DeviceSize /\ i \notin same
  BY <1>3
<1> QED BY <1>1, <1>2, <1>4, Zenon DEF RoomInv, NothingBehindImage

\* LimitedWriteCloser and BlockFrameWriter write nothing behind the image,
\* whatever fails: not even the rest of a frame that Close writes after a
\* write has failed half-way.
THEOREM BehindImageKept == ImageSpec => []NothingBehindImage
<1>1. ImageInit => ResumerInv /\ StoreInv /\ RoomInv
  BY ResumerInitInv, StoreInitInv, RoomInitInv, Zenon DEF ImageInit
<1>2. ResumerInv /\ StoreInv /\ RoomInv /\ [ImageNext]_imageVars => (ResumerInv /\ StoreInv /\ RoomInv)'
  BY ResumerNextInv, StoreNextInv, RoomNextInv, Zenon
<1>3. RoomInv => NothingBehindImage
  BY Zenon DEF RoomInv
<1> QED BY <1>1, <1>2, <1>3, PTL DEF ImageSpec
==============================================================================
