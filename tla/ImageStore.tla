------------------------------ MODULE ImageStore -----------------------------
(***************************************************************************)
(* A root filesystem image on its way to the inactive partition.           *)
(* StoreUpdate of installer/dual_rootfs_device.go copies what UpdateResumer *)
(* delivers into the block device of installer/block_device.go, a chain of *)
(* writers: LimitedWriteCloser (utils/limited_writer.go), BlockFrameWriter, *)
(* OptimizedBlockDeviceWriter, FlushingWriter.                             *)
(*                                                                         *)
(* The artifact's reader (areader/reader.go) takes the first HeaderSize    *)
(* bytes, and hands the rest through.  External: the kernel, which erases  *)
(* a UBI volume before an update and flushes a device that is closed.      *)
(***************************************************************************)
EXTENDS UpdateResumer

CONSTANTS
    HeaderSize,     \* bytes of the artifact before the image
    DeviceSize,     \* bytes of the partition
    SectorSize,     \* nativeSsz; also the flush interval
    MinChunk,       \* 1 MiB
    DeviceFaults    \* which of "open", "read", "write", "sync", "close" may fail

ASSUME ImageStoreAssumption ==
    /\ HeaderSize \in 1 .. ContentLength
    /\ DeviceSize \in Nat /\ SectorSize \in Nat \ {0} /\ MinChunk \in Nat
    /\ DeviceFaults \subseteq {"open", "read", "write", "sync", "close"}

VARIABLES
    spc,        \* where StoreUpdate is
    ubi,        \* the partition is a UBI volume
    device,     \* its contents, as read back
    durable,    \* its contents after a power cut
    pos,        \* the file offset
    limit,      \* LimitedWriteCloser.N
    frame,      \* BlockFrameWriter.buf
    unflushed,  \* FlushingWriter.unflushedBytesWritten
    chunk,      \* how many bytes io.Copy is writing
    storeErr    \* an error has occurred

deviceVars == <<device, durable, pos, unflushed>>
imageVars == <<resumerVars, deviceVars, spc, ubi, limit, frame, chunk, storeErr>>

ImageSize == ContentLength - HeaderSize
Image == SubSeq(Artifact, HeaderSize + 1, ContentLength)

\* "Pick a multiple of the sector size that's around 1 MiB."
FrameSize ==
    SectorSize * 2 ^ Least({k \in 0 .. MinChunk : SectorSize * 2 ^ k >= MinChunk})

\* The loop that doubles the sector size ends.
ASSUME FrameAssumption == FrameSize \in Nat \ {0}

\* A byte of the partition is that of the image already, or another one.
ImageInit ==
    /\ ResumerInit
    /\ spc = "headers" /\ ubi \in BOOLEAN
    /\ \E same \in SUBSET (1 .. ImageSize) :
         device = [i \in 1 .. DeviceSize |-> IF i \in same THEN HeaderSize + i ELSE 0]
    /\ durable = device
    /\ pos = 0 /\ limit = 0 /\ frame = <<>> /\ unflushed = 0 /\ chunk = 0
    /\ storeErr = FALSE

------------------------------------------------------------------------------
(* The archive reader, Open, and the loop of io.Copy.                      *)

\* A Read that has just returned.
Returned == rpc # "idle" /\ rpc' \in {"idle", "ended"}

\* ReadArtifactHeaders; an end of the stream before the last header is an
\* error.
ReadHeaders ==
    /\ spc = "headers" /\ (ReadCalled \/ ResumerStep)
    /\ IF Returned /\ Len(received') >= HeaderSize
       THEN spc' = "open" /\ chunk' = Len(received') - HeaderSize /\ UNCHANGED storeErr
       ELSE IF rpc' = "ended"
       THEN spc' = "done" /\ storeErr' = TRUE /\ UNCHANGED chunk
       ELSE UNCHANGED <<spc, chunk, storeErr>>
    /\ UNCHANGED <<deviceVars, ubi, limit, frame>>

\* blockdevice.Open: the image must fit.
Open ==
    /\ spc = "open"
    /\ \/ /\ DeviceSize >= ImageSize
          /\ limit' = ImageSize /\ spc' = IF chunk > 0 THEN "write" ELSE "copy"
          /\ device' = IF ubi THEN [i \in 1 .. DeviceSize |-> 0] ELSE device
          /\ durable' = device' /\ UNCHANGED storeErr
       \/ /\ DeviceSize < ImageSize \/ "open" \in DeviceFaults
          /\ spc' = "done" /\ storeErr' = TRUE /\ UNCHANGED <<limit, device, durable>>
    /\ UNCHANGED <<resumerVars, ubi, pos, frame, unflushed, chunk>>

\* io.Copy reads; what a Read returned is written before its error counts.
CopyReads ==
    /\ spc = "copy" /\ (ReadCalled \/ ResumerStep)
    /\ IF Returned /\ Len(received') > Len(received)
       THEN spc' = "write" /\ chunk' = Len(received') - Len(received)
       ELSE UNCHANGED <<spc, chunk>>
    /\ UNCHANGED <<deviceVars, ubi, limit, frame, storeErr>>

\* The end of the stream, or its error: the device is closed in any case.
CopyEnds ==
    /\ spc = "copy" /\ rpc = "ended"
    /\ spc' = "close" /\ storeErr' = (readErr # "eof")
    /\ UNCHANGED <<resumerVars, deviceVars, ubi, limit, frame, chunk>>

------------------------------------------------------------------------------
(* The device, and the writers in front of it.                             *)

Written(bytes) ==
    [i \in 1 .. DeviceSize |-> IF i \in pos + 1 .. pos + Len(bytes) THEN bytes[i - pos]
                               ELSE device[i]]

\* FlushingWriter.Write: a Sync as soon as enough has been written.
FlushingWrite(bytes) ==
    /\ device' = Written(bytes) /\ pos' = pos + Len(bytes)
    /\ IF unflushed + Len(bytes) >= SectorSize
       THEN durable' = device' /\ unflushed' = 0
       ELSE UNCHANGED durable /\ unflushed' = unflushed + Len(bytes)

Clean(bytes) == \A i \in DOMAIN bytes : device[pos + i] = bytes[i]

\* Mutant: a frame is taken for clean by its first byte.
OptimizedWriteGuess(bytes) ==
    IF bytes = <<>> \/ device[pos + 1] = bytes[1]
    THEN pos' = pos + Len(bytes) /\ UNCHANGED <<device, durable, unflushed>>
    ELSE FlushingWrite(bytes)

\* OptimizedBlockDeviceWriter.Write reads as many bytes, and only if they
\* differ seeks back and writes.
OptimizedWrite(bytes) ==
    IF Clean(bytes)
    THEN pos' = pos + Len(bytes) /\ UNCHANGED <<device, durable, unflushed>>
    ELSE FlushingWrite(bytes)

\* The frame cannot be read, or not found again; it is written in part; it
\* is written, but not flushed.
BrokenWrite(bytes) ==
    /\ bytes # <<>>
    /\ \/ /\ "read" \in DeviceFaults /\ pos' \in pos .. pos + Len(bytes)
          /\ UNCHANGED <<device, durable, unflushed>>
       \/ /\ "write" \in DeviceFaults
          /\ \E n \in 0 .. Len(bytes) - 1 :
               device' = Written(SubSeq(bytes, 1, n)) /\ pos' = pos + n
                 /\ unflushed' = unflushed + n
          /\ UNCHANGED durable
       \/ /\ "sync" \in DeviceFaults
          /\ device' = Written(bytes) /\ pos' = pos + Len(bytes) /\ unflushed' = 0
          /\ UNCHANGED durable

\* LimitedWriteCloser.Write passes on no more than the limit.
Allowed == IF chunk > limit THEN limit ELSE chunk
ToWrite == LET from == Len(received) - chunk IN SubSeq(received, from + 1, from + Allowed)

\* ... and reports the rest as an error.
LimitedReturn ==
    /\ limit' = limit - Allowed /\ storeErr' = (chunk > limit) /\ chunk' = 0
    /\ spc' = IF chunk > limit THEN "close" ELSE "copy"

\* BlockFrameWriter.Write puts the bytes into its buffer ...
FrameWrite ==
    /\ spc = "write" /\ ~ubi
    /\ frame' = frame \o ToWrite /\ spc' = "flush"
    /\ UNCHANGED <<resumerVars, deviceVars, ubi, limit, chunk, storeErr>>

\* Mutant: a frame leaves the buffer only when it has been written.
FrameFlushKeeps ==
    /\ spc = "flush" /\ Len(frame) >= FrameSize
    /\ LET next == SubSeq(frame, 1, FrameSize)
       IN \/ /\ OptimizedWrite(next) /\ UNCHANGED <<spc, chunk, storeErr>>
             /\ frame' = SubSeq(frame, FrameSize + 1, Len(frame))
          \/ /\ BrokenWrite(next) /\ spc' = "close" /\ storeErr' = TRUE /\ chunk' = 0
             /\ UNCHANGED frame
    /\ UNCHANGED <<resumerVars, ubi, limit>>

\* ... and takes every full frame from it.  After an error there is no
\* further write, but Close.
FrameFlush ==
    /\ spc = "flush" /\ Len(frame) >= FrameSize
    /\ LET next == SubSeq(frame, 1, FrameSize)
       IN \/ OptimizedWrite(next) /\ UNCHANGED <<spc, chunk, storeErr>>
          \/ BrokenWrite(next) /\ spc' = "close" /\ storeErr' = TRUE /\ chunk' = 0
    /\ frame' = SubSeq(frame, FrameSize + 1, Len(frame))
    /\ UNCHANGED <<resumerVars, ubi, limit>>

FrameReturn ==
    /\ spc = "flush" /\ Len(frame) < FrameSize
    /\ LimitedReturn
    /\ UNCHANGED <<resumerVars, deviceVars, ubi, frame>>

\* A UBI volume is written as the bytes come.
UbiWrite ==
    /\ spc = "write" /\ ubi
    /\ \/ /\ device' = Written(ToWrite) /\ pos' = pos + Allowed /\ LimitedReturn
       \/ /\ "write" \in DeviceFaults
          /\ \E n \in 0 .. Allowed - 1 :
               device' = Written(SubSeq(ToWrite, 1, n)) /\ pos' = pos + n
          /\ spc' = "close" /\ storeErr' = TRUE /\ chunk' = 0 /\ UNCHANGED limit
    /\ UNCHANGED <<resumerVars, durable, unflushed, ubi, frame>>

\* BlockFrameWriter.Close writes what is left in the buffer ...
FrameClose ==
    /\ spc = "close" /\ spc' = "closing" /\ frame' = <<>>
    /\ \/ OptimizedWrite(frame) /\ UNCHANGED storeErr
       \/ BrokenWrite(frame) /\ storeErr' = TRUE
    /\ UNCHANGED <<resumerVars, ubi, limit, chunk>>

\* ... and closes the device, which flushes it, in any case.
CloseDevice ==
    /\ spc = "closing" /\ spc' = "done"
    /\ \/ durable' = device /\ UNCHANGED storeErr
       \/ "close" \in DeviceFaults /\ storeErr' = TRUE /\ UNCHANGED durable
    /\ UNCHANGED <<resumerVars, device, pos, unflushed, ubi, limit, frame, chunk>>

ImageNext ==
    \/ ReadHeaders \/ Open \/ CopyReads \/ CopyEnds
    \/ FrameWrite \/ FrameFlush \/ FrameReturn \/ UbiWrite \/ FrameClose \/ CloseDevice

ImageSpec == ImageInit /\ [][ImageNext]_imageVars /\ WF_imageVars(ImageNext)

------------------------------------------------------------------------------
(* What has to hold.                                                       *)

\* StoreUpdate reports success only if the partition holds the image, all
\* of it and in order, and would after a power cut: whatever the partition
\* held before, however the connection broke and the reads were cut.
StoredIsImage ==
    spc = "done" /\ ~storeErr =>
        \A i \in 1 .. ImageSize : device[i] = Image[i] /\ durable[i] = Image[i]

\* "Makes sure that we never(!) write more than the size of the image":
\* nothing behind the image changes, not even when Close writes the rest of
\* the buffer after a write has failed half-way.
NothingBehindImage == \A i \in ImageSize + 1 .. DeviceSize : device[i] = 0

\* Every download ends, however unreliable the connection: the attempts of
\* all its breaks are counted together.
StoreEnds == <>(spc = "done")
==============================================================================
