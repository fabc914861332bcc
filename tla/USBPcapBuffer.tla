---------------------------- MODULE USBPcapBuffer ----------------------------
(***************************************************************************)
(* The capture buffer of one root hub: the ring buffer that                *)
(* USBPcapDriver/USBPcapBuffer.c keeps in USBPCAP_ROOTHUB_DATA, and the    *)
(* read requests pended on it.  Every action is one critical section under *)
(* pData->bufferLock, with the argument checks that precede it.            *)
(*                                                                         *)
(* Data abstraction.  A byte is the record [id, at, of]: the at-th byte of *)
(* a chunk that declares itself to be `of' bytes long.  A chunk is either  *)
(* the global pcap header (id = GlobalId) or a packet record, whose length *)
(* is the one a parser computes from incl_len in the record header.  The   *)
(* payload entries of a packet are abstracted to `payload', the number of  *)
(* bytes they hold before the terminating entry {0, NULL}.                 *)
(*                                                                         *)
(* Definitions named Faulty... are deliberately wrong variants of the one  *)
(* that follows; they show which property would notice the mistake.        *)
(***************************************************************************)
EXTENDS Integers, Sequences

CONSTANTS
  MinBufferSize,      \* 4096: smallest buffer SETUP_BUFFER accepts
  MaxBufferSize,      \* 134217728: the largest one
  GlobalHeaderLen,    \* sizeof(pcap_hdr_t) = 24
  RecordHeaderLen,    \* sizeof(pcaprec_hdr_t) = 16
  DefaultSnaplen,     \* snaplen of a freshly created root hub
  BufferSizes,        \* arguments of IOCTL_USBPCAP_SETUP_BUFFER
  Snaplens,           \* arguments of IOCTL_USBPCAP_SET_SNAPLEN_SIZE
  Packets,            \* packets offered: [id, headerLen, dataLength, payload]
  ReadLengths,        \* lengths of read requests
  MaxPended,          \* bound: reads the client keeps outstanding
  PacketIds,          \* names of the packets
  GlobalId,           \* name of the global header
  NoId                \* name of memory nothing was written to

Packet == [id : PacketIds, headerLen : Nat, dataLength : Nat, payload : Nat]

ASSUME SizeAssumption ==
  /\ MinBufferSize \in Nat /\ MaxBufferSize \in Nat
  /\ GlobalHeaderLen \in Nat \ {0} /\ RecordHeaderLen \in Nat \ {0}
  /\ GlobalHeaderLen < MinBufferSize
  /\ DefaultSnaplen \in Nat \ {0}
  /\ MaxPended \in Nat \ {0}

ASSUME InputAssumption ==
  /\ BufferSizes \subseteq Nat
  /\ Snaplens \subseteq Nat
  /\ ReadLengths \subseteq Nat
  /\ Packets \subseteq Packet
  /\ GlobalId # NoId
  /\ GlobalId \notin PacketIds /\ NoId \notin PacketIds

VARIABLES
  pData,      \* the fields of USBPCAP_ROOTHUB_DATA the buffer code uses
  pended,     \* lePendIrp: lengths of the pended read requests, oldest first
  last,       \* history: the last byte handed to the reader of this buffer
  declared    \* history: snaplen in the global header of this buffer

vars == <<pData, pended, last, declared>>

ChunkIds == PacketIds \cup {GlobalId, NoId}
Byte   == [id : ChunkIds, at : Nat, of : Nat]
ByteAt(id, at, of) == [id |-> id, at |-> at, of |-> of]
Uninit == ByteAt(NoId, 0, 0)                 \* memory the allocator returned
NoBuffer == <<>>                             \* buffer == NULL

LesserOf(a, b) == IF a <= b THEN a ELSE b
-----------------------------------------------------------------------------
(* Ring arithmetic. *)

FaultyGetBufferFree(d) ==                   \* an empty ring has no gap
  IF d.buffer = NoBuffer THEN 0
  ELSE IF d.readOffset = d.writeOffset THEN d.bufferSize
  ELSE IF d.readOffset > d.writeOffset THEN d.readOffset - d.writeOffset - 1
  ELSE d.bufferSize - d.writeOffset + d.readOffset - 1

USBPcapGetBufferFree(d) ==
  IF d.buffer = NoBuffer THEN 0
  ELSE IF d.readOffset = d.writeOffset THEN d.bufferSize - 1
  ELSE IF d.readOffset > d.writeOffset THEN d.readOffset - d.writeOffset - 1
  ELSE d.bufferSize - d.writeOffset + d.readOffset - 1

USBPcapGetBufferAllocated(d) ==
  IF d.readOffset = d.writeOffset THEN 0
  ELSE IF d.readOffset > d.writeOffset
       THEN d.bufferSize - d.readOffset + d.writeOffset
       ELSE d.writeOffset - d.readOffset

(* One copy, or two when the data runs over the end of the buffer. *)
USBPcapBufferWriteUnsafe(d, data) ==
  LET w   == d.writeOffset
      len == Len(data)
      tmp == d.bufferSize - w
  IN IF tmp >= len
     THEN [d EXCEPT
            !.buffer = [i \in 0 .. d.bufferSize - 1 |->
                          IF w <= i /\ i < w + len THEN data[i - w + 1]
                                                   ELSE d.buffer[i]],
            !.writeOffset = (w + len) % d.bufferSize]
     ELSE [d EXCEPT
            !.buffer = [i \in 0 .. d.bufferSize - 1 |->
                          IF w <= i THEN data[i - w + 1]
                          ELSE IF i < len - tmp THEN data[tmp + i + 1]
                                                ELSE d.buffer[i]],
            !.writeOffset = len - tmp]

USBPcapBufferWrite(d, data) ==
  IF Len(data) = 0 \/ USBPcapGetBufferFree(d) < Len(data)
  THEN d
  ELSE USBPcapBufferWriteUnsafe(d, data)

(* How many bytes a read of destBufferSize bytes gets, which bytes, and    *)
(* what it leaves.                                                         *)
BytesToRead(d, destBufferSize) ==
  LesserOf(USBPcapGetBufferAllocated(d), destBufferSize)

(* The data does not run over the end, or not as far as this read goes.    *)
Contiguous(d, toRead) ==
  d.writeOffset > d.readOffset \/ d.bufferSize - d.readOffset >= toRead

FaultyBufferRead(d, toRead) ==              \* skips the byte at offset 0
  [i \in 1 .. toRead |->
     IF Contiguous(d, toRead) \/ i <= d.bufferSize - d.readOffset
     THEN d.buffer[d.readOffset + i - 1]
     ELSE d.buffer[i - (d.bufferSize - d.readOffset)]]

USBPcapBufferRead(d, toRead) ==
  LET r   == d.readOffset
      tmp == d.bufferSize - r
  IN [i \in 1 .. toRead |->
        IF Contiguous(d, toRead) \/ i <= tmp THEN d.buffer[r + i - 1]
                                             ELSE d.buffer[i - tmp - 1]]

FaultyAfterRead(d, toRead) ==               \* no wrap at the very end
  IF toRead = 0 THEN d
  ELSE [d EXCEPT !.readOffset =
          IF Contiguous(d, toRead) THEN d.readOffset + toRead
          ELSE toRead - (d.bufferSize - d.readOffset)]

AfterRead(d, toRead) ==
  IF toRead = 0 THEN d
  ELSE [d EXCEPT !.readOffset =
          IF Contiguous(d, toRead)
          THEN (d.readOffset + toRead) % d.bufferSize
          ELSE toRead - (d.bufferSize - d.readOffset)]

(* The unread bytes, oldest first. *)
Unread(d) == USBPcapBufferRead(d, USBPcapGetBufferAllocated(d))
-----------------------------------------------------------------------------
(* Chunks. *)

(* Bytes from+1 .. from+n of the chunk id that declares a length of `of'.  *)
Bytes(id, of, from, n) ==
  [i \in 1 .. n |-> ByteAt(id, from + i, of)]

GlobalHeader == Bytes(GlobalId, GlobalHeaderLen, 0, GlobalHeaderLen)

USBPcapWriteGlobalHeader(d) == USBPcapBufferWrite(d, GlobalHeader)

(* incl_len: the packet's bytes, cut to the snaplen in force.              *)
InclLen(d, p) == LesserOf(p.headerLen + p.dataLength, d.snaplen)

(* The payload entries hold the bytes that follow the packet header.  The  *)
(* comparison is the code's: it also subtracts the record header, which    *)
(* incl_len does not count.                                                *)
PayloadSane(d, p) ==
  InclLen(d, p) > RecordHeaderLen + p.headerLen
    => InclLen(d, p) - (RecordHeaderLen + p.headerLen) <= p.payload

FaultyPacketFits(d, p) ==                   \* forgets the record header
  d.buffer # NoBuffer /\ USBPcapGetBufferFree(d) >= InclLen(d, p)

PacketFits(d, p) ==
  /\ d.buffer # NoBuffer
  /\ USBPcapGetBufferFree(d) >= RecordHeaderLen
  /\ USBPcapGetBufferFree(d) - RecordHeaderLen >= InclLen(d, p)

(* The record header, then as much of the packet header and of the payload *)
(* as incl_len allows.  The entries are written one after the other;       *)
(* USBPcapBuffer_proofs!WriteConcatenation shows that this is one write of *)
(* their concatenation.                                                    *)
StoreRecord(d, p) ==
  LET of  == RecordHeaderLen + InclLen(d, p)
      hdr == LesserOf(InclLen(d, p), p.headerLen)
      pay == LesserOf(InclLen(d, p) - hdr, p.payload)
      d1  == USBPcapBufferWriteUnsafe(d, Bytes(p.id, of, 0, RecordHeaderLen))
      d2  == USBPcapBufferWriteUnsafe(d1,
                                     Bytes(p.id, of, RecordHeaderLen, hdr))
  IN USBPcapBufferWriteUnsafe(d2, Bytes(p.id, of, RecordHeaderLen + hdr, pay))

CanStorePacket(d, p) == PayloadSane(d, p) /\ PacketFits(d, p)
-----------------------------------------------------------------------------
Init ==
  /\ pData = [buffer |-> NoBuffer, bufferSize |-> 0, readOffset |-> 0,
              writeOffset |-> 0, snaplen |-> DefaultSnaplen]
  /\ pended = <<>>
  /\ last = Uninit
  /\ declared = 0

(* The reader gets the first toRead unread bytes of d.                     *)
Deliver(d, toRead) ==
  /\ pData' = AfterRead(d, toRead)
  /\ last' = IF toRead = 0 THEN last ELSE USBPcapBufferRead(d, toRead)[toRead]

FaultyNewBuffer(bytes, data) ==             \* forgets the old data
  [i \in 0 .. bytes - 1 |-> Uninit]

(* A buffer of `bytes' bytes as ExAllocatePoolWithTag returns it, holding  *)
(* a copy of the sequence data from offset 0 on.                           *)
NewBuffer(bytes, data) ==
  [i \in 0 .. bytes - 1 |-> IF i < Len(data) THEN data[i + 1] ELSE Uninit]

(* USBPcapSetUpBuffer, no buffer yet: the stream starts with its header.   *)
SetUpFirstBuffer(bytes) ==
  /\ bytes \in MinBufferSize .. MaxBufferSize
  /\ pData.buffer = NoBuffer
  /\ pData' = USBPcapWriteGlobalHeader(
                [pData EXCEPT !.buffer = NewBuffer(bytes, <<>>),
                              !.bufferSize = bytes,
                              !.readOffset = 0,
                              !.writeOffset = 0])
  /\ last' = Uninit
  /\ declared' = pData.snaplen
  /\ UNCHANGED pended

(* USBPcapSetUpBuffer, replacing the buffer: the unread data is kept.  A   *)
(* size that cannot hold it is refused (STATUS_BUFFER_TOO_SMALL).          *)
ReplaceBuffer(bytes) ==
  LET allocated == USBPcapGetBufferAllocated(pData)
  IN /\ bytes \in MinBufferSize .. MaxBufferSize
     /\ pData.buffer # NoBuffer
     /\ allocated < bytes
     /\ pData' = [pData EXCEPT !.buffer = NewBuffer(bytes, Unread(pData)),
                               !.bufferSize = bytes,
                               !.readOffset = 0,
                               !.writeOffset = allocated]
     /\ UNCHANGED <<pended, last, declared>>

FaultySetSnaplenSize(bytes) ==              \* also while a stream exists
  /\ bytes # 0
  /\ pData' = [pData EXCEPT !.snaplen = bytes]
  /\ UNCHANGED <<pended, last, declared>>

USBPcapSetSnaplenSize(bytes) ==
  /\ bytes # 0
  /\ pData.buffer = NoBuffer
  /\ pData' = [pData EXCEPT !.snaplen = bytes]
  /\ UNCHANGED <<pended, last, declared>>

(* bufferSize keeps its value.                                             *)
USBPcapBufferRemoveBuffer(d) ==
  IF d.buffer = NoBuffer THEN d
  ELSE [d EXCEPT !.buffer = NoBuffer, !.readOffset = 0, !.writeOffset = 0]

(* IRP_MJ_CLEANUP of the capture handle: the pended reads are cancelled,   *)
(* then the buffer is freed.                                               *)
Cleanup ==
  /\ pended' = <<>>
  /\ pData' = USBPcapBufferRemoveBuffer(pData)
  /\ last' = Uninit
  /\ declared' = 0

(* A read of an empty buffer is pended; otherwise it gets what there is.   *)
(* A zero-length read and one whose MDL cannot be mapped change nothing.   *)
USBPcapBufferHandleReadIrp(length) ==
  /\ length # 0
  /\ pData.buffer # NoBuffer
  /\ LET toRead == BytesToRead(pData, length)
     IN \/ /\ toRead = 0
           /\ Len(pended) < MaxPended
           /\ pended' = Append(pended, length)
           /\ UNCHANGED <<pData, last>>
        \/ /\ toRead # 0
           /\ Deliver(pData, toRead)
           /\ UNCHANGED pended
  /\ UNCHANGED declared

FaultyCompletePendedReadIrp(d) ==           \* leaves the reader waiting
  Deliver(d, 0) /\ UNCHANGED pended

(* The stored packet d completes the oldest pended read, if there is one.  *)
(* When its MDL cannot be mapped the read fails and the data stays.        *)
USBPcapBufferCompletePendedReadIrp(d) ==
  \/ /\ pended = <<>>
     /\ Deliver(d, 0)
     /\ UNCHANGED pended
  \/ /\ pended # <<>>
     /\ \/ Deliver(d, BytesToRead(d, Head(pended)))
        \/ Deliver(d, 0)
     /\ pended' = Tail(pended)

(* A packet that does not fit, or fails the sanity check, is dropped.      *)
USBPcapBufferWriteTimestampedPayload(p) ==
  /\ CanStorePacket(pData, p)
  /\ USBPcapBufferCompletePendedReadIrp(StoreRecord(pData, p))
  /\ UNCHANGED declared

(* The I/O manager cancels a pended read through the cancel-safe queue.    *)
CancelPendedIrp(i) ==
  /\ pended' = SubSeq(pended, 1, i - 1) \o SubSeq(pended, i + 1, Len(pended))
  /\ UNCHANGED <<pData, last, declared>>

Next ==
  \/ \E bytes \in BufferSizes : SetUpFirstBuffer(bytes)
  \/ \E bytes \in BufferSizes : ReplaceBuffer(bytes)
  \/ \E bytes \in Snaplens : USBPcapSetSnaplenSize(bytes)
  \/ Cleanup
  \/ \E length \in ReadLengths : USBPcapBufferHandleReadIrp(length)
  \/ \E p \in Packets : USBPcapBufferWriteTimestampedPayload(p)
  \/ \E i \in DOMAIN pended : CancelPendedIrp(i)

Spec == Init /\ [][Next]_vars
-----------------------------------------------------------------------------
(* Properties. *)

(* Type invariant: the offsets of an existing buffer lie inside it, so no  *)
(* copy of the ring code leaves the allocation, and without a buffer they  *)
(* are zero (which is what keeps USBPcapGetBufferAllocated, the one helper *)
(* that does not test for NULL, from reporting data).                      *)
TypeOK ==
  /\ pData \in [buffer : {NoBuffer} \cup [0 .. pData.bufferSize - 1 -> Byte],
                bufferSize : Nat, readOffset : Nat, writeOffset : Nat,
                snaplen : Nat \ {0}]
  /\ IF pData.buffer = NoBuffer
     THEN pData.readOffset = 0 /\ pData.writeOffset = 0
     ELSE /\ pData.bufferSize \in MinBufferSize .. MaxBufferSize
          /\ pData.readOffset < pData.bufferSize
          /\ pData.writeOffset < pData.bufferSize
  /\ pended \in Seq(Nat \ {0})
  /\ last \in Byte
  /\ declared \in Nat

(* b may come right after a in the capture stream: the next byte of the    *)
(* same chunk, or the first byte of a new one once a's is complete.  The   *)
(* global header is the first chunk of a stream and occurs only there.     *)
Follows(a, b) ==
  /\ \/ a.at = a.of /\ b.at = 1
     \/ a.at < a.of /\ b = [a EXCEPT !.at = @ + 1]
  /\ (b.id = GlobalId /\ b.at = 1) <=> (a = Uninit)

(* The bytes q, coming after the byte l, each follow the one before.       *)
Framed(l, q) ==
  \A i \in 1 .. Len(q) : Follows(IF i = 1 THEN l ELSE q[i - 1], q[i])

(* The last byte of q, or l when q is empty.                               *)
EndOf(l, q) == IF Len(q) = 0 THEN l ELSE q[Len(q)]

(* What the reader has seen, continued by what is still unread, is a       *)
(* well-formed pcap stream, whatever the wrap-around, resizing, partial    *)
(* reads and drops before: no byte is lost, repeated, reordered or read    *)
(* from memory that was never written.                                     *)
StreamFramed ==
  pData.buffer # NoBuffer => Framed(last, Unread(pData))

(* A record is stored as a whole or not at all: the unread data ends where *)
(* a chunk ends, so a full buffer never truncates a record and incl_len is *)
(* the number of bytes that follow the record header.                      *)
RecordsComplete ==
  pData.buffer # NoBuffer =>
    LET end == EndOf(last, Unread(pData))
    IN end # Uninit /\ end.at = end.of

(* No record is longer than the snaplen its stream's global header         *)
(* declares: SET_SNAPLEN_SIZE is refused while a stream exists.            *)
SnaplenHonoured ==
  pData.buffer # NoBuffer =>
    \A i \in 1 .. Len(Unread(pData)) :
      LET b == Unread(pData)[i]
      IN b.id # GlobalId => b.of <= RecordHeaderLen + declared

(* Every byte of the buffer but one is usable: what is free and what is    *)
(* unread account for all of it.                                           *)
SpaceAccounted ==
  pData.buffer # NoBuffer =>
    USBPcapGetBufferFree(pData) + USBPcapGetBufferAllocated(pData)
      = pData.bufferSize - 1

(* A client that keeps MaxPended reads outstanding never has all of them   *)
(* waiting while there is data: a stored packet completes the oldest one,  *)
(* and only that one.  For one outstanding read, which is what             *)
(* USBPcapCMD/thread.c keeps, no read ever waits for data that is there.   *)
NoStarvedReader ==
  Len(pended) = MaxPended => USBPcapGetBufferAllocated(pData) = 0
-----------------------------------------------------------------------------
(* The ring buffer implements the byte stream of CaptureStream.            *)
Stream == INSTANCE CaptureStream WITH
            Ids <- PacketIds,
            open <- pData.buffer # NoBuffer,
            queue <- Unread(pData),
            last <- last,
            snaplen <- declared

(* Refinement: seen through its unread bytes, the ring behaves as the FIFO *)
(* of whole records: setting up, resizing and wrapping are invisible to    *)
(* the reader.                                                             *)
ImplementsStream == Stream!Spec
=============================================================================
