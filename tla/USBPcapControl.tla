--------------------------- MODULE USBPcapControl ---------------------------
(***************************************************************************)
(* The control device of one root hub, \Device\USBPcapX: who may capture,  *)
(* and what becomes of the buffer, the filter and the pended reads when    *)
(* the capturing handle goes away.  USBPcapGenReq.c, USBPcapDeviceControl.c*)
(* and USBPcapQueue.c; the ring itself is module USBPcapBuffer and is      *)
(* abstracted here to the number of chunks still unread.                   *)
(*                                                                         *)
(* No lock spans a request: the test of pCaptureObject, the test of        *)
(* pRootData->buffer that precedes the lock in a read, and each part of    *)
(* IRP_MJ_CLEANUP are steps of their own.  The I/O manager (external)      *)
(* sends IRP_MJ_CLEANUP when the last handle is closed, which may be while *)
(* requests of other threads are running, and IRP_MJ_CLOSE only when no    *)
(* request of the file object is left.  The root hub stays present.        *)
(*                                                                         *)
(* The filter has a second writer: the start of a device below the root    *)
(* hub, which tests it and adds the device's address with a plain |=.      *)
(*                                                                         *)
(* Definitions named Faulty... are deliberately wrong variants of the one  *)
(* that follows; they show which property would notice the mistake.        *)
(***************************************************************************)
EXTENDS Integers, Sequences

CONSTANTS
  Files,           \* file objects opened on the control device
  Irps,            \* requests in flight at a time
  Urbs,            \* USB requests passing through the filter at a time
  Devices,         \* devices below the root hub that start at a time
  NoFile,          \* the NULL file object
  MaxUnread,       \* bound: chunks the buffer holds
  MultiThreaded    \* a client closes or uses a handle while a request runs

ASSUME ControlAssumption ==
  /\ NoFile \notin Files
  /\ MaxUnread \in Nat \ {0}
  /\ MultiThreaded \in BOOLEAN

VARIABLES
  file,            \* stage in the life of each file object
  pCaptureObject,  \* the file object that may capture, or NoFile
  irp,             \* each request: its operation, file object and progress
  lePendIrp,       \* reads in the cancel-safe queue, oldest first
  buffer,          \* pRootData->buffer: whose stream it holds, chunks unread
  filter,          \* whose captures the bits set in the filter belong to
  late,            \* those of them that a device start put back (history)
  start,           \* each device start: how far it is, whose bits it holds
  urb              \* the USB requests that passed USBPcapIsDeviceFiltered

filterVars == <<filter, late, start>>
vars == <<file, pCaptureObject, irp, lePendIrp, buffer, filterVars, urb>>

(* The parts of IRP_MJ_CLEANUP still to come: "cleanup" all of it,         *)
(* "queueEmpty" filter and buffer, "filterOff" the buffer.                 *)
Stages == {"none", "open", "cleanup", "queueEmpty", "filterOff", "cleaned"}
Ops    == {"setup", "start", "stop", "read"}
NoBuffer == [owner |-> NoFile, unread |-> 0]
NoStart  == [at |-> "none", bits |-> {}]

Request(op, f, at) == [op |-> op, file |-> f, at |-> at]
Free == Request("none", NoFile, "free")

(* Requests of f inside the driver, and those it still has to complete.    *)
Running(f) == {i \in Irps : irp[i].file = f /\ irp[i].at # "pended"}
Unfinished(f) == {i \in Irps : irp[i].file = f}

(* What a client does with a handle while one of its requests runs.        *)
ClientReady(f) == MultiThreaded \/ Running(f) = {}

(* DkCsqRemoveIrp: the queue without its k-th entry.                       *)
Dequeued(q, k) == [j \in 1 .. Len(q) - 1 |-> IF j < k THEN q[j] ELSE q[j + 1]]

Init ==
  /\ file = [f \in Files |-> "none"]
  /\ pCaptureObject = NoFile
  /\ irp = [i \in Irps |-> Free]
  /\ lePendIrp = <<>>
  /\ buffer = NoBuffer
  /\ filter = {}
  /\ late = {}
  /\ start = [d \in Devices |-> NoStart]
  /\ urb = {}
-----------------------------------------------------------------------------
FaultyCreate(f, readAccess) ==              \* does not compare, just sets
  /\ file[f] = "none"
  /\ pCaptureObject' = IF readAccess THEN f ELSE pCaptureObject
  /\ file' = [file EXCEPT ![f] = "open"]
  /\ UNCHANGED <<irp, lePendIrp, buffer, filterVars, urb>>

(* Opening.  A handle with read access must win pCaptureObject, or the     *)
(* open is refused; a handle without it can only ask for the hub symlink.  *)
Create(f, readAccess) ==
  /\ file[f] = "none"
  /\ readAccess => pCaptureObject = NoFile
  /\ pCaptureObject' = IF readAccess THEN f ELSE pCaptureObject
  /\ file' = [file EXCEPT ![f] = "open"]
  /\ UNCHANGED <<irp, lePendIrp, buffer, filterVars, urb>>

(* A request of the capturing handle is let in; any other gets             *)
(* STATUS_ACCESS_DENIED, which changes nothing.                            *)
AllowCapture(i, f, op) ==
  /\ file[f] = "open"
  /\ irp[i] = Free
  /\ ClientReady(f)
  /\ pCaptureObject = f
  /\ irp' = [irp EXCEPT ![i] = Request(op, f, "checked")]
  /\ UNCHANGED <<file, pCaptureObject, lePendIrp, buffer, filterVars, urb>>

At(i, op, at) == irp[i].op = op /\ irp[i].at = at

(* The request i is completed.                                             *)
Complete(i) == irp' = [irp EXCEPT ![i] = Free]

(* USBPcapSetUpBuffer: a new stream of the requester, or more room for the *)
(* stream that is there.                                                   *)
SetUpBuffer(i) ==
  /\ At(i, "setup", "checked")
  /\ Complete(i)
  /\ buffer' = IF buffer = NoBuffer
               THEN [owner |-> irp[i].file, unread |-> 1]
               ELSE buffer
  /\ UNCHANGED <<file, pCaptureObject, lePendIrp, filterVars, urb>>

(* The whole filter is overwritten with the bits of these captures.        *)
Overwrite(captures) ==
  /\ filter' = captures
  /\ late' = {}
  /\ UNCHANGED start

StartFiltering(i) ==
  /\ At(i, "start", "checked")
  /\ Complete(i)
  /\ Overwrite({irp[i].file})
  /\ UNCHANGED <<file, pCaptureObject, lePendIrp, buffer, urb>>

StopFiltering(i) ==
  /\ At(i, "stop", "checked")
  /\ Complete(i)
  /\ Overwrite({})
  /\ UNCHANGED <<file, pCaptureObject, lePendIrp, buffer, urb>>

(* Wrong input length, a buffer size out of range or too small, an         *)
(* allocation or a mapping that fails.                                     *)
Reject(i) ==
  /\ irp[i].at = "checked"
  /\ Complete(i)
  /\ UNCHANGED <<file, pCaptureObject, lePendIrp, buffer, filterVars, urb>>

(* USBPcapBufferHandleReadIrp tests for a buffer before it takes the lock, *)
ReadCheckBuffer(i) ==
  /\ At(i, "read", "checked")
  /\ irp' = [irp EXCEPT ![i] = IF buffer = NoBuffer THEN Free
                               ELSE [@ EXCEPT !.at = "buffered"]]
  /\ UNCHANGED <<file, pCaptureObject, lePendIrp, buffer, filterVars, urb>>

(* and under the lock takes some of the data, or pends when there is none. *)
ReadLocked(i) ==
  /\ At(i, "read", "buffered")
  /\ \/ /\ buffer.unread = 0
        /\ irp' = [irp EXCEPT ![i].at = "pended"]
        /\ lePendIrp' = Append(lePendIrp, i)
        /\ UNCHANGED buffer
     \/ /\ \E left \in 0 .. buffer.unread - 1 :
             buffer' = [buffer EXCEPT !.unread = left]
        /\ Complete(i)
        /\ UNCHANGED lePendIrp
  /\ UNCHANGED <<file, pCaptureObject, filterVars, urb>>

FaultyCancelRead(i) ==                      \* leaves the IRP in the queue
  /\ irp[i].at = "pended"
  /\ Complete(i)
  /\ UNCHANGED <<file, pCaptureObject, lePendIrp, buffer, filterVars, urb>>

(* The cancel routine of the cancel-safe queue.                            *)
CancelRead(i) ==
  /\ irp[i].at = "pended"
  /\ Complete(i)
  /\ \E k \in 1 .. Len(lePendIrp) :
       lePendIrp[k] = i /\ lePendIrp' = Dequeued(lePendIrp, k)
  /\ UNCHANGED <<file, pCaptureObject, buffer, filterVars, urb>>
-----------------------------------------------------------------------------
(* A USB request passes the filter,                                        *)
AnalyzeURB(u) ==
  /\ u \notin urb
  /\ filter # {}
  /\ urb' = urb \cup {u}
  /\ UNCHANGED <<file, pCaptureObject, irp, lePendIrp, buffer, filterVars>>

(* and is stored if there is room; the oldest pended read then gets some   *)
(* of the data, or fails when its MDL cannot be mapped.                    *)
StorePacket(u) ==
  /\ u \in urb
  /\ urb' = urb \ {u}
  /\ \/ /\ buffer = NoBuffer \/ buffer.unread = MaxUnread
        /\ UNCHANGED <<irp, lePendIrp, buffer>>
     \/ /\ buffer # NoBuffer /\ buffer.unread < MaxUnread
        /\ lePendIrp = <<>>
        /\ buffer' = [buffer EXCEPT !.unread = @ + 1]
        /\ UNCHANGED <<irp, lePendIrp>>
     \/ /\ buffer # NoBuffer /\ buffer.unread < MaxUnread
        /\ lePendIrp # <<>>
        /\ \E left \in 0 .. buffer.unread + 1 :
             buffer' = [buffer EXCEPT !.unread = left]
        /\ Complete(Head(lePendIrp))
        /\ lePendIrp' = Tail(lePendIrp)
  /\ UNCHANGED <<file, pCaptureObject, filterVars>>
-----------------------------------------------------------------------------
(* A device starts.  USBPcapGetDeviceUSBInfo finds that the filter wants   *)
(* new devices,                                                            *)
TestNewDevice(d) ==
  /\ start[d] = NoStart
  /\ filter # {}
  /\ start' = [start EXCEPT ![d] = [at |-> "tested", bits |-> filter]]
  /\ UNCHANGED <<file, pCaptureObject, irp, lePendIrp, buffer, filter, late,
                 urb>>

(* reads the word of the filter that its address is in,                    *)
LoadWord(d) ==
  /\ start[d].at = "tested"
  /\ \E word \in SUBSET filter :
       start' = [start EXCEPT ![d] = [at |-> "loaded", bits |-> @.bits \cup word]]
  /\ UNCHANGED <<file, pCaptureObject, irp, lePendIrp, buffer, filter, late,
                 urb>>

(* and writes it back with one bit more.  What other captures have in the  *)
(* other words stays.                                                      *)
USBPcapSetDeviceFiltered(d) ==
  /\ start[d].at = "loaded"
  /\ \E others \in SUBSET filter :
       /\ filter' = start[d].bits \cup others
       /\ late' = (late \cup (start[d].bits \ filter)) \cap filter'
  /\ start' = [start EXCEPT ![d] = NoStart]
  /\ UNCHANGED <<file, pCaptureObject, irp, lePendIrp, buffer, urb>>
-----------------------------------------------------------------------------
(* Closing.  IRP_MJ_CLEANUP does something for the capturing handle only.  *)
BeginCleanup(f) ==
  /\ file[f] = "open"
  /\ ClientReady(f)
  /\ file' = [file EXCEPT ![f] = IF pCaptureObject = f THEN "cleanup"
                                                       ELSE "cleaned"]
  /\ UNCHANGED <<pCaptureObject, irp, lePendIrp, buffer, filterVars, urb>>

FaultyCsqCleanUpQueue(f) ==                 \* cancels nothing
  /\ file[f] = "cleanup"
  /\ file' = [file EXCEPT ![f] = "queueEmpty"]
  /\ UNCHANGED <<pCaptureObject, irp, lePendIrp, buffer, filterVars, urb>>

(* One round of the loop that removes the handle's reads from the queue.   *)
DkCsqCleanUpQueue(f) ==
  LET mine == {k \in 1 .. Len(lePendIrp) : irp[lePendIrp[k]].file = f}
  IN /\ file[f] = "cleanup"
     /\ \/ /\ mine = {}
           /\ file' = [file EXCEPT ![f] = "queueEmpty"]
           /\ UNCHANGED <<irp, lePendIrp>>
        \/ /\ \E k \in mine : /\ \A l \in mine : k <= l
                             /\ Complete(lePendIrp[k])
                             /\ lePendIrp' = Dequeued(lePendIrp, k)
           /\ UNCHANGED file
     /\ UNCHANGED <<pCaptureObject, buffer, filterVars, urb>>

FaultyClearFilter(f) ==                     \* keeps filtering
  /\ file[f] = "queueEmpty"
  /\ file' = [file EXCEPT ![f] = "filterOff"]
  /\ UNCHANGED <<pCaptureObject, irp, lePendIrp, buffer, filterVars, urb>>

ClearFilter(f) ==
  /\ file[f] = "queueEmpty"
  /\ Overwrite({})
  /\ file' = [file EXCEPT ![f] = "filterOff"]
  /\ UNCHANGED <<pCaptureObject, irp, lePendIrp, buffer, urb>>

USBPcapBufferRemoveBuffer(f) ==
  /\ file[f] = "filterOff"
  /\ buffer' = NoBuffer
  /\ file' = [file EXCEPT ![f] = "cleaned"]
  /\ UNCHANGED <<pCaptureObject, irp, lePendIrp, filterVars, urb>>

(* IRP_MJ_CLOSE.                                                           *)
Close(f) ==
  /\ file[f] = "cleaned"
  /\ Unfinished(f) = {}
  /\ pCaptureObject' = IF pCaptureObject = f THEN NoFile ELSE pCaptureObject
  /\ file' = [file EXCEPT ![f] = "none"]
  /\ UNCHANGED <<irp, lePendIrp, buffer, filterVars, urb>>
-----------------------------------------------------------------------------
(* What the driver does by itself once it was called.                      *)
Proceed(i) ==
  \/ SetUpBuffer(i) \/ StartFiltering(i) \/ StopFiltering(i) \/ Reject(i)
  \/ ReadCheckBuffer(i) \/ ReadLocked(i)

CleanUpAndClose(f) ==
  \/ DkCsqCleanUpQueue(f) \/ ClearFilter(f)
  \/ USBPcapBufferRemoveBuffer(f) \/ Close(f)

Next ==
  \/ \E f \in Files, readAccess \in BOOLEAN : Create(f, readAccess)
  \/ \E i \in Irps, f \in Files, op \in Ops : AllowCapture(i, f, op)
  \/ \E i \in Irps : Proceed(i)
  \/ \E i \in Irps : CancelRead(i)
  \/ \E u \in Urbs : AnalyzeURB(u) \/ StorePacket(u)
  \/ \E d \in Devices : TestNewDevice(d) \/ LoadWord(d)
                            \/ USBPcapSetDeviceFiltered(d)
  \/ \E f \in Files : BeginCleanup(f) \/ CleanUpAndClose(f)

(* A request that entered the driver runs to its end; nothing makes a      *)
(* client open, cancel or close, or a device send packets.                 *)
Fairness ==
  /\ \A i \in Irps : WF_vars(Proceed(i))
  /\ \A f \in Files : WF_vars(CleanUpAndClose(f))

Spec == Init /\ [][Next]_vars /\ Fairness
-----------------------------------------------------------------------------
(* Properties. *)

(* Type invariant; the queue holds exactly the pended reads, each once.    *)
TypeOK ==
  /\ file \in [Files -> Stages]
  /\ pCaptureObject \in Files \cup {NoFile}
  /\ irp \in [Irps -> {Free} \cup
                [op : Ops, file : Files, at : {"checked", "buffered", "pended"}]]
  /\ lePendIrp \in Seq(Irps)
  /\ \A i \in Irps : irp[i].at = "pended"
                       <=> \E k \in 1 .. Len(lePendIrp) : lePendIrp[k] = i
  /\ \A k, l \in 1 .. Len(lePendIrp) : lePendIrp[k] = lePendIrp[l] => k = l
  /\ buffer \in {NoBuffer} \cup [owner : Files, unread : 0 .. MaxUnread]
  /\ late \subseteq filter /\ filter \subseteq Files
  /\ start \in [Devices -> [at : {"none", "tested", "loaded"},
                              bits : SUBSET Files]]
  /\ urb \subseteq Urbs

(* A request that passed the test of pCaptureObject is still the capturing *)
(* handle's when it acts, although nothing is locked in between: no two    *)
(* clients ever drive the buffer, the filter or the queue of one root hub. *)
CaptureExclusive ==
  \A i \in Irps : irp[i] # Free => irp[i].file = pCaptureObject

(* A capture starts from nothing: the stream in the buffer and the filter  *)
(* in force were set up by the handle that captures now, and nothing of an *)
(* earlier capture outlives its IRP_MJ_CLOSE.  The exception is exact:     *)
(* bits that were not in the filter any more when the start of a device,   *)
(* which had tested and read it before, wrote them back; they stay until   *)
(* the filter is overwritten as a whole.                                   *)
CleanSlate ==
  /\ buffer # NoBuffer => buffer.owner = pCaptureObject
  /\ filter \ late \subseteq {pCaptureObject}

(* A read waits only for a stream that is there: the test for a buffer     *)
(* before the lock, the pending under it and the removal of the buffer by  *)
(* IRP_MJ_CLEANUP leave no read pended on a buffer that is gone, which no  *)
(* packet would ever complete.                                             *)
ReadsHaveBuffer == lePendIrp # <<>> => buffer # NoBuffer

(* A closed handle is released: its pended reads never keep IRP_MJ_CLOSE   *)
(* away, so that another client can capture.                               *)
CaptureReleased ==
  \A f \in Files : file[f] \notin {"none", "open"} ~> file[f] = "none"
=============================================================================
