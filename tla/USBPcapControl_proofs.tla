------------------------ MODULE USBPcapControl_proofs ------------------------
(***************************************************************************)
(* The control device lets one client capture at a time, for any number of *)
(* clients, requests and USB transfers; and when no client uses a handle   *)
(* while one of its requests runs, nothing of a capture outlives it.       *)
(***************************************************************************)
EXTENDS USBPcapControl, SequenceTheorems, TLAPS

InFlight == [op : Ops, file : Files, at : {"checked", "buffered", "pended"}]

Starts == [at : {"none", "tested", "loaded"}, bits : SUBSET Files]

(* The part of TypeOK the arguments rest on; what is in the queue is not   *)
(* needed, since completing a request that is not there changes nothing.   *)
Typed ==
  /\ file \in [Files -> Stages]
  /\ pCaptureObject \in Files \cup {NoFile}
  /\ irp \in [Irps -> {Free} \cup InFlight]
  /\ buffer \in {NoBuffer} \cup [owner : Files, unread : Int]
  /\ filter \subseteq Files
  /\ start \in [Devices -> Starts]

(* CaptureExclusive is inductive once the capturing file object is known   *)
(* to be an existing one.                                                  *)
Capturer == pCaptureObject # NoFile => file[pCaptureObject] # "none"

ExclInv == Typed /\ CaptureExclusive /\ Capturer

(* A free request slot belongs to no file object and is not in flight.     *)
LEMMA FreeFile == Free.file = NoFile /\ Free.at = "free" /\ Free \notin InFlight
  BY ControlAssumption DEF Free, Request, InFlight

(* Completing a request frees its slot and no other.                       *)
LEMMA CompleteKeeps ==
  ASSUME ExclInv, NEW i, Complete(i)
  PROVE  /\ irp' \in [Irps -> {Free} \cup InFlight]
         /\ \A j \in Irps : irp'[j] = Free \/ irp'[j] = irp[j]
  BY DEF ExclInv, Typed, Complete

(* A request that was let in is a request in flight of its file object.    *)
LEMMA RequestTyped ==
  ASSUME NEW op \in Ops, NEW f \in Files
  PROVE  /\ Request(op, f, "checked") \in InFlight
         /\ Request(op, f, "checked").file = f
  BY DEF Request, InFlight

(* A device start only writes bits that were in the filter.                *)
LEMMA StartMoves ==
  ASSUME filter \subseteq Files, start \in [Devices -> Starts],
         NEW d \in Devices,
         TestNewDevice(d) \/ LoadWord(d) \/ USBPcapSetDeviceFiltered(d)
  PROVE  filter' \subseteq Files /\ start' \in [Devices -> Starts]
<1>1. CASE TestNewDevice(d)
  <2>1. [at |-> "tested", bits |-> filter] \in Starts
    BY DEF Starts
  <2>. QED
    BY <1>1, <2>1 DEF TestNewDevice
<1>2. CASE LoadWord(d)
  <2>1. PICK word \in SUBSET filter :
          start' = [start EXCEPT ![d] = [at |-> "loaded",
                                         bits |-> start[d].bits \cup word]]
    BY <1>2 DEF LoadWord
  <2>2. [at |-> "loaded", bits |-> start[d].bits \cup word] \in Starts
    BY DEF Starts
  <2>. QED
    BY <1>2, <2>1, <2>2 DEF LoadWord
<1>3. CASE USBPcapSetDeviceFiltered(d)
  <2>1. NoStart \in Starts /\ start[d].bits \subseteq Files
    BY DEF NoStart, Starts
  <2>. QED
    BY <1>3, <2>1 DEF USBPcapSetDeviceFiltered
<1>. QED
  BY <1>1, <1>2, <1>3

(* Every step preserves that only the capturing handle's requests act.      *)
LEMMA ExclStep ==
  ASSUME ExclInv, [Next]_vars
  PROVE  ExclInv'
<1> USE DEF ExclInv
<1>1. ASSUME NEW f \in Files, NEW readAccess \in BOOLEAN, Create(f, readAccess)
      PROVE  ExclInv'
  <2>1. Typed'
    BY <1>1 DEF Create, filterVars, Typed, Stages
  <2>2. CaptureExclusive'
    <3>1. ASSUME NEW i \in Irps, irp[i] # Free, pCaptureObject = NoFile
          PROVE  FALSE
      <4>1. irp[i] \in InFlight /\ irp[i].file = NoFile
        BY <3>1 DEF Typed, CaptureExclusive
      <4>. QED
        BY <4>1, ControlAssumption DEF InFlight
    <3>. QED
      BY <1>1, <3>1 DEF Create, CaptureExclusive
  <2>3. Capturer'
    BY <1>1 DEF Create, Capturer, Typed
  <2>. QED
    BY <2>1, <2>2, <2>3
<1>2. ASSUME NEW i \in Irps, NEW f \in Files, NEW op \in Ops,
             AllowCapture(i, f, op)
      PROVE  ExclInv'
  <2>1. Typed'
    BY <1>2, RequestTyped DEF AllowCapture, filterVars, Typed
  <2>2. CaptureExclusive'
    BY <1>2, RequestTyped DEF AllowCapture, CaptureExclusive, Typed
  <2>. QED
    BY <1>2, <2>1, <2>2 DEF AllowCapture, Capturer
<1>3. ASSUME NEW i \in Irps, Proceed(i)
      PROVE  ExclInv'
  <2>1. CASE Complete(i) /\ UNCHANGED <<file, pCaptureObject>>
    <3>1. CaptureExclusive' /\ Capturer'
      BY <2>1, CompleteKeeps DEF CaptureExclusive, Capturer
    <3>2. irp' \in [Irps -> {Free} \cup InFlight]
      BY <2>1, CompleteKeeps
    <3>3. buffer' \in {NoBuffer} \cup [owner : Files, unread : Int]
      <4>1. CASE SetUpBuffer(i)
        <5>1. irp[i] \in InFlight
          BY <4>1, FreeFile DEF SetUpBuffer, At, Typed, InFlight
        <5>2. irp[i].file \in Files
          BY <5>1 DEF InFlight
        <5>. QED
          BY <4>1, <5>2 DEF SetUpBuffer, Typed
      <4>2. CASE ReadLocked(i)
        <5>1. CASE UNCHANGED buffer
          BY <5>1 DEF Typed
        <5>2. ASSUME NEW left \in 0 .. buffer.unread - 1,
                     buffer' = [buffer EXCEPT !.unread = left]
              PROVE  buffer' \in [owner : Files, unread : Int]
          <6>1. buffer # NoBuffer
            BY <5>2 DEF NoBuffer
          <6>. QED
            BY <5>2, <6>1 DEF Typed
        <5>. QED
          BY <4>2, <5>1, <5>2 DEF ReadLocked
      <4>. QED
        BY <1>3, <4>1, <4>2
           DEF Proceed, Typed, StartFiltering, StopFiltering, Reject,
               ReadCheckBuffer
    <3>4. filter' \subseteq Files /\ UNCHANGED start
      <4>1. CASE StartFiltering(i)
        <5>1. irp[i] \in InFlight
          BY <4>1, FreeFile DEF StartFiltering, At, Typed, InFlight
        <5>. QED
          BY <4>1, <5>1 DEF StartFiltering, Overwrite, InFlight
      <4>. QED
        BY <1>3, <4>1
           DEF Proceed, Typed, SetUpBuffer, StopFiltering, Overwrite, Reject,
               ReadCheckBuffer, ReadLocked, filterVars
    <3>. QED
      BY <2>1, <3>1, <3>2, <3>3, <3>4 DEF Typed
  <2>2. ASSUME NEW at \in {"buffered", "pended"}, irp[i] \in InFlight,
               irp' = [irp EXCEPT ![i] = [irp[i] EXCEPT !.at = at]],
               UNCHANGED <<file, pCaptureObject, buffer, filterVars>>
        PROVE  ExclInv'
    <3> DEFINE r == [irp[i] EXCEPT !.at = at]
    <3>1. r \in InFlight /\ r.file = irp[i].file
      BY <2>2 DEF InFlight
    <3>2. irp[i] # Free
      BY <2>2, FreeFile
    <3> HIDE DEF r
    <3>3. irp' = [irp EXCEPT ![i] = r]
      BY <2>2 DEF r
    <3>. QED
      BY <2>2, <3>1, <3>2, <3>3
         DEF filterVars, Typed, CaptureExclusive, Capturer
  <2>3. CASE SetUpBuffer(i) \/ StartFiltering(i) \/ StopFiltering(i) \/ Reject(i)
    BY <2>1, <2>3 DEF SetUpBuffer, StartFiltering, StopFiltering, Reject
  <2>4. CASE ReadCheckBuffer(i)
    <3>1. irp[i] \in InFlight
      BY <2>4, FreeFile DEF ReadCheckBuffer, At, Typed, InFlight
    <3>2. CASE buffer = NoBuffer
      BY <2>1, <2>4, <3>2 DEF ReadCheckBuffer, Complete
    <3>3. CASE buffer # NoBuffer
      BY <2>2, <2>4, <3>1, <3>3 DEF ReadCheckBuffer
    <3>. QED
      BY <3>2, <3>3
  <2>5. CASE ReadLocked(i)
    <3>1. irp[i] \in InFlight
      BY <2>5, FreeFile DEF ReadLocked, At, Typed, InFlight
    <3>2. CASE Complete(i)
      BY <2>1, <2>5, <3>2 DEF ReadLocked
    <3>3. CASE irp' = [irp EXCEPT ![i].at = "pended"] /\ UNCHANGED buffer
      BY <2>2, <2>5, <3>1, <3>3 DEF ReadLocked
    <3>. QED
      BY <2>5, <3>2, <3>3 DEF ReadLocked
  <2>. QED
    BY <1>3, <2>3, <2>4, <2>5 DEF Proceed
<1>4. ASSUME NEW i \in Irps, CancelRead(i)
      PROVE  ExclInv'
  BY <1>4, CompleteKeeps
     DEF CancelRead, filterVars, Typed, CaptureExclusive, Capturer
<1>5. ASSUME NEW u \in Urbs, AnalyzeURB(u) \/ StorePacket(u)
      PROVE  ExclInv'
  <2>1. /\ irp' \in [Irps -> {Free} \cup InFlight]
        /\ \A j \in Irps : irp'[j] = Free \/ irp'[j] = irp[j]
        /\ UNCHANGED <<file, pCaptureObject, filterVars>>
    <3>1. CASE irp' = irp
      BY <1>5, <3>1 DEF AnalyzeURB, StorePacket, Typed
    <3>2. CASE Complete(Head(lePendIrp))
      BY <1>5, <3>2, CompleteKeeps DEF AnalyzeURB, StorePacket
    <3>. QED
      BY <1>5, <3>1, <3>2 DEF AnalyzeURB, StorePacket
  <2>2. buffer' \in {NoBuffer} \cup [owner : Files, unread : Int]
    <3>1. CASE UNCHANGED buffer
      BY <3>1 DEF Typed
    <3>2. CASE buffer # NoBuffer
      <4>1. buffer \in [owner : Files, unread : Int]
        BY <3>2 DEF Typed
      <4>. QED
        BY <1>5, <4>1, ControlAssumption DEF AnalyzeURB, StorePacket
    <3>. QED
      BY <1>5, <3>1, <3>2 DEF AnalyzeURB, StorePacket
  <2>. QED
    BY <2>1, <2>2 DEF filterVars, Typed, CaptureExclusive, Capturer
<1>6. ASSUME NEW f \in Files, BeginCleanup(f) \/ ClearFilter(f)
                                \/ USBPcapBufferRemoveBuffer(f)
      PROVE  ExclInv'
  BY <1>6 DEF BeginCleanup, ClearFilter, USBPcapBufferRemoveBuffer, Typed,
              Overwrite, filterVars, Stages, CaptureExclusive, Capturer
<1>7. ASSUME NEW f \in Files, DkCsqCleanUpQueue(f)
      PROVE  ExclInv'
  <2>1. CASE irp' = irp
    BY <1>7, <2>1 DEF DkCsqCleanUpQueue, filterVars, Typed, Stages,
                      CaptureExclusive, Capturer
  <2>2. ASSUME NEW i, Complete(i), UNCHANGED file
        PROVE  ExclInv'
    BY <1>7, <2>2, CompleteKeeps DEF DkCsqCleanUpQueue, filterVars, Typed,
                                     CaptureExclusive, Capturer
  <2>. QED
    BY <1>7, <2>1, <2>2 DEF DkCsqCleanUpQueue
<1>8. ASSUME NEW f \in Files, Close(f)
      PROVE  ExclInv'
  <2>1. ASSUME NEW i \in Irps, irp[i] # Free, pCaptureObject = f
        PROVE  FALSE
    BY <1>8, <2>1 DEF Close, Unfinished, CaptureExclusive
  <2>2. CaptureExclusive'
    BY <1>8, <2>1 DEF Close, CaptureExclusive
  <2>3. Typed' /\ Capturer'
    BY <1>8 DEF Close, filterVars, Typed, Stages, Capturer
  <2>. QED
    BY <2>2, <2>3
<1>9. CASE UNCHANGED vars
  BY <1>9 DEF vars, filterVars, Typed, CaptureExclusive, Capturer
<1>10. ASSUME NEW d \in Devices,
              TestNewDevice(d) \/ LoadWord(d) \/ USBPcapSetDeviceFiltered(d)
       PROVE  ExclInv'
  <2>1. filter' \subseteq Files /\ start' \in [Devices -> Starts]
    BY <1>10, StartMoves DEF Typed
  <2>. QED
    BY <1>10, <2>1
       DEF TestNewDevice, LoadWord, USBPcapSetDeviceFiltered, Typed,
           CaptureExclusive, Capturer
<1>. QED
  BY <1>1, <1>2, <1>3, <1>4, <1>5, <1>6, <1>7, <1>8, <1>9, <1>10
     DEF Next, CleanUpAndClose

(* Before anyone opened the device nothing is in flight.                   *)
LEMMA ExclInit == Init => ExclInv
  BY ControlAssumption
     DEF Init, ExclInv, Typed, Stages, NoBuffer, NoStart, Starts,
         CaptureExclusive, Capturer

(* One client at a time: for any number of file objects and of requests in *)
(* flight, also of clients that use and close a handle from many threads,  *)
(* a request that DkDevCtl or DkReadWrite let in acts while its file       *)
(* object still is pCaptureObject.                                         *)
THEOREM CaptureAlwaysExclusive == Spec => []CaptureExclusive
<1>1. ExclInv /\ [Next]_vars => ExclInv'
  BY ExclStep
<1>2. ExclInv => CaptureExclusive
  BY DEF ExclInv
<1>. QED
  BY <1>1, <1>2, ExclInit, PTL DEF Spec
-----------------------------------------------------------------------------
(* A capture starts from nothing. *)

(* Requests run only while their handle is open: no client closes a handle *)
(* while one of its requests runs.                                         *)
RunningOpen ==
  \A i \in Irps : irp[i] # Free /\ irp[i].at # "pended"
                   => file[irp[i].file] = "open"

(* What IRP_MJ_CLEANUP has undone stays undone until IRP_MJ_CLOSE.         *)
Undone ==
  \A f \in Files : pCaptureObject = f =>
    /\ file[f] \in {"filterOff", "cleaned"} => filter \subseteq late
    /\ file[f] = "cleaned" => buffer = NoBuffer

SlateInv == ExclInv /\ CleanSlate /\ RunningOpen /\ Undone

(* A request that is being served comes from the open, capturing handle.   *)
LEMMA Served ==
  ASSUME SlateInv, NEW i \in Irps, irp[i].at \in {"checked", "buffered"}
  PROVE  /\ irp[i] # Free /\ irp[i].file \in Files
         /\ irp[i].file = pCaptureObject /\ file[pCaptureObject] = "open"
<1>1. irp[i] # Free
  BY FreeFile
<1>2. irp[i] \in InFlight /\ irp[i].at # "pended"
  BY <1>1 DEF SlateInv, ExclInv, Typed
<1>. QED
  BY <1>1, <1>2
     DEF SlateInv, ExclInv, CaptureExclusive, RunningOpen, InFlight

(* A handle without running requests may change its stage.                 *)
LEMMA StageChange ==
  ASSUME SlateInv, NEW f \in Files, NEW s, irp' = irp,
         file' = [file EXCEPT ![f] = s],
         file[f] # "open" \/ Running(f) = {}
  PROVE  RunningOpen'
<1> SUFFICES ASSUME NEW i \in Irps, irp[i] # Free, irp[i].at # "pended"
             PROVE  file'[irp[i].file] = "open"
  BY DEF RunningOpen
<1>1. irp[i].file # f /\ file[irp[i].file] = "open"
  BY DEF SlateInv, RunningOpen, Running
<1>2. irp[i].file \in Files
  BY DEF SlateInv, ExclInv, Typed, InFlight
<1>. QED
  BY <1>1, <1>2 DEF SlateInv, ExclInv, Typed

(* Every action preserves the clean slate when no client uses a handle     *)
(* while closing it: RunningOpen rules out that a request acts after       *)
(* cleanup, Undone that Close leaves something.                            *)
LEMMA SlateStep ==
  ASSUME ~MultiThreaded, SlateInv, ExclInv', [Next]_vars
  PROVE  CleanSlate' /\ RunningOpen' /\ Undone'
<1> USE DEF SlateInv, ExclInv
<1>1. ASSUME NEW f \in Files, NEW readAccess \in BOOLEAN, Create(f, readAccess)
      PROVE  CleanSlate' /\ RunningOpen' /\ Undone'
  <2>1. pCaptureObject # f
    BY <1>1, ControlAssumption DEF Create, Capturer
  <2>2. pCaptureObject = NoFile => buffer = NoBuffer /\ filter \subseteq late
    BY ControlAssumption DEF CleanSlate, Typed
  <2>3. CleanSlate'
    BY <1>1, <2>2 DEF Create, filterVars, CleanSlate
  <2>4. RunningOpen'
    BY <1>1 DEF Create, RunningOpen, Typed
  <2>5. Undone'
    BY <1>1, <2>1, <2>2 DEF Create, filterVars, Undone, Typed
  <2>. QED
    BY <2>3, <2>4, <2>5
<1>2. ASSUME NEW i \in Irps, NEW f \in Files, NEW op \in Ops,
             AllowCapture(i, f, op)
      PROVE  CleanSlate' /\ RunningOpen' /\ Undone'
  <2>1. RunningOpen'
    BY <1>2, RequestTyped DEF AllowCapture, RunningOpen, Typed
  <2>. QED
    BY <1>2, <2>1 DEF AllowCapture, filterVars, CleanSlate, Undone
<1>3. ASSUME NEW i \in Irps, Proceed(i)
      PROVE  CleanSlate' /\ RunningOpen' /\ Undone'
  <2>1. irp[i].at \in {"checked", "buffered"}
    BY <1>3 DEF Proceed, SetUpBuffer, StartFiltering, StopFiltering, Reject,
                ReadCheckBuffer, ReadLocked, At
  <2>2. /\ irp[i] # Free /\ irp[i].file \in Files
        /\ irp[i].file = pCaptureObject /\ file[pCaptureObject] = "open"
    BY <2>1, Served
  <2>3. UNCHANGED <<file, pCaptureObject>>
    BY <1>3 DEF Proceed, SetUpBuffer, StartFiltering, StopFiltering, Reject,
                ReadCheckBuffer, ReadLocked
  <2>4. Undone'
    BY <2>2, <2>3 DEF Undone
  <2>5. RunningOpen'
    <3>1. \A j \in Irps : j # i => irp'[j] = irp[j]
      BY <1>3 DEF Proceed, SetUpBuffer, StartFiltering, StopFiltering,
                  Reject, ReadCheckBuffer, ReadLocked, Complete, Typed
    <3>2. irp'[i] = Free \/ irp'[i].file = pCaptureObject
      BY <2>3 DEF CaptureExclusive
    <3>. QED
      BY <2>2, <2>3, <3>1, <3>2 DEF RunningOpen
  <2>6. CleanSlate'
    <3>1. CASE SetUpBuffer(i)
      BY <2>2, <2>3, <3>1 DEF SetUpBuffer, filterVars, CleanSlate
    <3>2. CASE StartFiltering(i)
      BY <2>2, <2>3, <3>2 DEF StartFiltering, Overwrite, CleanSlate
    <3>3. CASE StopFiltering(i)
      BY <2>3, <3>3 DEF StopFiltering, Overwrite, CleanSlate
    <3>4. CASE Reject(i) \/ ReadCheckBuffer(i)
      BY <2>3, <3>4 DEF Reject, ReadCheckBuffer, filterVars, CleanSlate
    <3>5. CASE ReadLocked(i)
      <4>1. CASE UNCHANGED buffer
        BY <2>3, <3>5, <4>1 DEF ReadLocked, filterVars, CleanSlate
      <4>2. ASSUME NEW left \in 0 .. buffer.unread - 1,
                   buffer' = [buffer EXCEPT !.unread = left]
            PROVE  CleanSlate'
        <5>1. buffer # NoBuffer
          BY <4>2 DEF NoBuffer
        <5>2. buffer'.owner = buffer.owner
          BY <4>2, <5>1 DEF Typed
        <5>. QED
          BY <2>3, <3>5, <5>1, <5>2 DEF ReadLocked, filterVars, CleanSlate
      <4>. QED
        BY <3>5, <4>1, <4>2 DEF ReadLocked
    <3>. QED
      BY <1>3, <3>1, <3>2, <3>3, <3>4, <3>5 DEF Proceed
  <2>. QED
    BY <2>4, <2>5, <2>6
<1>4. ASSUME NEW i \in Irps, CancelRead(i)
      PROVE  CleanSlate' /\ RunningOpen' /\ Undone'
  BY <1>4, CompleteKeeps
     DEF CancelRead, filterVars, CleanSlate, RunningOpen, Undone
<1>5. ASSUME NEW u \in Urbs, AnalyzeURB(u) \/ StorePacket(u)
      PROVE  CleanSlate' /\ RunningOpen' /\ Undone'
  <2>1. /\ \A j \in Irps : irp'[j] = Free \/ irp'[j] = irp[j]
        /\ UNCHANGED <<file, pCaptureObject, filterVars>>
    <3>1. CASE irp' = irp
      BY <1>5, <3>1 DEF AnalyzeURB, StorePacket
    <3>2. CASE Complete(Head(lePendIrp))
      BY <1>5, <3>2, CompleteKeeps DEF AnalyzeURB, StorePacket
    <3>. QED
      BY <1>5, <3>1, <3>2 DEF AnalyzeURB, StorePacket
  <2>2. \/ buffer' = buffer
        \/ buffer # NoBuffer /\ buffer'.owner = buffer.owner
    BY <1>5 DEF AnalyzeURB, StorePacket, Typed
  <2>. QED
    BY <2>1, <2>2 DEF filterVars, CleanSlate, RunningOpen, Undone
<1>6. ASSUME NEW f \in Files, BeginCleanup(f)
      PROVE  CleanSlate' /\ RunningOpen' /\ Undone'
  <2>1. RunningOpen'
    BY <1>6, StageChange DEF BeginCleanup, ClientReady
  <2>. QED
    BY <1>6, <2>1 DEF BeginCleanup, filterVars, CleanSlate, Undone, Typed
<1>7. ASSUME NEW f \in Files, DkCsqCleanUpQueue(f)
      PROVE  CleanSlate' /\ RunningOpen' /\ Undone'
  <2>1. CASE irp' = irp /\ file' = [file EXCEPT ![f] = "queueEmpty"]
    <3>1. RunningOpen'
      BY <1>7, <2>1, StageChange DEF DkCsqCleanUpQueue
    <3>. QED
      BY <1>7, <2>1, <3>1
         DEF DkCsqCleanUpQueue, filterVars, CleanSlate, Undone, Typed
  <2>2. ASSUME NEW i, Complete(i), UNCHANGED file
        PROVE  CleanSlate' /\ RunningOpen' /\ Undone'
    BY <1>7, <2>2, CompleteKeeps
       DEF DkCsqCleanUpQueue, filterVars, CleanSlate, RunningOpen, Undone
  <2>. QED
    BY <1>7, <2>1, <2>2 DEF DkCsqCleanUpQueue
<1>8. ASSUME NEW f \in Files, ClearFilter(f) \/ USBPcapBufferRemoveBuffer(f)
      PROVE  CleanSlate' /\ RunningOpen' /\ Undone'
  <2>1. CleanSlate' /\ Undone'
    BY <1>8 DEF ClearFilter, Overwrite, USBPcapBufferRemoveBuffer, filterVars,
                CleanSlate, Undone, Typed
  <2>2. RunningOpen'
    BY <1>8, StageChange DEF ClearFilter, USBPcapBufferRemoveBuffer
  <2>. QED
    BY <2>1, <2>2
<1>9. ASSUME NEW f \in Files, Close(f)
      PROVE  CleanSlate' /\ RunningOpen' /\ Undone'
  <2>1. RunningOpen'
    BY <1>9 DEF Close, RunningOpen, Typed
  <2>2. CleanSlate'
    BY <1>9 DEF Close, filterVars, CleanSlate, Undone
  <2>3. Undone'
    BY <1>9, ControlAssumption DEF Close, filterVars, Undone, Typed
  <2>. QED
    BY <2>1, <2>2, <2>3
<1>10. CASE UNCHANGED vars
  BY <1>10 DEF vars, filterVars, CleanSlate, RunningOpen, Undone
<1>11. ASSUME NEW d \in Devices,
              TestNewDevice(d) \/ LoadWord(d) \/ USBPcapSetDeviceFiltered(d)
       PROVE  CleanSlate' /\ RunningOpen' /\ Undone'
  <2>1. UNCHANGED <<file, pCaptureObject, irp, buffer>>
    BY <1>11 DEF TestNewDevice, LoadWord, USBPcapSetDeviceFiltered
  <2>2. filter' \ late' \subseteq filter \ late
    BY <1>11 DEF TestNewDevice, LoadWord, USBPcapSetDeviceFiltered
  <2>. QED
    BY <2>1, <2>2 DEF CleanSlate, RunningOpen, Undone
<1>. QED
  BY <1>1, <1>2, <1>3, <1>4, <1>5, <1>6, <1>7, <1>8, <1>9, <1>10, <1>11
     DEF Next, CleanUpAndClose

(* For any number of clients that do not use a handle while closing it,    *)
(* and of devices that start, the buffer and the filter always are the     *)
(* ones the capturing handle set up, except for bits that a device start   *)
(* wrote back after they were cleared: IRP_MJ_CLEANUP undoes every         *)
(* SETUP_BUFFER and START_FILTERING before IRP_MJ_CLOSE lets the next      *)
(* client in.                                                              *)
THEOREM SlateAlwaysClean ==
  ASSUME ~MultiThreaded
  PROVE  Spec => []CleanSlate
<1>1. Init => SlateInv
  BY ExclInit, ControlAssumption
     DEF Init, SlateInv, CleanSlate, RunningOpen, Undone
<1>2. SlateInv /\ [Next]_vars => SlateInv'
  BY ExclStep, SlateStep DEF SlateInv
<1>3. SlateInv => CleanSlate
  BY DEF SlateInv
<1>. QED
  BY <1>1, <1>2, <1>3, PTL DEF Spec
-----------------------------------------------------------------------------
(* The queue holds exactly the pended reads. *)

In(i, q) == \E k \in 1 .. Len(q) : q[k] = i
Once(q) == \A k, l \in 1 .. Len(q) : q[k] = q[l] => k = l

(* Taking the k-th entry out of a queue takes that one and no other.       *)
LEMMA DequeuedOne ==
  ASSUME NEW q \in Seq(Irps), Once(q), NEW k \in 1 .. Len(q), NEW r,
         r = Dequeued(q, k)
  PROVE  /\ r \in Seq(Irps) /\ Once(r)
         /\ \A i : In(i, r) <=> In(i, q) /\ i # q[k]
<1>1. Len(q) \in Nat /\ k \in Nat /\ k >= 1 /\ k <= Len(q)
  OBVIOUS
<1>2. \A j \in 1 .. Len(q) : q[j] \in Irps
  OBVIOUS
<1>3. r = [j \in 1 .. Len(q) - 1 |-> IF j < k THEN q[j] ELSE q[j + 1]]
  BY DEF Dequeued
<1>4. \A j \in 1 .. Len(q) - 1 : r[j] \in Irps
  BY <1>1, <1>2, <1>3
<1>5. r \in Seq(Irps) /\ Len(r) = Len(q) - 1
  BY <1>1, <1>3, <1>4
<1>6. Once(r)
  BY <1>1, <1>3, <1>5 DEF Once
<1>7. ASSUME NEW i, In(i, r) PROVE In(i, q) /\ i # q[k]
  <2>1. PICK l \in 1 .. Len(r) : r[l] = i
    BY <1>7 DEF In
  <2>2. CASE l < k
    BY <1>1, <1>3, <1>5, <2>1, <2>2 DEF In, Once
  <2>3. CASE l >= k
    BY <1>1, <1>3, <1>5, <2>1, <2>3 DEF In, Once
  <2> QED
    BY <1>1, <1>5, <2>2, <2>3
<1>8. ASSUME NEW i, In(i, q), i # q[k] PROVE In(i, r)
  <2>1. PICK l \in 1 .. Len(q) : q[l] = i
    BY <1>8 DEF In
  <2>2. CASE l < k
    <3>1. l \in 1 .. Len(r) /\ r[l] = i
      BY <1>1, <1>3, <1>5, <2>1, <2>2
    <3> QED
      BY <3>1 DEF In
  <2>3. CASE l > k
    <3>1. l - 1 \in 1 .. Len(r) /\ r[l - 1] = i
      BY <1>1, <1>3, <1>5, <2>1, <2>3
    <3> QED
      BY <3>1 DEF In
  <2> QED
    BY <1>1, <1>8, <2>1, <2>2, <2>3
<1> QED
  BY <1>5, <1>6, <1>7, <1>8

(* The oldest read is the first entry.                                     *)
LEMMA OldestFirst ==
  ASSUME NEW q \in Seq(Irps), q # <<>>
  PROVE  /\ 1 \in 1 .. Len(q) /\ Head(q) = q[1]
         /\ Tail(q) = Dequeued(q, 1)
<1>1. Len(q) \in Nat /\ Len(q) # 0
  BY EmptySeq
<1>2. /\ Tail(q) \in Seq(Irps) /\ Len(Tail(q)) = Len(q) - 1
      /\ \A j \in 1 .. Len(Tail(q)) : Tail(q)[j] = q[j + 1]
  BY HeadTailProperties
<1>3. /\ Dequeued(q, 1) \in Seq(Irps) /\ Len(Dequeued(q, 1)) = Len(q) - 1
      /\ \A j \in 1 .. Len(q) - 1 : Dequeued(q, 1)[j] = q[j + 1]
  BY <1>1 DEF Dequeued
<1>4. Tail(q) = Dequeued(q, 1)
  BY <1>2, <1>3, SeqEqual
<1> QED
  BY <1>1, <1>4

Pended(i) == irp[i].at = "pended"

(* A request is completed with or without being in the queue.              *)
LEMMA RequestFreed ==
  ASSUME TypeOK, NEW i \in Irps, Complete(i),
         \/ ~Pended(i) /\ UNCHANGED lePendIrp
         \/ \E k \in 1 .. Len(lePendIrp) :
              lePendIrp[k] = i /\ lePendIrp' = Dequeued(lePendIrp, k)
  PROVE  /\ irp' \in [Irps -> {Free} \cup InFlight]
         /\ lePendIrp' \in Seq(Irps) /\ Once(lePendIrp')
         /\ \A j \in Irps : Pended(j)' <=> In(j, lePendIrp')
<1>1. /\ irp \in [Irps -> {Free} \cup InFlight]
      /\ lePendIrp \in Seq(Irps) /\ Once(lePendIrp)
      /\ \A j \in Irps : Pended(j) <=> In(j, lePendIrp)
  BY DEF TypeOK, InFlight, Once, Pended, In
<1>2. /\ irp' \in [Irps -> {Free} \cup InFlight] /\ ~Pended(i)'
      /\ \A j \in Irps : j # i => Pended(j)' = Pended(j)
  BY <1>1, FreeFile DEF Complete, Pended
<1>3. CASE ~Pended(i) /\ UNCHANGED lePendIrp
  <2>1. \A j : In(j, lePendIrp') = In(j, lePendIrp)
    BY <1>3
  <2> QED
    BY <1>1, <1>2, <1>3, <2>1
<1>4. ASSUME NEW k \in 1 .. Len(lePendIrp), lePendIrp[k] = i,
             lePendIrp' = Dequeued(lePendIrp, k)
      PROVE  /\ lePendIrp' \in Seq(Irps) /\ Once(lePendIrp')
             /\ \A j \in Irps : Pended(j)' <=> In(j, lePendIrp')
  <2>1. PICK q : q = lePendIrp
    OBVIOUS
  <2>2. /\ lePendIrp' \in Seq(Irps) /\ Once(lePendIrp')
        /\ \A j : In(j, lePendIrp') <=> In(j, q) /\ j # q[k]
    BY <1>1, <1>4, <2>1, DequeuedOne
  <2> QED
    BY <1>1, <1>2, <1>4, <2>1, <2>2
<1> QED
  BY <1>2, <1>3, <1>4

(* A request is let in, or gets on.                                        *)
LEMMA RequestMoved ==
  ASSUME TypeOK, NEW i \in Irps, NEW x \in InFlight, x.at # "pended", ~Pended(i),
         irp' = [irp EXCEPT ![i] = x], UNCHANGED lePendIrp
  PROVE  /\ irp' \in [Irps -> {Free} \cup InFlight]
         /\ lePendIrp' \in Seq(Irps) /\ Once(lePendIrp')
         /\ \A j \in Irps : Pended(j)' <=> In(j, lePendIrp')
<1>1. /\ irp \in [Irps -> {Free} \cup InFlight]
      /\ lePendIrp \in Seq(Irps) /\ Once(lePendIrp)
      /\ \A j \in Irps : Pended(j) <=> In(j, lePendIrp)
  BY DEF TypeOK, InFlight, Once, Pended, In
<1>2. \A j : In(j, lePendIrp') = In(j, lePendIrp)
  OBVIOUS
<1> QED
  BY <1>1, <1>2 DEF Pended

(* A read is pended at the end of the queue.                               *)
LEMMA RequestPended ==
  ASSUME TypeOK, NEW i \in Irps, irp[i] \in InFlight, ~Pended(i),
         irp' = [irp EXCEPT ![i].at = "pended"], lePendIrp' = Append(lePendIrp, i)
  PROVE  /\ irp' \in [Irps -> {Free} \cup InFlight]
         /\ lePendIrp' \in Seq(Irps) /\ Once(lePendIrp')
         /\ \A j \in Irps : Pended(j)' <=> In(j, lePendIrp')
<1>1. /\ irp \in [Irps -> {Free} \cup InFlight]
      /\ lePendIrp \in Seq(Irps) /\ Once(lePendIrp)
      /\ \A j \in Irps : Pended(j) <=> In(j, lePendIrp)
  BY DEF TypeOK, InFlight, Once, Pended, In
<1>2. PICK q \in Seq(Irps) : q = lePendIrp
  BY <1>1
<1>3. PICK r : r = Append(q, i)
  OBVIOUS
<1>4. /\ r \in Seq(Irps) /\ Len(r) = Len(q) + 1 /\ Len(q) \in Nat
      /\ r[Len(q) + 1] = i /\ \A k \in 1 .. Len(q) : r[k] = q[k]
  BY <1>3
<1>5. ~In(i, q) /\ Once(q)
  BY <1>1, <1>2
<1>6. Once(r)
  BY <1>4, <1>5 DEF Once, In
<1>7. \A j : In(j, r) <=> In(j, q) \/ j = i
  BY <1>4 DEF In
<1>8. /\ irp' \in [Irps -> {Free} \cup InFlight] /\ Pended(i)'
      /\ \A j \in Irps : j # i => Pended(j)' = Pended(j)
  BY <1>1 DEF Pended, InFlight
<1> QED
  BY <1>1, <1>2, <1>3, <1>4, <1>6, <1>7, <1>8

(* What the queue and the requests in flight are in TypeOK.                *)
QueueOK ==
  /\ irp \in [Irps -> {Free} \cup InFlight]
  /\ lePendIrp \in Seq(Irps) /\ Once(lePendIrp)
  /\ \A j \in Irps : Pended(j) <=> In(j, lePendIrp)

RestOK ==
  /\ file \in [Files -> Stages]
  /\ pCaptureObject \in Files \cup {NoFile}
  /\ buffer \in {NoBuffer} \cup [owner : Files, unread : 0 .. MaxUnread]
  /\ late \subseteq filter /\ filter \subseteq Files
  /\ start \in [Devices -> Starts]
  /\ urb \subseteq Urbs

LEMMA TypeParts == TypeOK <=> QueueOK /\ RestOK
BY DEF TypeOK, QueueOK, RestOK, InFlight, Starts, Once, Pended, In

LEMMA TypePartsNext == TypeOK' <=> QueueOK' /\ RestOK'
BY DEF TypeOK, QueueOK, RestOK, InFlight, Starts, Once, Pended, In

LEMMA QueueSame == TypeOK /\ UNCHANGED <<irp, lePendIrp>> => QueueOK'
BY TypeParts DEF QueueOK, Pended

(* The buffer with another number of chunks.                               *)
LEMMA BufferRest ==
  ASSUME TypeOK, NEW n \in 0 .. MaxUnread, buffer # NoBuffer
  PROVE  [buffer EXCEPT !.unread = n] \in [owner : Files, unread : 0 .. MaxUnread]
BY DEF TypeOK

LEMMA ControlTypeStep ==
  ASSUME TypeOK, [Next]_vars
  PROVE  TypeOK'
<1> USE TypeParts, TypePartsNext
<1>0. QueueOK /\ RestOK
  OBVIOUS
<1>1. ASSUME NEW f \in Files, NEW readAccess \in BOOLEAN, Create(f, readAccess)
      PROVE  TypeOK'
  BY <1>0, <1>1, QueueSame DEF Create, filterVars, RestOK, Stages
<1>2. ASSUME NEW i \in Irps, NEW f \in Files, NEW op \in Ops, AllowCapture(i, f, op)
      PROVE  TypeOK'
  <2>1. ~Pended(i) /\ Request(op, f, "checked").at # "pended"
    BY <1>2, FreeFile DEF AllowCapture, Pended, Request
  <2>2. QueueOK'
    BY <1>2, <2>1, RequestMoved, RequestTyped DEF AllowCapture, QueueOK
  <2> QED
    BY <1>0, <1>2, <2>2 DEF AllowCapture, filterVars, RestOK
<1>3. ASSUME NEW i \in Irps, Proceed(i) PROVE TypeOK'
  <2>1. irp[i].at # "free" => irp[i] \in InFlight /\ irp[i].file \in Files
    BY <1>0, FreeFile DEF QueueOK, InFlight
  <2>2. CASE SetUpBuffer(i) \/ StartFiltering(i) \/ StopFiltering(i) \/ Reject(i)
    <3>1. /\ irp[i].at = "checked" /\ Complete(i) /\ UNCHANGED lePendIrp
          /\ UNCHANGED <<file, pCaptureObject, urb>>
      BY <2>2 DEF SetUpBuffer, StartFiltering, StopFiltering, Reject, At
    <3>2. QueueOK'
      BY <3>1, RequestFreed DEF QueueOK, Pended
    <3>3. [owner |-> irp[i].file, unread |-> 1] \in [owner : Files, unread : 0 .. MaxUnread]
      BY <2>1, <3>1, ControlAssumption
    <3>4. RestOK'
      <4>1. CASE SetUpBuffer(i)
        BY <1>0, <3>1, <3>3, <4>1 DEF SetUpBuffer, filterVars, RestOK
      <4>2. CASE StartFiltering(i)
        BY <1>0, <2>1, <3>1, <4>2 DEF StartFiltering, Overwrite, RestOK
      <4>3. CASE StopFiltering(i) \/ Reject(i)
        BY <1>0, <3>1, <4>3 DEF StopFiltering, Overwrite, Reject, filterVars, RestOK
      <4> QED
        BY <2>2, <4>1, <4>2, <4>3
    <3> QED
      BY <3>2, <3>4
  <2>3. CASE ReadCheckBuffer(i)
    <3>1. irp[i].at = "checked" /\ UNCHANGED lePendIrp /\ ~Pended(i)
      BY <2>3 DEF ReadCheckBuffer, At, Pended
    <3>2. CASE buffer = NoBuffer
      BY <2>3, <3>1, <3>2, RequestFreed
         DEF ReadCheckBuffer, Complete, filterVars, QueueOK, RestOK
    <3>3. CASE buffer # NoBuffer
      <4>1. PICK x : x = [irp[i] EXCEPT !.at = "buffered"]
        OBVIOUS
      <4>2. x \in InFlight /\ x.at # "pended"
        BY <2>1, <3>1, <4>1 DEF InFlight
      <4>3. irp' = [irp EXCEPT ![i] = x]
        BY <2>3, <3>3, <4>1 DEF ReadCheckBuffer
      <4>4. QueueOK'
        BY <3>1, <4>2, <4>3, RequestMoved DEF QueueOK
      <4> QED
        BY <1>0, <2>3, <4>4 DEF ReadCheckBuffer, filterVars, RestOK
    <3> QED
      BY <3>2, <3>3
  <2>4. CASE ReadLocked(i)
    <3>1. irp[i].at = "buffered" /\ ~Pended(i) /\ UNCHANGED <<file, pCaptureObject, filterVars, urb>>
      BY <2>4 DEF ReadLocked, At, Pended
    <3>2. CASE /\ irp' = [irp EXCEPT ![i].at = "pended"]
               /\ lePendIrp' = Append(lePendIrp, i) /\ UNCHANGED buffer
      <4>1. QueueOK'
        BY <2>1, <3>1, <3>2, RequestPended DEF QueueOK
      <4> QED
        BY <1>0, <3>1, <3>2, <4>1 DEF filterVars, RestOK
    <3>3. ASSUME NEW left \in 0 .. buffer.unread - 1,
                 buffer' = [buffer EXCEPT !.unread = left],
                 Complete(i), UNCHANGED lePendIrp
          PROVE  TypeOK'
      <4>1. QueueOK'
        BY <3>1, <3>3, RequestFreed DEF QueueOK
      <4>2. buffer # NoBuffer
        BY <3>3 DEF NoBuffer
      <4>3. buffer.unread \in 0 .. MaxUnread
        BY <1>0, <4>2 DEF RestOK
      <4>4. left \in 0 .. MaxUnread
        BY <3>3, <4>3, ControlAssumption
      <4>5. buffer' \in [owner : Files, unread : 0 .. MaxUnread]
        BY <3>3, <4>2, <4>4, BufferRest
      <4> QED
        BY <1>0, <3>1, <4>1, <4>5 DEF filterVars, RestOK
    <3> QED
      BY <2>4, <3>2, <3>3 DEF ReadLocked
  <2> QED
    BY <1>3, <2>2, <2>3, <2>4 DEF Proceed
<1>4. ASSUME NEW i \in Irps, CancelRead(i) PROVE TypeOK'
  <2>1. QueueOK'
    BY <1>4, RequestFreed DEF CancelRead, QueueOK
  <2> QED
    BY <1>0, <1>4, <2>1 DEF CancelRead, filterVars, RestOK
<1>5. ASSUME NEW u \in Urbs, AnalyzeURB(u) PROVE TypeOK'
  BY <1>0, <1>5, QueueSame DEF AnalyzeURB, filterVars, RestOK
<1>6. ASSUME NEW u \in Urbs, StorePacket(u) PROVE TypeOK'
  <2>1. UNCHANGED <<file, pCaptureObject, filterVars>> /\ urb' \subseteq Urbs
    BY <1>0, <1>6 DEF StorePacket, RestOK
  <2>2. CASE UNCHANGED <<irp, lePendIrp, buffer>>
    BY <1>0, <2>1, <2>2, QueueSame DEF filterVars, RestOK
  <2>3. ASSUME buffer # NoBuffer, buffer.unread < MaxUnread,
               NEW n \in 0 .. buffer.unread + 1, buffer' = [buffer EXCEPT !.unread = n]
        PROVE  RestOK'
    <3>1. buffer.unread \in 0 .. MaxUnread
      BY <1>0, <2>3 DEF RestOK
    <3>2. n \in 0 .. MaxUnread
      BY <2>3, <3>1, ControlAssumption
    <3>3. buffer' \in [owner : Files, unread : 0 .. MaxUnread]
      BY <2>3, <3>2, BufferRest
    <3> QED
      BY <1>0, <2>1, <3>3 DEF filterVars, RestOK
  <2>4. CASE /\ buffer # NoBuffer /\ buffer.unread < MaxUnread
             /\ buffer' = [buffer EXCEPT !.unread = @ + 1]
             /\ UNCHANGED <<irp, lePendIrp>>
    <3>1. buffer.unread \in 0 .. MaxUnread
      BY <1>0, <2>4 DEF RestOK
    <3>2. PICK n : n = buffer.unread + 1
      OBVIOUS
    <3>3. n \in 0 .. buffer.unread + 1 /\ buffer' = [buffer EXCEPT !.unread = n]
      BY <2>4, <3>1, <3>2
    <3> QED
      BY <2>3, <2>4, <3>3, QueueSame
  <2>5. ASSUME buffer # NoBuffer, buffer.unread < MaxUnread, lePendIrp # <<>>,
               NEW n \in 0 .. buffer.unread + 1, buffer' = [buffer EXCEPT !.unread = n],
               Complete(Head(lePendIrp)), lePendIrp' = Tail(lePendIrp)
        PROVE  TypeOK'
    <3>1. PICK q \in Seq(Irps) : q = lePendIrp
      BY <1>0 DEF QueueOK
    <3>2. 1 \in 1 .. Len(q) /\ Head(q) = q[1] /\ Tail(q) = Dequeued(q, 1)
      BY <2>5, <3>1, OldestFirst
    <3>3. q[1] \in Irps
      BY <3>2
    <3>4. QueueOK'
      BY <2>5, <3>1, <3>2, <3>3, RequestFreed DEF QueueOK
    <3> QED
      BY <2>3, <2>5, <3>4
  <2> QED
    BY <1>6, <2>2, <2>4, <2>5 DEF StorePacket
<1>7. ASSUME NEW f \in Files, DkCsqCleanUpQueue(f) PROVE TypeOK'
  <2>1. CASE UNCHANGED <<irp, lePendIrp>>
    BY <1>0, <1>7, <2>1, QueueSame DEF DkCsqCleanUpQueue, filterVars, RestOK, Stages
  <2>2. ASSUME NEW k \in 1 .. Len(lePendIrp), Complete(lePendIrp[k]),
               lePendIrp' = Dequeued(lePendIrp, k), UNCHANGED file
        PROVE  TypeOK'
    <3>1. lePendIrp[k] \in Irps
      BY <1>0, <2>2 DEF QueueOK
    <3>2. QueueOK'
      BY <2>2, <3>1, RequestFreed DEF QueueOK
    <3> QED
      BY <1>0, <1>7, <2>2, <3>2 DEF DkCsqCleanUpQueue, filterVars, RestOK
  <2> QED
    BY <1>7, <2>1, <2>2 DEF DkCsqCleanUpQueue
<1>8. ASSUME NEW f \in Files,
             BeginCleanup(f) \/ ClearFilter(f) \/ USBPcapBufferRemoveBuffer(f) \/ Close(f)
      PROVE  TypeOK'
  BY <1>0, <1>8, QueueSame
     DEF BeginCleanup, ClearFilter, Overwrite, USBPcapBufferRemoveBuffer, Close,
         filterVars, RestOK, Stages
<1>9. ASSUME NEW d \in Devices,
             TestNewDevice(d) \/ LoadWord(d) \/ USBPcapSetDeviceFiltered(d)
      PROVE  TypeOK'
  <2>1. filter' \subseteq Files /\ start' \in [Devices -> Starts]
    BY <1>0, <1>9, StartMoves DEF RestOK
  <2>2. late' \subseteq filter'
    BY <1>0, <1>9 DEF TestNewDevice, LoadWord, USBPcapSetDeviceFiltered, RestOK
  <2>3. UNCHANGED <<file, pCaptureObject, irp, lePendIrp, buffer, urb>>
    BY <1>9 DEF TestNewDevice, LoadWord, USBPcapSetDeviceFiltered
  <2> QED
    BY <1>0, <2>1, <2>2, <2>3, QueueSame DEF RestOK
<1>10. CASE UNCHANGED vars
  BY <1>0, <1>10, QueueSame DEF vars, filterVars, RestOK
<1> QED
  BY <1>1, <1>2, <1>3, <1>4, <1>5, <1>6, <1>7, <1>8, <1>9, <1>10
     DEF Next, CleanUpAndClose

(* The cancel-safe queue holds exactly the pended reads, each once, for    *)
(* any number of clients and requests: no read is lost when it is          *)
(* cancelled, served or cleaned up, and none is completed twice.           *)
THEOREM ControlTypes == Spec => []TypeOK
<1>1. Init => TypeOK
  BY FreeFile DEF Init, TypeOK, NoStart, Stages
<1>2. TypeOK /\ [Next]_vars => TypeOK'
  BY ControlTypeStep
<1> QED
  BY <1>1, <1>2, PTL DEF Spec
-----------------------------------------------------------------------------
(* No read waits for a buffer that is gone. *)

(* The parts of IRP_MJ_CLEANUP are done for the capturing handle;          *)
Cleaning ==
  \A f \in Files : file[f] \in {"cleanup", "queueEmpty", "filterOff"}
                     => pCaptureObject = f

(* once its queue was emptied it has no request left;                      *)
Emptied ==
  \A f \in Files :
    pCaptureObject = f /\ file[f] \in {"queueEmpty", "filterOff", "cleaned"}
      => \A i \in Irps : irp[i] = Free

(* and a read that found a buffer still has it.                            *)
Buffered ==
  \A i \in Irps : irp[i].at \in {"buffered", "pended"} => buffer # NoBuffer

WaitInv == Cleaning /\ Emptied /\ Buffered

(* A buffer somebody owns stays one, whatever is left in it.               *)
LEMMA OwnedBuffer ==
  ASSUME Typed, buffer # NoBuffer, NEW n,
         buffer' = [buffer EXCEPT !.unread = n]
  PROVE  buffer' # NoBuffer
BY ControlAssumption DEF Typed, NoBuffer

LEMMA WaitStep ==
  ASSUME ~MultiThreaded, SlateInv, TypeOK, WaitInv, [Next]_vars
  PROVE  WaitInv'
<1> USE DEF SlateInv, ExclInv, WaitInv
<1>1. ASSUME NEW f \in Files, NEW readAccess \in BOOLEAN, Create(f, readAccess)
      PROVE  WaitInv'
  <2>1. Cleaning'
    BY <1>1, ControlAssumption DEF Create, Cleaning, Typed
  <2>2. Emptied'
    BY <1>1 DEF Create, Emptied, Typed
  <2>. QED
    BY <1>1, <2>1, <2>2 DEF Create, Buffered
<1>2. ASSUME NEW i \in Irps, NEW f \in Files, NEW op \in Ops,
             AllowCapture(i, f, op)
      PROVE  WaitInv'
  <2>1. Request(op, f, "checked").at = "checked"
    BY DEF Request
  <2>2. Buffered'
    BY <1>2, <2>1 DEF AllowCapture, Buffered, Typed
  <2>. QED
    BY <1>2, <2>2 DEF AllowCapture, Cleaning, Emptied
<1>3. ASSUME NEW i \in Irps, Proceed(i)
      PROVE  WaitInv'
  <2>1. irp[i].at \in {"checked", "buffered"}
    BY <1>3 DEF Proceed, SetUpBuffer, StartFiltering, StopFiltering, Reject,
                ReadCheckBuffer, ReadLocked, At
  <2>2. /\ irp[i] # Free /\ irp[i].file \in Files
        /\ irp[i].file = pCaptureObject /\ file[pCaptureObject] = "open"
    BY <2>1, Served
  <2>3. UNCHANGED <<file, pCaptureObject>>
    BY <1>3 DEF Proceed, SetUpBuffer, StartFiltering, StopFiltering, Reject,
                ReadCheckBuffer, ReadLocked
  <2>4. Cleaning' /\ Emptied'
    BY <2>2, <2>3 DEF Cleaning, Emptied
  <2>5. \A j \in Irps : j # i => irp'[j] = irp[j]
    BY <1>3 DEF Proceed, SetUpBuffer, StartFiltering, StopFiltering,
                Reject, ReadCheckBuffer, ReadLocked, Complete, Typed
  <2>6. buffer # NoBuffer => buffer' # NoBuffer
    <3>1. ASSUME NEW left, buffer # NoBuffer,
                 buffer' = [buffer EXCEPT !.unread = left]
          PROVE  buffer' # NoBuffer
      BY <3>1, OwnedBuffer
    <3>. QED
      BY <1>3, <3>1 DEF Proceed, SetUpBuffer, StartFiltering, StopFiltering,
                        Reject, ReadCheckBuffer, ReadLocked
  <2>7. irp'[i].at \in {"buffered", "pended"} => buffer' # NoBuffer
    <3>1. CASE irp' = [irp EXCEPT ![i] = Free]
      BY <3>1, FreeFile DEF Typed
    <3>2. CASE ReadCheckBuffer(i) /\ buffer # NoBuffer
      BY <2>6, <3>2
    <3>3. CASE ReadLocked(i)
      BY <2>6, <3>3 DEF ReadLocked, At, Buffered
    <3>. QED
      BY <1>3, <3>1, <3>2, <3>3
         DEF Proceed, SetUpBuffer, StartFiltering, StopFiltering, Reject,
             ReadCheckBuffer, Complete
  <2>8. Buffered'
    BY <2>5, <2>6, <2>7 DEF Buffered
  <2>. QED
    BY <2>4, <2>8
<1>4. ASSUME NEW i \in Irps, CancelRead(i)
      PROVE  WaitInv'
  BY <1>4, CompleteKeeps, FreeFile
     DEF CancelRead, Cleaning, Emptied, Buffered
<1>5. ASSUME NEW u \in Urbs, AnalyzeURB(u) \/ StorePacket(u)
      PROVE  WaitInv'
  <2>1. /\ \A j \in Irps : irp'[j] = Free \/ irp'[j] = irp[j]
        /\ UNCHANGED <<file, pCaptureObject>>
    <3>1. CASE irp' = irp
      BY <1>5, <3>1 DEF AnalyzeURB, StorePacket
    <3>2. CASE Complete(Head(lePendIrp))
      BY <1>5, <3>2, CompleteKeeps DEF AnalyzeURB, StorePacket
    <3>. QED
      BY <1>5, <3>1, <3>2 DEF AnalyzeURB, StorePacket
  <2>2. buffer # NoBuffer => buffer' # NoBuffer
    <3>1. ASSUME NEW n, buffer # NoBuffer,
                 buffer' = [buffer EXCEPT !.unread = n]
          PROVE  buffer' # NoBuffer
      BY <3>1, OwnedBuffer
    <3>. QED
      BY <1>5, <3>1 DEF AnalyzeURB, StorePacket
  <2>. QED
    BY <2>1, <2>2, FreeFile DEF Cleaning, Emptied, Buffered
<1>6. ASSUME NEW f \in Files, BeginCleanup(f)
      PROVE  WaitInv'
  <2>1. Cleaning' /\ Emptied'
    BY <1>6 DEF BeginCleanup, Cleaning, Emptied, Typed
  <2>. QED
    BY <1>6, <2>1 DEF BeginCleanup, Buffered
<1>7. ASSUME NEW f \in Files, DkCsqCleanUpQueue(f)
      PROVE  WaitInv'
  <2>1. pCaptureObject = f /\ UNCHANGED <<pCaptureObject, buffer>>
    BY <1>7 DEF DkCsqCleanUpQueue, Cleaning
  <2>2. CASE /\ \A k \in 1 .. Len(lePendIrp) : irp[lePendIrp[k]].file # f
             /\ file' = [file EXCEPT ![f] = "queueEmpty"] /\ UNCHANGED irp
    <3>1. ASSUME NEW i \in Irps, irp[i] # Free PROVE FALSE
      <4>1. irp[i].file = f
        BY <2>1, <3>1 DEF CaptureExclusive
      <4>2. irp[i].at = "pended"
        BY <1>7, <3>1, <4>1 DEF DkCsqCleanUpQueue, RunningOpen
      <4>3. PICK k \in 1 .. Len(lePendIrp) : lePendIrp[k] = i
        BY <4>2 DEF TypeOK
      <4>. QED
        BY <2>2, <4>1, <4>3
    <3>. QED
      BY <2>1, <2>2, <3>1 DEF Cleaning, Emptied, Buffered, Typed
  <2>3. ASSUME NEW i, Complete(i), UNCHANGED file
        PROVE  WaitInv'
    BY <2>1, <2>3, CompleteKeeps, FreeFile DEF Cleaning, Emptied, Buffered
  <2>. QED
    BY <1>7, <2>2, <2>3 DEF DkCsqCleanUpQueue
<1>8. ASSUME NEW f \in Files, ClearFilter(f)
      PROVE  WaitInv'
  BY <1>8 DEF ClearFilter, Cleaning, Emptied, Buffered, Typed
<1>9. ASSUME NEW f \in Files, USBPcapBufferRemoveBuffer(f)
      PROVE  WaitInv'
  <2>1. \A i \in Irps : irp[i] = Free
    BY <1>9 DEF USBPcapBufferRemoveBuffer, Cleaning, Emptied
  <2>. QED
    BY <1>9, <2>1, FreeFile
       DEF USBPcapBufferRemoveBuffer, Cleaning, Emptied, Buffered, Typed
<1>10. ASSUME NEW f \in Files, Close(f)
       PROVE  WaitInv'
  BY <1>10, ControlAssumption DEF Close, Cleaning, Emptied, Buffered, Typed
<1>11. ASSUME NEW d \in Devices,
              TestNewDevice(d) \/ LoadWord(d) \/ USBPcapSetDeviceFiltered(d)
       PROVE  WaitInv'
  BY <1>11 DEF TestNewDevice, LoadWord, USBPcapSetDeviceFiltered, Cleaning,
               Emptied, Buffered
<1>12. CASE UNCHANGED vars
  BY <1>12 DEF vars, Cleaning, Emptied, Buffered
<1>. QED
  BY <1>1, <1>2, <1>3, <1>4, <1>5, <1>6, <1>7, <1>8, <1>9, <1>10, <1>11, <1>12
     DEF Next, CleanUpAndClose

(* For any number of clients that do not use a handle while closing it, no *)
(* read of the queue waits for a buffer that IRP_MJ_CLEANUP has removed,   *)
(* although USBPcapBufferHandleReadIrp tests for the buffer before it      *)
(* takes the lock under which it pends the read.                           *)
THEOREM ReadsAlwaysHaveBuffer ==
  ASSUME ~MultiThreaded
  PROVE  Spec => []ReadsHaveBuffer
<1>1. Init => SlateInv /\ TypeOK /\ WaitInv
  <2>1. Init => SlateInv
    BY ExclInit, ControlAssumption
       DEF Init, SlateInv, CleanSlate, RunningOpen, Undone
  <2>2. Init => TypeOK
    BY FreeFile DEF Init, TypeOK, NoStart, Stages
  <2>3. Init => WaitInv
    BY FreeFile DEF Init, WaitInv, Cleaning, Emptied, Buffered
  <2>. QED
    BY <2>1, <2>2, <2>3
<1>2. SlateInv /\ TypeOK /\ WaitInv /\ [Next]_vars => (SlateInv /\ TypeOK /\ WaitInv)'
  <2>1. SlateInv /\ [Next]_vars => SlateInv'
    BY ExclStep, SlateStep DEF SlateInv
  <2>. QED
    BY <2>1, ControlTypeStep, WaitStep
<1>3. TypeOK /\ WaitInv => ReadsHaveBuffer
  <2> SUFFICES ASSUME TypeOK, WaitInv, lePendIrp # <<>>
               PROVE  buffer # NoBuffer
    BY DEF ReadsHaveBuffer
  <2>1. lePendIrp \in Seq(Irps) /\ 1 \in 1 .. Len(lePendIrp)
    BY OldestFirst DEF TypeOK
  <2>2. lePendIrp[1] \in Irps /\ irp[lePendIrp[1]].at = "pended"
    BY <2>1 DEF TypeOK
  <2>. QED
    BY <2>2 DEF WaitInv, Buffered
<1>. QED
  BY <1>1, <1>2, <1>3, PTL DEF Spec
=============================================================================
