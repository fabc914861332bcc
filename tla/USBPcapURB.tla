----------------------------- MODULE USBPcapURB -----------------------------
(***************************************************************************)
(* The URBs of one USB device passing through its target filter:           *)
(* DkTgtInDevCtl and its completion routine, USBPcapAnalyzeURB on the way  *)
(* down and up, the endpoint table, the URB IRP table and the stored       *)
(* configuration descriptor, while captures come and go and the device is  *)
(* started and stopped.                                                    *)
(*                                                                         *)
(* A dispatch or a completion routine holds no lock from the test of the   *)
(* filter to the write of the packet, so these are steps of their own, and *)
(* those of two IRPs interleave.  The ring is module USBPcapBuffer: here a *)
(* packet is stored when there is a buffer, unless the ring is full.       *)
(*                                                                         *)
(* External: the function driver uses a pipe only between the completion   *)
(* of the selection that opened it and the next selection that closes it,  *)
(* has one selection under way at a time, sends requests once              *)
(* IRP_MN_START_DEVICE is completed, which is before this driver knows the *)
(* address, and stops the device when none is left; the USB stack opens all*)
(* pipes of a well-formed selection and fails any other, gives handles of  *)
(* closed pipes out again, and may turn an unknown function into a control *)
(* transfer.                                                               *)
(*                                                                         *)
(* Definitions named Faulty... are deliberately wrong variants of the one  *)
(* that follows; they show which property would notice the mistake.        *)
(***************************************************************************)
EXTENDS USBPcapPackets, Functions

CONSTANTS
  Irps,            \* IRPs of the function driver, used again and again
  Handles,         \* pipe handles of the USB stack
  Addresses,       \* addresses the device can be given, within 1..127
  Urbs,            \* for each IRP, the URBs it is used for
  Filters,         \* the filters that captures ask for
  IsoLengths,      \* lengths that the stack gives isochronous packets
  AllocMayFail     \* whether the pool can be exhausted

UrbFields == {"fn", "pipe", "in", "len", "type", "iso", "config", "number", "alt",
              "ifs", "ifsLen"}

UnknownAddress == 255
NewDevices     == 0        \* the filter bit "capture from new devices"

PipeInfos  == [ep : 0 .. 255, handle : Handles \cup {NoHandle},
               type : {"control", "isochronous", "bulk", "interrupt"}]
Interfaces == [number : Nat, Length : Nat, pipes : Seq(PipeInfos)]

(* What a function driver may put in a URB: a transfer names a pipe and a  *)
(* selection none, a request to select an interface describes that         *)
(* interface, the handles of a selection come from the stack, and a setup  *)
(* packet and the flags of a control transfer, here to the default         *)
(* endpoint, agree.                                                        *)
IsUrb(u) ==
  /\ DOMAIN u = UrbFields
  /\ u.pipe \in Handles \cup {NoHandle} /\ u.in \in BOOLEAN
  /\ u.len \in Nat /\ u.type \in 0 .. 255
  /\ u.iso \in Seq([offset : Nat, length : Nat])
  /\ u.ifs \in Seq(Interfaces) /\ u.ifsLen \in Nat
  /\ \A k \in DOMAIN u.ifs : \A j \in DOMAIN u.ifs[k].pipes :
       u.ifs[k].pipes[j].handle = NoHandle
  /\ u.fn = "SELECT_INTERFACE" => \A k \in DOMAIN u.ifs : u.ifs[k].number = u.number
  /\ u.fn = "BULK_OR_INTERRUPT_TRANSFER" => u.pipe # NoHandle
  /\ u.fn \in SelectFns => u.pipe = NoHandle
  /\ u.fn \in ControlFns => u.pipe = NoHandle /\ u.in = (u.type >= 128)

ASSUME URBAssumption ==
  /\ NoHandle \notin Handles
  /\ Addresses \subseteq 1 .. 127
  /\ \A i \in Irps : \A u \in Urbs[i] : IsUrb(u)
  /\ Filters \subseteq [all : BOOLEAN, addresses : SUBSET (Addresses \cup {NewDevices})]
  /\ IsoLengths \subseteq Nat
  /\ AllocMayFail \in BOOLEAN

NoFilter       == [all |-> FALSE, addresses |-> {}]
NoInfo         == [fn |-> "none", device |-> 0]
Closed         == [number |-> -1, ep |-> 0, type |-> "none"]
NoUrb          == [fn |-> "none"]

VARIABLES
  deviceAddress,   \* pDeviceData->deviceAddress
  endpointTable,   \* pDeviceData->endpointTable, by pipe handle
  URBIrpTable,     \* pDeviceData->URBIrpTable, by IRP
  descriptor,      \* pDeviceData->descriptor: its settings, {} for NULL
  filter,          \* pRootData->filter
  capture,         \* "off", or "ready", "closing" with a buffer
  start,           \* progress of IRP_MN_START_DEVICE and its filter bits
  irp,             \* each IRP: its stage, URB, and what was logged for it
  busPipe,         \* external: the pipes that are open
  busAddress,      \* external: the address the device has on the bus
  asked,           \* history: the filter the client asked for
  late,            \* history: whose test a new filter or address overtook
  lost,            \* history: handles the table had no memory for
  early            \* history: entries made before the address was known

device  == <<deviceAddress, endpointTable, URBIrpTable, descriptor>>
bus     == <<busPipe, busAddress>>
history == <<asked, late, lost, early>>
vars == <<device, filter, capture, start, irp, bus, history>>

Idle == [at |-> "free", urb |-> NoUrb, fn |-> "none", info |-> NoInfo,
         logged |-> <<>>, whole |-> FALSE, dropped |-> FALSE]

Init ==
  /\ deviceAddress = UnknownAddress
  /\ endpointTable = <<>>
  /\ URBIrpTable = <<>>
  /\ descriptor = {}
  /\ filter = NoFilter
  /\ capture = "off"
  /\ start = [at |-> "stopped", seen |-> {}]
  /\ irp = [i \in Irps |-> Idle]
  /\ busPipe = [h \in Handles |-> Closed]
  /\ busAddress \in Addresses
  /\ asked = NoFilter
  /\ late = {}
  /\ lost = {}
  /\ early = {}

(* USBPcapIsDeviceFiltered: an address that is not valid is let through.   *)
IsDeviceFiltered(f, a) == f.all \/ a \notin 0 .. 127 \/ a \in f.addresses
-----------------------------------------------------------------------------
(* The capturing handle.  Whoever is between its test of the filter and    *)
(* what follows from it is late when the filter is replaced.               *)
Testing == {i \in Irps : irp[i].at \in {"submitting", "unknown", "completing"}}

(* No IRP has one filter and one address for the whole of its way.         *)
NoneWhole == [i \in Irps |-> [irp[i] EXCEPT !.whole = FALSE]]

ReplaceFilter(f) ==
  /\ filter' = f
  /\ asked' = f
  /\ late' = late \cup Testing
               \cup (IF start.at = "setBit" THEN {"start"} ELSE {})
  /\ irp' = NoneWhole
  /\ UNCHANGED <<device, start, bus, lost, early>>

SetUpBuffer ==
  /\ capture = "off"
  /\ capture' = "ready"
  /\ UNCHANGED <<device, filter, start, irp, bus, history>>

StartFiltering(f) ==
  /\ ReplaceFilter(f)
  /\ UNCHANGED capture

StopFiltering ==
  /\ ReplaceFilter(NoFilter)
  /\ UNCHANGED capture

(* IRP_MJ_CLEANUP: the filter first, then the buffer, if there is one.     *)
CleanupFilter ==
  /\ capture # "closing"
  /\ capture' = IF capture = "ready" THEN "closing" ELSE "off"
  /\ ReplaceFilter(NoFilter)

CleanupBuffer ==
  /\ capture = "closing"
  /\ capture' = "off"
  /\ UNCHANGED <<device, filter, start, irp, bus, history>>
-----------------------------------------------------------------------------
(* External: the device gets an address, and IRP_MN_START_DEVICE is        *)
(* completed: URBs may come from now on.                                   *)
StartDevice(a) ==
  /\ start.at = "stopped"
  /\ start' = [start EXCEPT !.at = "querying"]
  /\ busAddress' = a
  /\ UNCHANGED <<device, filter, capture, irp, busPipe, history>>

FaultyGetDeviceUSBInfo(success) ==          \* goes on without an address
  /\ start.at = "querying"
  /\ deviceAddress' = IF success THEN busAddress ELSE deviceAddress
  /\ start' = IF IsDeviceFiltered(filter, NewDevices)
              THEN [at |-> "setBit", seen |-> filter.addresses]
              ELSE [at |-> "started", seen |-> {}]
  /\ UNCHANGED <<endpointTable, URBIrpTable, descriptor, filter, capture,
                 irp, bus, history>>

(* USBPcapGetDeviceUSBInfo: the address is asked for, which can fail, and  *)
(* with the new-device bit the device is added to the filter.              *)
(* addresses[range] |= bit is not atomic: the bits it keeps may be those   *)
(* of the filter that was tested.                                          *)
GetDeviceUSBInfo(success) ==
  /\ start.at = "querying"
  /\ deviceAddress' = IF success THEN busAddress ELSE deviceAddress
  /\ start' = IF success /\ IsDeviceFiltered(filter, NewDevices)
              THEN [at |-> "setBit", seen |-> filter.addresses]
              ELSE [at |-> "started", seen |-> {}]
  /\ \/ deviceAddress' = deviceAddress /\ UNCHANGED <<irp, late, early>>
     \/ /\ deviceAddress' # deviceAddress
        /\ irp' = NoneWhole
        /\ late' = late \cup Testing
        /\ early' = DOMAIN endpointTable
  /\ UNCHANGED <<endpointTable, URBIrpTable, descriptor, filter, capture,
                 bus, asked, lost>>

SetDeviceFiltered ==
  /\ start.at = "setBit"
  /\ \E kept \in {filter.addresses, start.seen} :
       filter' = [filter EXCEPT !.addresses = kept \cup {deviceAddress}]
  /\ start' = [at |-> "started", seen |-> {}]
  /\ irp' = NoneWhole
  /\ asked' = IF "start" \in late THEN asked
              ELSE [asked EXCEPT !.addresses = @ \cup {deviceAddress}]
  /\ late' = late \ {"start"}
  /\ UNCHANGED <<device, capture, bus, lost, early>>

InFlight == {i \in Irps : irp[i].at # "free"}

(* External: the device is stopped and its pipes are closed.               *)
StopDevice ==
  /\ start.at = "started"
  /\ InFlight = {}
  /\ start' = [start EXCEPT !.at = "stopped"]
  /\ busPipe' = [h \in Handles |-> Closed]
  /\ UNCHANGED <<device, filter, capture, irp, busAddress, history>>
-----------------------------------------------------------------------------
(* External: what the function driver may send now.                        *)
Selects(u)   == u.fn \in SelectFns
Covers(u, n) == \/ u.fn = "SELECT_CONFIGURATION"
                \/ u.fn = "SELECT_INTERFACE" /\ n = u.number
Selecting(n) == \E i \in InFlight : Covers(irp[i].urb, n)

Fits(u, pipe) ==
  CASE u.fn = "BULK_OR_INTERRUPT_TRANSFER"
         -> pipe.type \in {"bulk", "interrupt"} /\ u.in = IsIn(pipe.ep)
    [] u.fn = "ISOCH_TRANSFER"
         -> pipe.type = "isochronous" /\ u.in = IsIn(pipe.ep)
    [] OTHER -> TRUE

MaySend(u) ==
  /\ u.pipe # NoHandle => /\ busPipe[u.pipe] # Closed
                          /\ ~Selecting(busPipe[u.pipe].number)
                          /\ Fits(u, busPipe[u.pipe])
  /\ Selects(u) =>
       \A i \in InFlight :
         /\ ~Selects(irp[i].urb)
         /\ irp[i].urb.pipe # NoHandle =>
              ~Covers(u, busPipe[irp[i].urb.pipe].number)

Filtered == IsDeviceFiltered(filter, deviceAddress)

(* DkTgtInDevCtl with IOCTL_INTERNAL_USB_SUBMIT_URB: the filter is tested. *)
Submit(i, u) ==
  /\ start.at # "stopped"
  /\ irp[i].at = "free"
  /\ MaySend(u)
  /\ irp' = [irp EXCEPT ![i] =
               [Idle EXCEPT !.at = IF Filtered THEN "submitting" ELSE "bus",
                            !.urb = u, !.fn = u.fn,
                            !.whole = Filtered /\ capture = "ready"]]
  /\ UNCHANGED <<device, filter, capture, start, bus, history>>

(* The packets that the switch on the function writes, at most one.        *)
Packets(u, post) ==
  CASE u.fn \in WrappedFns \cup ControlFns
         -> IF u.fn = "SELECT_INTERFACE" /\ <<u.number, u.alt>> \notin descriptor
            THEN <<>>
            ELSE <<ControlPacket(u, post, endpointTable, deviceAddress)>>
    [] u.fn = "BULK_OR_INTERRUPT_TRANSFER"
         -> <<BulkPacket(u, post, endpointTable, deviceAddress)>>
    [] u.fn = "ISOCH_TRANSFER"
         -> IF IsoDropped(u, post) THEN <<>>
            ELSE <<IsochPacket(u, post, endpointTable, deviceAddress)>>
    [] u.fn \in PipeFns
         -> <<PipePacket(u, post, endpointTable, deviceAddress)>>
    [] u.fn = "GET_CURRENT_FRAME_NUMBER" -> <<FramePacket(u, post, deviceAddress)>>
    [] OTHER -> IF post THEN <<UnknownPacket(u, post, deviceAddress)>> ELSE <<>>

(* The capture asked for the device.                                       *)
Wanted == asked.all \/ busAddress \in asked.addresses

(* Why a packet of the device is stored although nobody asked for it: its  *)
(* address is not known (yet), its test was overtaken, or a device start   *)
(* that was overtaken put the address in the filter.                       *)
Excused(i) == \/ deviceAddress # busAddress
              \/ i \in late
              \/ deviceAddress \in filter.addresses \ asked.addresses

(* The IRP i after packets ps were handed to the buffer.  They are stored  *)
(* if there is a buffer; in a full ring, or if the pool has no room for    *)
(* the header of an isochronous transfer, they are not.                    *)
Logged(i, ps, stored, at) ==
  LET kept == IF stored THEN ps ELSE <<>>
  IN  [irp[i] EXCEPT
         !.at = at,
         !.dropped = @ \/ kept # ps \/ (irp[i].urb.fn = "ISOCH_TRANSFER" /\ ps = <<>>),
         !.logged = IF capture = "off" THEN @
                    ELSE @ \o [n \in DOMAIN kept |->
                                 [packet |-> kept[n],
                                  justified |-> Wanted \/ Excused(i)]]]

Stored == IF capture = "off" THEN {TRUE} ELSE BOOLEAN

(* USBPcapAddURBIRPInfo: an entry that is there already is left as it is.  *)
AddURBIRPInfo(i, note) ==
  [j \in DOMAIN URBIrpTable \cup {i} |->
     IF j \in DOMAIN URBIrpTable THEN URBIrpTable[j] ELSE note]

(* USBPcapObtainURBIRPInfo takes the entry out of the table.               *)
ObtainURBIRPInfo(i) == [j \in DOMAIN URBIrpTable \ {i} |-> URBIrpTable[j]]

(* The switch on the way down; an unknown function is only noted.          *)
AnalyzeSubmit(i) ==
  LET u == irp[i].urb IN
  /\ irp[i].at = "submitting"
  /\ late' = late \ {i}
  /\ \/ /\ u.fn \in KnownFns
        /\ \E stored \in Stored :
             irp' = [irp EXCEPT ![i] = Logged(i, Packets(u, FALSE), stored, "bus")]
        /\ UNCHANGED URBIrpTable
     \/ /\ u.fn \notin KnownFns
        /\ \E memory \in {TRUE} \cup {~AllocMayFail} :
             /\ URBIrpTable' =
                  IF memory
                  THEN AddURBIRPInfo(i, [fn |-> u.fn, device |-> deviceAddress])
                  ELSE URBIrpTable
             /\ irp' = [irp EXCEPT ![i].at = "bus", ![i].dropped = ~memory]
  /\ UNCHANGED <<deviceAddress, endpointTable, descriptor, filter, capture,
                 start, bus, asked, lost, early>>
-----------------------------------------------------------------------------
(* External: the USB stack completes a URB.                                *)
Pipes(u) == UNION {{<<k, j>> : j \in DOMAIN u.ifs[k].pipes} : k \in DOMAIN u.ifs}

WellFormed(u) ==
  /\ Remaining(u.ifs, u.ifsLen, Len(u.ifs) + 1) = 0
  /\ \A k \in DOMAIN u.ifs : LET n == Len(u.ifs[k].pipes) IN
       u.ifs[k].Length = InterfaceSize + (IF n = 0 THEN 0 ELSE n - 1) * PipeSize

(* A selection that is not well-formed fails and closes the pipes it was   *)
(* to replace; any other opens all its pipes, with free handles.           *)
SelectionDone(i) ==
  LET u == irp[i].urb
      kept == {h \in Handles : busPipe[h] # Closed /\ ~Covers(u, busPipe[h].number)}
  IN  \/ /\ ~WellFormed(u)
         /\ busPipe' = [h \in Handles |-> IF h \in kept THEN busPipe[h] ELSE Closed]
         /\ irp' = [irp EXCEPT ![i].at = "returned"]
      \/ /\ WellFormed(u)
         /\ \E give \in Injection(Pipes(u), Handles \ kept) :
              LET pipe(x) == u.ifs[x[1]].pipes[x[2]]
                  opened(h) == CHOOSE x \in Pipes(u) : give[x] = h
              IN  /\ busPipe' =
                       [h \in Handles |->
                          IF h \in kept THEN busPipe[h]
                          ELSE IF h \in Range(give)
                               THEN [number |-> u.ifs[opened(h)[1]].number,
                                     ep |-> pipe(opened(h)).ep,
                                     type |-> pipe(opened(h)).type]
                               ELSE Closed]
                  /\ irp' = [irp EXCEPT ![i].at = "returned",
                               ![i].urb.ifs =
                                 [k \in DOMAIN u.ifs |->
                                    [u.ifs[k] EXCEPT !.pipes =
                                       [j \in DOMAIN @ |->
                                          [@[j] EXCEPT !.handle = give[<<k, j>>]]]]]]

(* What the stack leaves in any other URB: the bytes received and the      *)
(* lengths of the isochronous packets, or another function.                *)
IsoFilled(u) == {[k \in DOMAIN u.iso |-> [u.iso[k] EXCEPT !.length = n[k]]] :
                   n \in [DOMAIN u.iso -> IsoLengths]}
IsoReceived(u) ==
  UNION {{[u EXCEPT !.iso = p, !.len = len] : len \in 0 .. u.len} : p \in IsoFilled(u)}

Results(u) ==
  CASE u.fn = "ISOCH_TRANSFER" /\ u.in -> IsoReceived(u)
    [] u.fn = "UNKNOWN" -> {u, [u EXCEPT !.fn = "CONTROL_TRANSFER", !.in = TRUE]}
    [] OTHER -> {u}

BusCompletes(i) ==
  /\ irp[i].at = "bus"
  /\ \/ Selects(irp[i].urb) /\ SelectionDone(i)
     \/ /\ ~Selects(irp[i].urb)
        /\ \E u \in Results(irp[i].urb) :
             irp' = [irp EXCEPT ![i].at = "returned", ![i].urb = u]
        /\ UNCHANGED busPipe
  /\ UNCHANGED <<device, filter, capture, start, busAddress, history>>
-----------------------------------------------------------------------------
FaultyAddEndpointInfo(table, p) ==          \* an entry is never updated
  IF p.handle \in DOMAIN table THEN table
  ELSE [h \in DOMAIN table \cup {p.handle} |->
          IF h = p.handle
          THEN [ep |-> p.ep, type |-> p.type, device |-> deviceAddress]
          ELSE table[h]]

(* USBPcapAddEndpointInfo: a new entry, or the entry brought up to date.   *)
AddEndpointInfo(table, p) ==
  [h \in DOMAIN table \cup {p.handle} |->
     IF h = p.handle
     THEN [ep |-> p.ep, type |-> p.type, device |-> deviceAddress]
     ELSE table[h]]

(* The pipes of a completed selection, one after the other; those in       *)
(* failed need a new entry and get none.                                   *)
TableAfter(ps, failed) ==
  LET table[n \in 0 .. Len(ps)] ==
        IF n = 0 THEN endpointTable
        ELSE IF ps[n].handle \in failed THEN table[n - 1]
        ELSE AddEndpointInfo(table[n - 1], ps[n])
  IN  table[Len(ps)]

(* The URBs that are analyzed whatever the filter.                         *)
AlwaysAnalyzed(u) ==
  IF Selects(u)
  THEN LET ps    == ParsedPipes(u.ifs, u.ifsLen)
           given == {ps[n].handle : n \in DOMAIN ps}
           new   == given \ DOMAIN endpointTable
       IN  \E failed \in IF AllocMayFail THEN SUBSET new ELSE {{}} :
             /\ endpointTable' = TableAfter(ps, failed)
             /\ lost' = (lost \ given) \cup (failed \ {NoHandle})
             /\ early' = early \ given
             /\ descriptor' = IF u.fn = "SELECT_CONFIGURATION"
                              THEN u.config ELSE descriptor
  ELSE UNCHANGED <<endpointTable, lost, early, descriptor>>

FaultyAnalyzeComplete(i) ==                 \* the note taken after the test
  /\ irp[i].at = "returned"
  /\ LET found == i \in DOMAIN URBIrpTable IN
     /\ URBIrpTable' = IF Filtered THEN ObtainURBIRPInfo(i) ELSE URBIrpTable
     /\ irp' = [irp EXCEPT ![i].at = IF ~Filtered THEN "done"
                                     ELSE IF found THEN "unknown" ELSE "completing",
                           ![i].info = IF found THEN URBIrpTable[i] ELSE NoInfo]
  /\ AlwaysAnalyzed(irp[i].urb)
  /\ UNCHANGED <<deviceAddress, filter, capture, start, bus, asked, late>>

FaultyUseSubmitTest(i) ==                   \* keeps the decision of the way down
  /\ irp[i].at = "returned"
  /\ URBIrpTable' = ObtainURBIRPInfo(i)
  /\ irp' = [irp EXCEPT ![i].at = IF irp[i].logged # <<>> THEN "completing" ELSE "done"]
  /\ AlwaysAnalyzed(irp[i].urb)
  /\ UNCHANGED <<deviceAddress, filter, capture, start, bus, asked, late>>

(* The completion routine: the note of an unknown function is taken out of *)
(* the table, selections are analyzed, the filter is tested again.         *)
AnalyzeComplete(i) ==
  /\ irp[i].at = "returned"
  /\ LET found == i \in DOMAIN URBIrpTable IN
     /\ URBIrpTable' = ObtainURBIRPInfo(i)
     /\ irp' = [irp EXCEPT ![i].at = IF ~Filtered THEN "done"
                                     ELSE IF found THEN "unknown" ELSE "completing",
                           ![i].info = IF found THEN URBIrpTable[i] ELSE NoInfo]
  /\ AlwaysAnalyzed(irp[i].urb)
  /\ UNCHANGED <<deviceAddress, filter, capture, start, bus, asked, late>>

FaultyLogUnknownSubmit(i) ==                \* only if the function is still unknown
  /\ irp[i].at = "unknown"
  /\ LET u == irp[i].urb IN
     \E stored \in Stored :
       irp' = [irp EXCEPT ![i] =
                 Logged(i, IF u.fn \in KnownFns THEN <<>>
                           ELSE <<UnknownPacket(u, FALSE, irp[i].info.device)>>,
                        stored, "completing")]
  /\ UNCHANGED <<device, filter, capture, start, bus, history>>

(* The submission of an unknown function is written now, as it was noted.  *)
LogUnknownSubmit(i) ==
  /\ irp[i].at = "unknown"
  /\ LET noted == [irp[i].urb EXCEPT !.fn = irp[i].info.fn] IN
     \E stored \in Stored :
       irp' = [irp EXCEPT ![i] =
                 Logged(i, <<UnknownPacket(noted, FALSE, irp[i].info.device)>>,
                        stored, "completing")]
  /\ UNCHANGED <<device, filter, capture, start, bus, history>>

(* The switch on the way up.                                               *)
LogComplete(i) ==
  LET u == irp[i].urb IN
  /\ irp[i].at = "completing"
  /\ late' = late \ {i}
  /\ \E stored \in Stored :
       irp' = [irp EXCEPT ![i] = Logged(i, Packets(u, TRUE), stored, "done")]
  /\ UNCHANGED <<device, filter, capture, start, bus, asked, lost, early>>

(* The completion routine returns and the function driver has its IRP.     *)
Return(i) ==
  /\ irp[i].at = "done"
  /\ irp' = [irp EXCEPT ![i] = Idle]
  /\ UNCHANGED <<device, filter, capture, start, bus, history>>

Next ==
  \/ SetUpBuffer \/ StopFiltering \/ CleanupFilter \/ CleanupBuffer
  \/ \E f \in Filters : StartFiltering(f)
  \/ \E a \in Addresses : StartDevice(a)
  \/ \E success \in BOOLEAN : GetDeviceUSBInfo(success)
  \/ SetDeviceFiltered \/ StopDevice
  \/ \E i \in Irps :
       \/ \E u \in Urbs[i] : Submit(i, u)
       \/ AnalyzeSubmit(i) \/ BusCompletes(i) \/ AnalyzeComplete(i)
       \/ LogUnknownSubmit(i) \/ LogComplete(i) \/ Return(i)

Spec == Init /\ [][Next]_vars
-----------------------------------------------------------------------------
(* The shapes of the tables and of the IRPs.                               *)
TypeOK ==
  /\ deviceAddress \in Addresses \cup {UnknownAddress}
  /\ DOMAIN endpointTable \subseteq Handles \cup {NoHandle}
  /\ DOMAIN URBIrpTable \subseteq Irps
  /\ filter.addresses \subseteq Addresses \cup {NewDevices}
  /\ capture \in {"off", "ready", "closing"}
  /\ start.at \in {"stopped", "querying", "setBit", "started"}
  /\ \A i \in Irps : irp[i].at \in {"free", "submitting", "bus", "returned",
                                    "unknown", "completing", "done"}
  /\ busAddress \in Addresses
  /\ late \subseteq Irps \cup {"start"}
  /\ lost \subseteq Handles
  /\ early \subseteq DOMAIN endpointTable

(* The note of an unknown function (USBPcapAddURBIRPInfo) is there only    *)
(* while its IRP is below the filter and names the function that this use  *)
(* of the IRP went down with: the note of one use never meets the          *)
(* completion of the next, whatever happens to the filter meanwhile.       *)
NotesInFlight ==
  \A i \in DOMAIN URBIrpTable :
    /\ irp[i].at \in {"bus", "returned"}
    /\ URBIrpTable[i].fn = irp[i].fn

(* Whenever the function driver may use a pipe, the endpoint table knows   *)
(* the endpoint, the type and the device behind its handle, although       *)
(* entries are never removed and handles are given out again, or there was *)
(* no memory for an entry.  Only the device may be wrong, in the entries   *)
(* of a selection that completed before the start of the device brought    *)
(* its address: nothing corrects them until the pipe is opened anew.       *)
EndpointsTrue ==
  \A h \in Handles :
    busPipe[h] # Closed /\ ~Selecting(busPipe[h].number) =>
      \/ h \in lost
      \/ /\ h \in DOMAIN endpointTable
         /\ endpointTable[h].ep = busPipe[h].ep
         /\ endpointTable[h].type = busPipe[h].type
         /\ endpointTable[h].device = deviceAddress \/ h \in early

Finished(i) == irp[i].at = "done"
LoggedPackets(i) == [n \in DOMAIN irp[i].logged |-> irp[i].logged[n].packet]

(* A transfer that one filter and one address were in force for from the   *)
(* submission to the completion is logged as a submission and then a       *)
(* completion, or not at all, unless a full ring, a lack of memory or the  *)
(* safety check of isochronous transfers dropped one of the two: also when *)
(* the function changed on the way.                                        *)
Paired ==
  \A i \in Irps : Finished(i) /\ irp[i].whole /\ ~irp[i].dropped =>
    LET ps == LoggedPackets(i) IN
    \/ ps = <<>>
    \/ Len(ps) = 2 /\ ~ps[1].post /\ ps[2].post

(* The data of a pair is in exactly one of its packets, the one that the   *)
(* direction of the real endpoint asks for; an endpoint that is not in the *)
(* table has its data on the way up.                                       *)
DataOnce ==
  \A i \in Irps : Finished(i) /\ Len(irp[i].logged) = 2 =>
    LET u  == irp[i].urb
        ps == LoggedPackets(i)
        up == IsIn(busPipe[u.pipe].ep) \/ u.pipe \in lost
    IN  u.fn = "BULK_OR_INTERRUPT_TRANSFER" /\ u.len # 0 =>
          (ps[1].data # 0) = ~up /\ (ps[2].data # 0) = up

(* Bit 7 of the request type tells a dissector which way the data of a     *)
(* control transfer goes: the endpoint of both packets has the same bit,   *)
(* and the data is in the packet of that direction.                        *)
SetupAgrees ==
  \A i \in Irps : Finished(i) /\ Len(irp[i].logged) = 2 =>
    LET ps == LoggedPackets(i) IN
    ps[1].type # -1 =>
      /\ \A n \in 1 .. 2 : IsIn(ps[n].endpoint) = (ps[1].type >= 128)
      /\ ps[1].type >= 128 => ps[1].data = 0
      /\ ps[1].type < 128 => ps[2].data = 0

(* In an isochronous completion with data every packet, read at the offset *)
(* and length that its header gives, has the bytes it had in the transfer  *)
(* buffer, and the data is no longer than the buffer.                      *)
IsoReadable ==
  \A i \in Irps : Finished(i) =>
    \A n \in DOMAIN irp[i].logged :
      LET p == irp[i].logged[n].packet
          u == irp[i].urb
      IN  p.payload # <<>> =>
            /\ Len(p.payload) = p.data /\ p.data <= u.len
            /\ \A k \in DOMAIN u.iso :
                 p.iso[k].offset + p.iso[k].length <= p.data
            /\ \A k \in DOMAIN u.iso :
                 SubSeq(p.payload, p.iso[k].offset + 1,
                        p.iso[k].offset + p.iso[k].length)
                   = [m \in 1 .. u.iso[k].length |-> u.iso[k].offset + m - 1]

(* "Do not log URBs from devices which are not being filtered": what is    *)
(* stored belongs to a device whose address on the bus the capture asked   *)
(* for.  The exceptions are exact: the driver does not have that address,  *)
(* because the start of the device has not asked for it yet or in vain;    *)
(* the filter or the address was replaced between the test and the write   *)
(* of this very packet; or a device start put the address in a filter that *)
(* had been replaced since it looked.                                      *)
WantedOnly ==
  \A i \in Irps : \A n \in DOMAIN irp[i].logged : irp[i].logged[n].justified
=============================================================================
