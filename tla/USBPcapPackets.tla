--------------------------- MODULE USBPcapPackets ---------------------------
(***************************************************************************)
(* What USBPcap writes for one URB: USBPcapURB.c without the state of the  *)
(* device, as operators on a URB and on the endpoint table.  Module        *)
(* USBPcapURB applies them on the way down and on the way up.              *)
(*                                                                         *)
(* A URB is a record: fn, the function; pipe, the pipe handle or NoHandle; *)
(* in, the IN bit of TransferFlags; len, TransferBufferLength; type, byte 0*)
(* of a setup packet built by the client; iso, the isochronous packets;    *)
(* config, the settings of the configuration descriptor, {} for NULL;      *)
(* number and alt, the interface setting; ifs and ifsLen, the interface    *)
(* list and the length that the URB header leaves for it.                  *)
(***************************************************************************)
EXTENDS Integers, Sequences, FiniteSets

CONSTANTS
  NoHandle,        \* the NULL pipe handle
  InterfaceSize,   \* sizeof(USBD_INTERFACE_INFORMATION), with one pipe
  PipeSize,        \* sizeof(USBD_PIPE_INFORMATION)
  MaxIsoPackets    \* 1024: longer isochronous transfers are not logged

ASSUME PacketsAssumption ==
  /\ InterfaceSize \in Nat \ {0}
  /\ PipeSize \in Nat \ {0}
  /\ MaxIsoPackets \in Nat

(* Endpoint addresses: bit 7 is the direction, 0xFF an unknown endpoint.   *)
UnknownEndpoint == 255
IsIn(ep)  == ep >= 128
SetIn(ep) == IF IsIn(ep) THEN ep ELSE ep + 128
-----------------------------------------------------------------------------
(* bmRequestType of the standard requests that have a URB function of      *)
(* their own, and of the vendor and class requests without bit 7.          *)
StandardType ==
  [SELECT_CONFIGURATION          |-> 0,   SELECT_INTERFACE              |-> 0,
   GET_DESCRIPTOR_FROM_DEVICE    |-> 128, GET_DESCRIPTOR_FROM_ENDPOINT  |-> 130,
   GET_DESCRIPTOR_FROM_INTERFACE |-> 129, SET_DESCRIPTOR_TO_DEVICE      |-> 0,
   SET_DESCRIPTOR_TO_ENDPOINT    |-> 2,   SET_DESCRIPTOR_TO_INTERFACE   |-> 1,
   GET_STATUS_FROM_DEVICE        |-> 128, GET_STATUS_FROM_INTERFACE     |-> 129,
   GET_STATUS_FROM_ENDPOINT      |-> 130, GET_STATUS_FROM_OTHER         |-> 131]

VendorClassType ==
  [VENDOR_DEVICE |-> 64, VENDOR_INTERFACE |-> 65, VENDOR_ENDPOINT |-> 66,
   VENDOR_OTHER  |-> 67, CLASS_DEVICE     |-> 32, CLASS_INTERFACE |-> 33,
   CLASS_ENDPOINT |-> 34, CLASS_OTHER     |-> 35]

SelectFns   == {"SELECT_CONFIGURATION", "SELECT_INTERFACE"}
GetFns      == {"GET_DESCRIPTOR_FROM_DEVICE", "GET_DESCRIPTOR_FROM_ENDPOINT",
                "GET_DESCRIPTOR_FROM_INTERFACE", "GET_STATUS_FROM_DEVICE",
                "GET_STATUS_FROM_INTERFACE", "GET_STATUS_FROM_ENDPOINT",
                "GET_STATUS_FROM_OTHER"}
ControlFns  == {"CONTROL_TRANSFER", "CONTROL_TRANSFER_EX"}
WrappedFns  == DOMAIN StandardType \cup DOMAIN VendorClassType
PipeFns     == {"SYNC_RESET_PIPE_AND_CLEAR_STALL", "SYNC_RESET_PIPE",
                "SYNC_CLEAR_STALL", "ABORT_PIPE", "CLOSE_STATIC_STREAMS"}
KnownFns    == WrappedFns \cup ControlFns \cup PipeFns \cup
               {"BULK_OR_INTERRUPT_TRANSFER", "ISOCH_TRANSFER",
                "GET_CURRENT_FRAME_NUMBER"}

FaultyTransferType(u) ==                    \* bit 7 forgotten
  IF u.fn \in DOMAIN StandardType THEN StandardType[u.fn]
  ELSE IF u.fn \in DOMAIN VendorClassType THEN VendorClassType[u.fn]
  ELSE u.type

(* Byte 0 of the setup packet.                                             *)
TransferType(u) ==
  IF u.fn \in DOMAIN StandardType THEN StandardType[u.fn]
  ELSE IF u.fn \in DOMAIN VendorClassType
       THEN VendorClassType[u.fn] + (IF u.in THEN 128 ELSE 0)
       ELSE u.type

(* TransferFlags of the control transfer that stands for u.                *)
FromDevice(u) ==
  IF u.fn \in DOMAIN StandardType THEN u.fn \in GetFns ELSE u.in
-----------------------------------------------------------------------------
Packet(u, post, device, endpoint, transfer, data) ==
  [fn |-> u.fn, post |-> post, device |-> device, endpoint |-> endpoint,
   transfer |-> transfer, data |-> data, type |-> -1, iso |-> <<>>,
   payload |-> <<>>]

(* A selection stands for a control transfer without data.                 *)
DataLength(u) == IF u.fn \in SelectFns THEN 0 ELSE u.len

(* USBPcapAnalyzeControlTransfer: the setup packet with the OUT data on    *)
(* the way down, the IN data on the way up.                                *)
ControlPacket(u, post, table, device) ==
  LET ep == IF u.fn \in ControlFns /\ u.pipe \in DOMAIN table \ {NoHandle}
            THEN table[u.pipe].ep ELSE 0
      p  == Packet(u, post, device,
                   IF FromDevice(u) THEN SetIn(ep) ELSE ep, "control",
                   IF FromDevice(u) = post THEN DataLength(u) ELSE 0)
  IN  IF post THEN p ELSE [p EXCEPT !.type = TransferType(u)]

(* The endpoint that the table has for the pipe of u.                      *)
EndpointOf(u, table, device) ==
  IF u.pipe \in DOMAIN table
  THEN table[u.pipe]
  ELSE [ep |-> UnknownEndpoint, type |-> "unknown", device |-> device]

FaultyBulkPacket(u, post, table, device) == \* the data on the way up always
  LET e == EndpointOf(u, table, device)
  IN  Packet(u, post, e.device, e.ep,
             IF e.type = "interrupt" THEN "interrupt" ELSE "bulk",
             IF post THEN u.len ELSE 0)

(* The direction of the endpoint decides which packet has the data; an     *)
(* unknown endpoint counts as IN and as bulk.                              *)
BulkPacket(u, post, table, device) ==
  LET e == EndpointOf(u, table, device)
  IN  Packet(u, post, e.device, e.ep,
             IF e.type = "interrupt" THEN "interrupt" ELSE "bulk",
             IF IsIn(e.ep) = post THEN u.len ELSE 0)

(* Reset, abort and similar requests on a pipe.                            *)
PipePacket(u, post, table, device) ==
  LET e == EndpointOf(u, table, device)
  IN  Packet(u, post, e.device, e.ep,
             IF u.pipe \in DOMAIN table THEN "irp_info" ELSE "unknown", 0)

(* The frame number, four bytes, is known on the way up.                   *)
FramePacket(u, post, device) ==
  Packet(u, post, device, 128, "irp_info", IF post THEN 4 ELSE 0)

(* An unknown function, and the note of one that went down.                *)
UnknownPacket(u, post, device) ==
  Packet(u, post, device, 0, "unknown", 0)
-----------------------------------------------------------------------------
(* Isochronous transfers.  The bytes of the transfer buffer are named by   *)
(* their offsets.                                                          *)
(* The length of the packets before packet k, and of all of them.          *)
Before(iso, k) ==
  LET sum[j \in 1 .. (Len(iso) + 1)] ==
        IF j = 1 THEN 0 ELSE sum[j - 1] + iso[j - 1].length
  IN  sum[k]

IsoTotal(iso) == Before(iso, Len(iso) + 1)

FaultyCompacted(iso) ==                     \* keeps the original offsets
  iso

(* The packets moved together, so that no gap is left between them.        *)
Compacted(iso) == [k \in DOMAIN iso |-> [iso[k] EXCEPT !.offset = Before(iso, k)]]

(* The payload entries one after the other: entry k are the bytes that     *)
(* packet k has in the transfer buffer.                                    *)
Gathered(iso) ==
  [n \in 1 .. IsoTotal(iso) |->
     LET k == CHOOSE j \in DOMAIN iso :
                Before(iso, j) < n /\ n <= Before(iso, j + 1)
     IN  iso[k].offset + n - 1 - Before(iso, k)]

(* The transfer is dropped when the packets do not fit in its buffer.      *)
IsoDropped(u, post) ==
  \/ Len(u.iso) > MaxIsoPackets
  \/ u.len # 0 /\ u.in /\ post /\ IsoTotal(u.iso) > u.len

IsochPacket(u, post, table, device) ==
  LET e == EndpointOf(u, table, device)
      p == [Packet(u, post, e.device, e.ep, "isochronous", 0) EXCEPT !.iso = u.iso]
  IN  IF u.len # 0 /\ u.in /\ post
      THEN [p EXCEPT !.data = IsoTotal(u.iso), !.iso = Compacted(u.iso),
                     !.payload = Gathered(u.iso)]
      ELSE IF ~u.in /\ ~post THEN [p EXCEPT !.data = u.len]
      ELSE p
-----------------------------------------------------------------------------
(* USBPcapParseInterfaceInformation.  An interface has a Length, by which  *)
(* the walk moves on, and a sequence of pipes; past the list the URB is    *)
(* zero.  What is left of the list where interface k begins:               *)
Remaining(ifs, ifsLen, k) ==
  LET rest[j \in 1 .. (Len(ifs) + 1)] ==
        IF j = 1 THEN ifsLen ELSE rest[j - 1] - ifs[j - 1].Length
  IN  rest[k]

(* The walk ends at interface k.                                           *)
Stops(ifs, ifsLen, k) ==
  LET rest == Remaining(ifs, ifsLen, k)
      n    == Len(ifs[k].pipes)
  IN  \/ rest = 0 \/ ifs[k].Length = 0
      \/ rest < InterfaceSize
      \/ ifs[k].Length > rest
      \/ n > 1 /\ rest < InterfaceSize + (n - 1) * PipeSize

(* What is put in the endpoint table, in that order.                       *)
ParsedPipes(ifs, ifsLen) ==
  LET parsed(k) == \A j \in 1 .. k : ~Stops(ifs, ifsLen, j)
      pipes[k \in 0 .. Len(ifs)] ==
        IF k = 0 THEN <<>>
        ELSE pipes[k - 1] \o (IF parsed(k) THEN ifs[k].pipes ELSE <<>>)
  IN  pipes[Len(ifs)]
=============================================================================
