------------------------------ MODULE MCBuffer ------------------------------
(* Small instances of USBPcapBuffer: headers of two bytes, buffers of 6 to *)
(* 8 bytes, so that a record wraps, fills the buffer exactly, or is        *)
(* dropped for one missing byte.                                           *)
EXTENDS USBPcapBuffer

CONSTANTS p1, p2, p3

Pkt(id, hlen, dlen, pay) ==
  [id |-> id, headerLen |-> hlen, dataLength |-> dlen, payload |-> pay]

(* Packets whose payload entries hold all of dataLength. *)
MCPackets == {Pkt(p1, 1, 0, 0), Pkt(p2, 1, 2, 2)}

(* The same, and one whose data buffer could not be mapped (payload NULL). *)
UnmappedPackets == {Pkt(p1, 1, 0, 0), Pkt(p2, 1, 2, 2), Pkt(p3, 1, 1, 0)}
=============================================================================
