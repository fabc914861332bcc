----------------------------- MODULE MCControl -----------------------------
(* Small instances of USBPcapControl: two clients, two requests, one USB   *)
(* request in flight and one device that starts.                           *)
EXTENDS USBPcapControl

CONSTANTS f1, f2, i1, i2, u1, d1

MCFiles == {f1, f2}
MCIrps == {i1, i2}
MCUrbs == {u1}
MCDevices == {d1}
=============================================================================
