-------------------------------- MODULE MCURB --------------------------------
(***************************************************************************)
(* One device with two interfaces and one pipe handle: the handle comes    *)
(* back for an interrupt, a bulk and an isochronous endpoint of interface  *)
(* 1, in both directions.  One IRP is used for everything but OUT          *)
(* transfers, the other one for these.  In an isochronous completion a     *)
(* packet is empty, full or partly filled, and the length of the transfer  *)
(* is anything up to that of the buffer.                                   *)
(***************************************************************************)
EXTENDS USBPcapURB, TLC

CONSTANTS i1, i2, h1

MCIrps    == {i1, i2}
MCHandles == {h1}

Base == [fn |-> "UNKNOWN", pipe |-> NoHandle, in |-> FALSE, len |-> 0,
         type |-> 0, iso |-> <<>>, config |-> {}, number |-> 0, alt |-> 0,
         ifs |-> <<>>, ifsLen |-> 0]

Pipe(ep, type) == [ep |-> ep, type |-> type, handle |-> NoHandle]
Interface(n, size, pipes) == [number |-> n, Length |-> size, pipes |-> pipes]

Both == {<<0, 0>>, <<1, 0>>, <<1, 1>>}
Configure(config, ifs, size) ==
  [Base EXCEPT !.fn = "SELECT_CONFIGURATION", !.config = config,
               !.ifs = ifs, !.ifsLen = size]

Alternate(alt, ep, type) ==
  [Base EXCEPT !.fn = "SELECT_INTERFACE", !.number = 1, !.alt = alt,
               !.ifs = <<Interface(1, 2, <<Pipe(ep, type)>>)>>,
               !.ifsLen = 2]

Selections ==
  {Configure(Both, <<Interface(0, 2, <<>>),
                     Interface(1, 2, <<Pipe(2, "interrupt")>>)>>, 4),
   \* the header leaves room for the first interface only
   Configure(Both, <<Interface(0, 2, <<Pipe(129, "bulk")>>),
                     Interface(1, 2, <<Pipe(2, "interrupt")>>)>>, 3),
   Alternate(1, 131, "isochronous"), Alternate(0, 129, "bulk")}

Requests ==
  {[Base EXCEPT !.fn = "UNKNOWN"],
   [Base EXCEPT !.fn = "VENDOR_DEVICE", !.in = TRUE, !.len = 1],
   [Base EXCEPT !.fn = "CONTROL_TRANSFER", !.type = 64, !.len = 1],
   [Base EXCEPT !.fn = "GET_CURRENT_FRAME_NUMBER"]}
  \cup {[Base EXCEPT !.fn = "ABORT_PIPE", !.pipe = h] : h \in MCHandles}

Isochronous ==
  {[Base EXCEPT !.fn = "ISOCH_TRANSFER", !.pipe = h, !.in = TRUE, !.len = 5,
                !.iso = <<[offset |-> 0, length |-> 2],
                          [offset |-> 2, length |-> 3]>>] : h \in MCHandles}

Transfers ==
  {[Base EXCEPT !.fn = "BULK_OR_INTERRUPT_TRANSFER", !.pipe = h, !.in = d,
                !.len = 1] : h \in MCHandles, d \in BOOLEAN}

MCUrbs == (i1 :> (Selections \cup Requests \cup Isochronous \cup {u \in Transfers : u.in}))
          @@ (i2 :> {u \in Transfers : ~u.in})

MCFilters == {[all |-> TRUE, addresses |-> {}],
              [all |-> FALSE, addresses |-> {0}]}

(* Two IRPs are in flight at once only once the device is started and      *)
(* while the capture runs.                                                 *)
Bound == \/ Cardinality(InFlight) <= 1
         \/ start.at = "started" /\ capture = "ready"
=============================================================================
