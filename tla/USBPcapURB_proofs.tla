-------------------------- MODULE USBPcapURB_proofs --------------------------
(***************************************************************************)
(* What is written for a URB, for any number of IRPs, pipes, filters and   *)
(* URBs of any shape.                                                      *)
(*                                                                         *)
(* Notes never outlive their use of an IRP, nothing unwanted is stored,    *)
(* and a transfer under one filter is logged in pairs: UrbInv, TestedInv,  *)
(* LogInv and PairInv.                                                     *)
(*                                                                         *)
(* The endpoint table is right about every pipe that can be used: PipeInv. *)
(* It rests on what the walk through the interfaces of a selection finds,  *)
(* and on what the table holds after it, both recursive functions over     *)
(* sequences, for which module RecursionTheorems has the induction.        *)
(*                                                                         *)
(* The packets of a pair agree with the URB and with each other: StoryInv, *)
(* on top of PipeInv, as the pipe that an IRP uses keeps its endpoint and  *)
(* its entry until the IRP is back (WaySteady).                            *)
(***************************************************************************)
EXTENDS USBPcapURB, RecursionTheorems, SequenceTheorems, TLAPS

Fields == {"at", "urb", "fn", "info", "logged", "whole", "dropped"}
Places == {"free", "submitting", "bus", "returned", "unknown", "completing", "done"}

(* x is a record with these fields.                                        *)
Shape(x) == DOMAIN x = Fields /\ x = [f \in Fields |-> x[f]]

Shaped ==
  /\ irp = [i \in Irps |-> irp[i]]
  /\ \A i \in Irps : /\ Shape(irp[i]) /\ irp[i].at \in Places
                     /\ irp[i].at # "free" => DOMAIN irp[i].urb = UrbFields

(* Nothing is in flight while the device is stopped.                       *)
AtRest ==
  /\ start.at = "stopped" => InFlight = {}
  /\ \A i \in Irps : irp[i].at = "free" => irp[i].logged = <<>> /\ ~irp[i].whole

(* A known function stays what it was, an unknown one never becomes a      *)
(* selection, and one selection is under way at a time.                    *)
SameFunction ==
  \A i \in InFlight :
    /\ irp[i].fn \in KnownFns => irp[i].urb.fn = irp[i].fn
    /\ irp[i].fn \notin KnownFns => irp[i].urb.fn \notin SelectFns
    /\ irp[i].at = "submitting" => irp[i].urb.fn = irp[i].fn

OneSelection ==
  \A i, j \in InFlight : Selects(irp[i].urb) /\ Selects(irp[j].urb) => i = j

(* Notes are of unknown functions.                                         *)
NotesUnknown ==
  /\ DOMAIN URBIrpTable \subseteq Irps
  /\ \A i \in DOMAIN URBIrpTable : irp[i].fn \notin KnownFns

UrbInv == /\ Shaped /\ AtRest /\ SameFunction /\ OneSelection
          /\ NotesInFlight /\ NotesUnknown
-----------------------------------------------------------------------------
(* What the steps do to an IRP. *)

(* The IRP i goes on to place at; its function and whole stay.             *)
Step(i, at, urb, logged, dropped) ==
  /\ irp' = [j \in Irps |-> irp'[j]]
  /\ \A j \in Irps : j # i => irp'[j] = irp[j]
  /\ Shape(irp'[i]) /\ irp'[i].at = at /\ irp'[i].urb = urb
  /\ irp'[i].fn = irp[i].fn /\ irp'[i].whole = irp[i].whole
  /\ irp'[i].logged = logged /\ irp'[i].dropped = dropped

LEMMA IdleShape ==
  /\ Shape(Idle) /\ Idle.at = "free" /\ Idle.logged = <<>> /\ ~Idle.whole
  /\ Idle.fn = "none"
BY DEF Shape, Fields, Idle

(* The log of an IRP with the packets ps added.                            *)
Longer(i, ps) ==
  IF capture = "off" THEN irp[i].logged
  ELSE irp[i].logged \o [n \in DOMAIN ps |->
                           [packet |-> ps[n], justified |-> Wanted \/ Excused(i)]]

(* The packets ps are written for IRP i, or dropped.                       *)
Writes(i, at, ps) ==
  \E kept, dropped :
    /\ Step(i, at, irp[i].urb, Longer(i, kept), dropped)
    /\ kept = ps \/ kept = <<>>
    /\ ~dropped => /\ ~irp[i].dropped /\ kept = ps
                   /\ ~(irp[i].urb.fn = "ISOCH_TRANSFER" /\ ps = <<>>)

LEMMA LoggedWrites ==
  ASSUME Shaped, NEW i \in Irps, NEW ps, NEW stored \in BOOLEAN, NEW at,
         irp' = [irp EXCEPT ![i] = Logged(i, ps, stored, at)]
  PROVE  Writes(i, at, ps)
<1>1. PICK y : y = Logged(i, ps, stored, at)
  OBVIOUS
<1>2. PICK kept : kept = IF stored THEN ps ELSE <<>>
  OBVIOUS
<1>3. Shape(irp[i])
  BY DEF Shaped
<1>4. /\ Shape(y) /\ y.at = at /\ y.urb = irp[i].urb /\ y.fn = irp[i].fn
      /\ y.whole = irp[i].whole /\ y.logged = Longer(i, kept)
      /\ ~y.dropped => /\ ~irp[i].dropped /\ kept = ps
                       /\ ~(irp[i].urb.fn = "ISOCH_TRANSFER" /\ ps = <<>>)
  BY <1>1, <1>2, <1>3 DEF Logged, Shape, Fields, Longer
<1>5. irp' = [irp EXCEPT ![i] = y]
  BY <1>1
<1>6. Step(i, at, irp[i].urb, Longer(i, kept), y.dropped)
  BY <1>4, <1>5 DEF Step, Shaped
<1> QED
  BY <1>2, <1>4, <1>6 DEF Writes

LEMMA AnalyzeSubmitStep ==
  ASSUME Shaped, NEW i \in Irps, AnalyzeSubmit(i)
  PROVE  LET u == irp[i].urb IN
         /\ irp[i].at = "submitting" /\ late' = late \ {i}
         /\ UNCHANGED <<deviceAddress, descriptor, filter, capture, start, asked>>
         /\ \/ /\ u.fn \in KnownFns /\ UNCHANGED URBIrpTable
               /\ Writes(i, "bus", Packets(u, FALSE))
            \/ /\ u.fn \notin KnownFns
               /\ Step(i, "bus", u, irp[i].logged, FALSE)
               /\ URBIrpTable' = AddURBIRPInfo(i, [fn |-> u.fn, device |-> deviceAddress])
            \/ /\ u.fn \notin KnownFns
               /\ Step(i, "bus", u, irp[i].logged, TRUE)
               /\ UNCHANGED URBIrpTable
<1>1. PICK u : u = irp[i].urb
  OBVIOUS
<1>2. CASE u.fn \in KnownFns
  <2>1. UNCHANGED URBIrpTable
    BY <1>1, <1>2 DEF AnalyzeSubmit
  <2>2. PICK stored \in BOOLEAN :
          irp' = [irp EXCEPT ![i] = Logged(i, Packets(u, FALSE), stored, "bus")]
    BY <1>1, <1>2 DEF AnalyzeSubmit, Stored
  <2>3. Writes(i, "bus", Packets(u, FALSE))
    BY <2>2, LoggedWrites
  <2> QED
    BY <1>1, <1>2, <2>1, <2>3 DEF AnalyzeSubmit
<1>3. CASE u.fn \notin KnownFns
  <2>1. PICK memory \in BOOLEAN :
          /\ URBIrpTable' =
               IF memory
               THEN AddURBIRPInfo(i, [fn |-> u.fn, device |-> deviceAddress])
               ELSE URBIrpTable
          /\ irp' = [irp EXCEPT ![i].at = "bus", ![i].dropped = ~memory]
    BY <1>1, <1>3, URBAssumption DEF AnalyzeSubmit
  <2>2. PICK y : y = [irp[i] EXCEPT !.at = "bus", !.dropped = ~memory]
    OBVIOUS
  <2>3. /\ Shape(y) /\ y.at = "bus" /\ y.urb = irp[i].urb /\ y.fn = irp[i].fn
        /\ y.whole = irp[i].whole /\ y.logged = irp[i].logged /\ y.dropped = ~memory
    BY <2>2 DEF Shaped, Shape, Fields
  <2>4. irp' = [irp EXCEPT ![i] = y]
    BY <2>1, <2>2 DEF Shaped
  <2>5. Step(i, "bus", irp[i].urb, irp[i].logged, ~memory)
    BY <2>3, <2>4 DEF Step, Shaped
  <2> QED
    BY <1>1, <1>3, <2>1, <2>5 DEF AnalyzeSubmit
<1> QED
  BY <1>2, <1>3

(* The USB stack keeps the function, the pipe and the direction of a URB,  *)
(* and the length but for an isochronous one, or turns an unknown function *)
(* into a control transfer.                                                *)
Returned(u, v) ==
  /\ DOMAIN v = UrbFields /\ v.number = u.number /\ v.alt = u.alt /\ v.pipe = u.pipe
  /\ \/ /\ v.fn = u.fn /\ v.in = u.in /\ v.type = u.type
        /\ v.fn # "ISOCH_TRANSFER" => v.len = u.len
     \/ u.fn = "UNKNOWN" /\ v.fn = "CONTROL_TRANSFER"

LEMMA ResultsReturned ==
  ASSUME NEW u, DOMAIN u = UrbFields, NEW v \in Results(u)
  PROVE  Returned(u, v)
<1>0. PICK fn : fn = u.fn
  OBVIOUS
<1>1. CASE fn = "ISOCH_TRANSFER" /\ u.in
  <2>1. Results(u) = IsoReceived(u)
    BY <1>0, <1>1 DEF Results
  <2>2. v \in UNION {{[u EXCEPT !.iso = p, !.len = len] : len \in 0 .. u.len} :
                       p \in IsoFilled(u)}
    BY <2>1, Zenon DEF IsoReceived
  <2>3. PICK p \in IsoFilled(u) :
          v \in {[u EXCEPT !.iso = p, !.len = len] : len \in 0 .. u.len}
    BY <2>2, Zenon
  <2>4. PICK len \in 0 .. u.len : v = [u EXCEPT !.iso = p, !.len = len]
    BY <2>3, Zenon
  <2> QED
    BY <1>0, <1>1, <2>4 DEF Returned, UrbFields
<1>2. CASE fn = "UNKNOWN"
  <2>1. Results(u) = {u, [u EXCEPT !.fn = "CONTROL_TRANSFER", !.in = TRUE]}
    BY <1>0, <1>2 DEF Results
  <2> QED
    BY <1>0, <1>2, <2>1 DEF Returned, UrbFields
<1>3. CASE ~(fn = "ISOCH_TRANSFER" /\ u.in) /\ fn # "UNKNOWN"
  <2>1. Results(u) = {u}
    BY <1>0, <1>3 DEF Results
  <2> QED
    BY <2>1 DEF Returned
<1> QED
  BY <1>1, <1>2, <1>3

LEMMA BusStep ==
  ASSUME Shaped, NEW i \in Irps, BusCompletes(i)
  PROVE  /\ irp[i].at = "bus"
         /\ UNCHANGED <<device, filter, capture, start, history>>
         /\ \E v : /\ Returned(irp[i].urb, v)
                  /\ Step(i, "returned", v, irp[i].logged, irp[i].dropped)
<1>0. /\ irp[i].at = "bus" /\ UNCHANGED <<device, filter, capture, start, history>>
      /\ Shape(irp[i]) /\ DOMAIN irp[i].urb = UrbFields
  BY DEF BusCompletes, Shaped
<1>1. ASSUME NEW v, NEW y, Shape(y), Returned(irp[i].urb, v), y.at = "returned",
             y.urb = v, y.fn = irp[i].fn, y.whole = irp[i].whole,
             y.logged = irp[i].logged, y.dropped = irp[i].dropped,
             irp' = [irp EXCEPT ![i] = y]
      PROVE  \E w : /\ Returned(irp[i].urb, w)
                    /\ Step(i, "returned", w, irp[i].logged, irp[i].dropped)
  <2>1. Step(i, "returned", v, irp[i].logged, irp[i].dropped)
    BY <1>1 DEF Step, Shaped
  <2> QED
    BY <1>1, <2>1
<1>2. ASSUME NEW v, Returned(irp[i].urb, v),
             irp' = [irp EXCEPT ![i].at = "returned", ![i].urb = v]
      PROVE  \E w : /\ Returned(irp[i].urb, w)
                    /\ Step(i, "returned", w, irp[i].logged, irp[i].dropped)
  <2>1. PICK y : y = [irp[i] EXCEPT !.at = "returned", !.urb = v]
    OBVIOUS
  <2>2. /\ Shape(y) /\ y.at = "returned" /\ y.urb = v /\ y.fn = irp[i].fn
        /\ y.whole = irp[i].whole /\ y.logged = irp[i].logged
        /\ y.dropped = irp[i].dropped
    BY <1>0, <2>1 DEF Shape, Fields
  <2>3. irp' = [irp EXCEPT ![i] = y]
    BY <1>2, <2>1 DEF Shaped
  <2> QED
    BY <1>1, <1>2, <2>2, <2>3
<1>3. CASE ~Selects(irp[i].urb)
  BY <1>0, <1>2, <1>3, ResultsReturned DEF BusCompletes
<1>4. ASSUME irp' = [irp EXCEPT ![i].at = "returned"]
      PROVE  \E w : /\ Returned(irp[i].urb, w)
                    /\ Step(i, "returned", w, irp[i].logged, irp[i].dropped)
  <2>1. PICK y : y = [irp[i] EXCEPT !.at = "returned"]
    OBVIOUS
  <2>2. /\ Shape(y) /\ y.at = "returned" /\ y.urb = irp[i].urb /\ y.fn = irp[i].fn
        /\ y.whole = irp[i].whole /\ y.logged = irp[i].logged
        /\ y.dropped = irp[i].dropped
    BY <1>0, <2>1 DEF Shape, Fields
  <2>3. irp' = [irp EXCEPT ![i] = y]
    BY <1>4, <2>1 DEF Shaped
  <2>4. Returned(irp[i].urb, irp[i].urb)
    BY <1>0 DEF Returned
  <2> QED
    BY <1>1, <2>2, <2>3, <2>4
<1>5. ASSUME NEW ifs, irp' = [irp EXCEPT ![i].at = "returned", ![i].urb.ifs = ifs]
      PROVE  \E w : /\ Returned(irp[i].urb, w)
                    /\ Step(i, "returned", w, irp[i].logged, irp[i].dropped)
  <2>1. PICK v : v = [irp[i].urb EXCEPT !.ifs = ifs]
    OBVIOUS
  <2>2. Returned(irp[i].urb, v)
    BY <1>0, <2>1 DEF Returned, UrbFields
  <2>3. irp' = [irp EXCEPT ![i].at = "returned", ![i].urb = v]
    BY <1>0, <1>5, <2>1 DEF Shaped, Shape, Fields
  <2> QED
    BY <1>2, <2>2, <2>3
<1>6. CASE Selects(irp[i].urb)
  <2>1. \/ irp' = [irp EXCEPT ![i].at = "returned"]
        \/ \E ifs : irp' = [irp EXCEPT ![i].at = "returned", ![i].urb.ifs = ifs]
    BY <1>0, <1>6 DEF BusCompletes, SelectionDone
  <2> QED
    BY <1>0, <1>4, <1>5, <2>1
<1> QED
  BY <1>0, <1>3, <1>6
-----------------------------------------------------------------------------
(* What is written in pairs. *)

(* The analysis of a selection of an interface that the stored             *)
(* configuration does not have writes nothing, down and up.                *)
Mute(u) == u.fn = "SELECT_INTERFACE" /\ <<u.number, u.alt>> \notin descriptor

(* The log has the submission only, or the whole pair.                     *)
Half(log) == \E p : log = <<p>> /\ ~p.packet.post
Full(log) == \E p, q : log = <<p, q>> /\ ~p.packet.post /\ q.packet.post

(* How much of a transfer is logged, by the place it is at.                *)
Halfway(at, log, mute, noted) ==
  \/ at = "submitting" /\ log = <<>>
  \/ at \in {"bus", "returned"} /\ log = <<>> /\ (mute \/ noted)
  \/ at \in {"bus", "returned"} /\ Half(log) /\ ~mute /\ ~noted
  \/ at = "unknown" /\ log = <<>> /\ ~mute
  \/ at = "completing" /\ log = <<>> /\ mute
  \/ at = "completing" /\ Half(log) /\ ~mute
  \/ at = "done" /\ (log = <<>> \/ Full(log))

PairOf(i) ==
  irp[i].whole =>
    /\ irp[i].at # "free" /\ capture = "ready" /\ Filtered
    /\ irp[i].at = "submitting" => irp[i].logged = <<>>
    /\ ~irp[i].dropped =>
         Halfway(irp[i].at, irp[i].logged, Mute(irp[i].urb), i \in DOMAIN URBIrpTable)

PairInv == \A i \in Irps : PairOf(i)

(* Whoever passed the test of a filter that the client asked for and that  *)
(* is still in force logs for a device that the client wanted.             *)
Tested(i) == irp[i].at \in {"submitting", "unknown", "completing"}

TestedInv == \A i \in Irps : Tested(i) => Wanted \/ Excused(i)

(* A log has at most two packets, each for a good reason; the second one   *)
(* comes with the completion, and none before a note is taken out.         *)
One(log) == \E p : log = <<p>> /\ p.justified
Two(log) == \E p, q : log = <<p, q>> /\ p.justified /\ q.justified

SoFar(at, log, noted) ==
  \/ log = <<>>
  \/ at \in {"bus", "returned", "completing", "done"} /\ One(log) /\ ~noted
  \/ at = "done" /\ Two(log)

LogInv ==
  \A i \in Irps : SoFar(irp[i].at, irp[i].logged, i \in DOMAIN URBIrpTable)
-----------------------------------------------------------------------------
(* The steps on the way up. *)

LEMMA AnalyzeCompleteStep ==
  ASSUME Shaped, NEW i \in Irps, AnalyzeComplete(i)
  PROVE  /\ irp[i].at = "returned" /\ URBIrpTable' = ObtainURBIRPInfo(i)
         /\ UNCHANGED <<deviceAddress, filter, capture, start, asked, late>>
         /\ descriptor' = descriptor \/ irp[i].urb.fn = "SELECT_CONFIGURATION"
         /\ \E at : /\ at = IF ~Filtered THEN "done"
                            ELSE IF i \in DOMAIN URBIrpTable THEN "unknown"
                            ELSE "completing"
                    /\ Step(i, at, irp[i].urb, irp[i].logged, irp[i].dropped)
<1>1. PICK at : at = IF ~Filtered THEN "done"
                     ELSE IF i \in DOMAIN URBIrpTable THEN "unknown" ELSE "completing"
  OBVIOUS
<1>2. PICK info : info = IF i \in DOMAIN URBIrpTable THEN URBIrpTable[i] ELSE NoInfo
  OBVIOUS
<1>3. /\ irp[i].at = "returned" /\ URBIrpTable' = ObtainURBIRPInfo(i)
      /\ UNCHANGED <<deviceAddress, filter, capture, start, asked, late>>
      /\ irp' = [irp EXCEPT ![i].at = at, ![i].info = info]
  BY <1>1, <1>2 DEF AnalyzeComplete
<1>4. descriptor' = descriptor \/ irp[i].urb.fn = "SELECT_CONFIGURATION"
  BY DEF AnalyzeComplete, AlwaysAnalyzed
<1>5. PICK y : y = [irp[i] EXCEPT !.at = at, !.info = info]
  OBVIOUS
<1>6. /\ Shape(y) /\ y.at = at /\ y.urb = irp[i].urb /\ y.fn = irp[i].fn
      /\ y.whole = irp[i].whole /\ y.logged = irp[i].logged
      /\ y.dropped = irp[i].dropped
  BY <1>5 DEF Shaped, Shape, Fields
<1>7. irp' = [irp EXCEPT ![i] = y]
  BY <1>3, <1>5 DEF Shaped
<1>8. Step(i, at, irp[i].urb, irp[i].logged, irp[i].dropped)
  BY <1>6, <1>7 DEF Step, Shaped
<1> QED
  BY <1>1, <1>3, <1>4, <1>8

LEMMA LogUnknownStep ==
  ASSUME Shaped, NEW i \in Irps, LogUnknownSubmit(i)
  PROVE  /\ irp[i].at = "unknown"
         /\ UNCHANGED <<device, filter, capture, start, history>>
         /\ \E p : ~p.post /\ Writes(i, "completing", <<p>>)
<1>1. PICK p : p = UnknownPacket([irp[i].urb EXCEPT !.fn = irp[i].info.fn], FALSE,
                                 irp[i].info.device)
  OBVIOUS
<1>2. ~p.post
  BY <1>1 DEF UnknownPacket, Packet
<1>3. PICK stored \in BOOLEAN :
        irp' = [irp EXCEPT ![i] = Logged(i, <<p>>, stored, "completing")]
  BY <1>1 DEF LogUnknownSubmit, Stored
<1>4. Writes(i, "completing", <<p>>)
  BY <1>3, LoggedWrites
<1> QED
  BY <1>2, <1>4 DEF LogUnknownSubmit

LEMMA LogCompleteStep ==
  ASSUME Shaped, NEW i \in Irps, LogComplete(i)
  PROVE  /\ irp[i].at = "completing" /\ late' = late \ {i}
         /\ UNCHANGED <<device, filter, capture, start, asked>>
         /\ Writes(i, "done", Packets(irp[i].urb, TRUE))
<1>1. PICK stored \in BOOLEAN :
        irp' = [irp EXCEPT ![i] = Logged(i, Packets(irp[i].urb, TRUE), stored, "done")]
  BY DEF LogComplete, Stored
<1>2. Writes(i, "done", Packets(irp[i].urb, TRUE))
  BY <1>1, LoggedWrites
<1> QED
  BY <1>2 DEF LogComplete
-----------------------------------------------------------------------------
(* The invariant of the notes, step by step. *)

(* The IRP i goes on, to a place where it still is in flight.              *)
Advance(i) ==
  \E at, v, logged, dropped :
    /\ irp[i].at # "free" /\ at \in Places \ {"free", "submitting"}
    /\ Returned(irp[i].urb, v) /\ Step(i, at, v, logged, dropped)

Travels == Shaped /\ AtRest /\ SameFunction /\ OneSelection

LEMMA AdvanceTravels ==
  ASSUME Travels, NEW i \in Irps, Advance(i), UNCHANGED start
  PROVE  Travels'
<1>1. PICK at, v, logged, dropped :
        /\ irp[i].at # "free" /\ at \in Places \ {"free", "submitting"}
        /\ Returned(irp[i].urb, v) /\ Step(i, at, v, logged, dropped)
  BY DEF Advance
<1>2. /\ irp' = [j \in Irps |-> irp'[j]]
      /\ \A j \in Irps : j # i => irp'[j] = irp[j]
      /\ Shape(irp'[i]) /\ irp'[i].at = at /\ irp'[i].urb = v
      /\ irp'[i].fn = irp[i].fn
  BY <1>1 DEF Step
<1>3. DOMAIN v = UrbFields
  BY <1>1 DEF Returned
<1>4. Shaped'
  BY <1>1, <1>2, <1>3 DEF Travels, Shaped, Shape
<1>5. InFlight' = InFlight /\ i \in InFlight
  BY <1>1, <1>2 DEF InFlight
<1>6. AtRest'
  BY <1>1, <1>2, <1>5 DEF Travels, AtRest
<1>7. /\ v.fn = irp[i].urb.fn \/ (irp[i].urb.fn \notin KnownFns /\ v.fn \notin SelectFns)
      /\ Selects(v) => Selects(irp[i].urb)
  BY <1>1 DEF Returned, Selects, SelectFns, KnownFns, WrappedFns, StandardType,
              VendorClassType, ControlFns, PipeFns
<1>8. SameFunction'
  BY <1>1, <1>2, <1>5, <1>7 DEF Travels, SameFunction, InFlight
<1>9. OneSelection'
  BY <1>2, <1>5, <1>7 DEF Travels, OneSelection, InFlight
<1> QED
  BY <1>4, <1>6, <1>8, <1>9 DEF Travels

LEMMA WritesAdvance ==
  ASSUME Shaped, NEW i \in Irps, irp[i].at # "free", NEW ps,
         NEW at \in Places \ {"free", "submitting"}, Writes(i, at, ps)
  PROVE  Advance(i)
<1>1. Returned(irp[i].urb, irp[i].urb)
  BY DEF Returned, Shaped
<1> QED
  BY <1>1 DEF Writes, Advance

LEMMA StepAdvance ==
  ASSUME Shaped, NEW i \in Irps, irp[i].at # "free", NEW logged, NEW dropped,
         NEW at \in Places \ {"free", "submitting"},
         Step(i, at, irp[i].urb, logged, dropped)
  PROVE  Advance(i)
<1>1. Returned(irp[i].urb, irp[i].urb)
  BY DEF Returned, Shaped
<1> QED
  BY <1>1 DEF Advance

(* Submit, the return of an IRP and the replacement of the filter.         *)
LEMMA SubmitStep ==
  ASSUME Shaped, NEW i \in Irps, NEW u \in Urbs[i], Submit(i, u)
  PROVE  /\ start.at # "stopped" /\ irp[i].at = "free" /\ MaySend(u)
         /\ UNCHANGED <<device, filter, capture, start, history>>
         /\ irp' = [j \in Irps |-> irp'[j]]
         /\ \A j \in Irps : j # i => irp'[j] = irp[j]
         /\ Shape(irp'[i]) /\ irp'[i].urb = u /\ irp'[i].fn = u.fn
         /\ irp'[i].at = IF Filtered THEN "submitting" ELSE "bus"
         /\ irp'[i].logged = <<>> /\ ~irp'[i].dropped
         /\ irp'[i].whole = (Filtered /\ capture = "ready")
<1>1. PICK y : y = [Idle EXCEPT !.at = IF Filtered THEN "submitting" ELSE "bus",
                                !.urb = u, !.fn = u.fn,
                                !.whole = Filtered /\ capture = "ready"]
  OBVIOUS
<1>2. /\ Shape(y) /\ y.urb = u /\ y.fn = u.fn
      /\ y.at = (IF Filtered THEN "submitting" ELSE "bus")
      /\ y.logged = <<>> /\ ~y.dropped
      /\ y.whole = (Filtered /\ capture = "ready")
  BY <1>1 DEF Shape, Fields, Idle
<1>3. irp' = [irp EXCEPT ![i] = y]
  BY <1>1 DEF Submit
<1> QED
  BY <1>2, <1>3 DEF Submit, Shaped

LEMMA SubmitTravels ==
  ASSUME Travels, NEW i \in Irps, NEW u \in Urbs[i], Submit(i, u)
  PROVE  Travels'
<1>1. /\ start.at # "stopped" /\ irp[i].at = "free" /\ MaySend(u)
      /\ UNCHANGED start
      /\ irp' = [j \in Irps |-> irp'[j]]
      /\ \A j \in Irps : j # i => irp'[j] = irp[j]
      /\ Shape(irp'[i]) /\ irp'[i].urb = u /\ irp'[i].fn = u.fn
      /\ irp'[i].at \in {"submitting", "bus"}
  BY SubmitStep DEF Travels
<1>2. DOMAIN u = UrbFields
  BY URBAssumption DEF IsUrb
<1>3. Shaped'
  BY <1>1, <1>2 DEF Travels, Shaped, Shape, Places
<1>4. AtRest'
  BY <1>1 DEF Travels, AtRest
<1>5. SameFunction'
  <2>1. u.fn \notin KnownFns => u.fn \notin SelectFns
    BY DEF SelectFns, KnownFns, WrappedFns, StandardType
  <2> QED
    BY <1>1, <2>1 DEF Travels, SameFunction, InFlight
<1>6. OneSelection'
  BY <1>1 DEF Travels, OneSelection, InFlight, MaySend
<1> QED
  BY <1>3, <1>4, <1>5, <1>6 DEF Travels

LEMMA ReturnStep ==
  ASSUME Shaped, NEW i \in Irps, Return(i)
  PROVE  /\ irp[i].at = "done"
         /\ UNCHANGED <<device, filter, capture, start, history>>
         /\ irp' = [j \in Irps |-> irp'[j]]
         /\ \A j \in Irps : j # i => irp'[j] = irp[j]
         /\ Shape(irp'[i]) /\ irp'[i].at = "free" /\ irp'[i].logged = <<>>
         /\ ~irp'[i].whole
<1>1. PICK y : y = Idle
  OBVIOUS
<1>2. irp' = [irp EXCEPT ![i] = y]
  BY <1>1 DEF Return
<1> QED
  BY <1>1, <1>2, IdleShape DEF Return, Shaped

LEMMA ReturnTravels ==
  ASSUME Travels, NEW i \in Irps, Return(i)
  PROVE  Travels'
<1>1. /\ irp[i].at = "done" /\ UNCHANGED start
      /\ irp' = [j \in Irps |-> irp'[j]]
      /\ \A j \in Irps : j # i => irp'[j] = irp[j]
      /\ Shape(irp'[i]) /\ irp'[i].at = "free" /\ irp'[i].logged = <<>>
      /\ ~irp'[i].whole
  BY ReturnStep DEF Travels
<1>2. InFlight' \subseteq InFlight /\ i \notin InFlight'
  BY <1>1 DEF InFlight
<1>3. Shaped'
  BY <1>1 DEF Travels, Shaped, Shape, Places
<1>4. AtRest'
  BY <1>1, <1>2 DEF Travels, AtRest
<1>5. SameFunction'
  BY <1>1, <1>2 DEF Travels, SameFunction, InFlight
<1>6. OneSelection'
  BY <1>1, <1>2 DEF Travels, OneSelection, InFlight
<1> QED
  BY <1>3, <1>4, <1>5, <1>6 DEF Travels

(* The filter or the address is replaced: no transfer in flight has one    *)
(* filter and one address any more.                                        *)
Replaces ==
  /\ irp' = [j \in Irps |-> irp'[j]]
  /\ \A j \in Irps :
       /\ Shape(irp'[j]) /\ irp'[j].at = irp[j].at /\ irp'[j].urb = irp[j].urb
       /\ irp'[j].fn = irp[j].fn /\ irp'[j].logged = irp[j].logged
       /\ ~irp'[j].whole

LEMMA ReplaceStep ==
  ASSUME Shaped, irp' = NoneWhole
  PROVE  Replaces
<1>1. irp' = [j \in Irps |-> [irp[j] EXCEPT !.whole = FALSE]]
  BY DEF NoneWhole
<1>2. ASSUME NEW j \in Irps
      PROVE  /\ Shape(irp'[j]) /\ irp'[j].at = irp[j].at /\ irp'[j].urb = irp[j].urb
             /\ irp'[j].fn = irp[j].fn /\ irp'[j].logged = irp[j].logged
             /\ ~irp'[j].whole
  <2>1. PICK y : y = [irp[j] EXCEPT !.whole = FALSE]
    OBVIOUS
  <2>2. irp'[j] = y
    BY <1>1, <2>1
  <2> QED
    BY <2>1, <2>2 DEF Shaped, Shape, Fields
<1>3. irp' = [j \in Irps |-> irp'[j]]
  BY <1>1
<1> QED
  BY <1>2, <1>3 DEF Replaces

LEMMA ReplaceTravels ==
  ASSUME Travels, Replaces, UNCHANGED start \/ start'.at # "stopped"
  PROVE  Travels'
<1>1. InFlight' = InFlight
  BY DEF Replaces, InFlight
<1>2. Shaped'
  BY DEF Travels, Replaces, Shaped, Shape
<1>3. AtRest'
  BY <1>1 DEF Travels, Replaces, AtRest
<1>4. SameFunction'
  BY <1>1 DEF Travels, Replaces, SameFunction, InFlight
<1>5. OneSelection'
  BY <1>1 DEF Travels, Replaces, OneSelection, InFlight
<1> QED
  BY <1>2, <1>3, <1>4, <1>5 DEF Travels

(* Other steps of the device leave the IRPs alone, and stop the device     *)
(* while none is in flight.                                                *)
LEMMA StartTravels ==
  ASSUME Travels, UNCHANGED irp,
         UNCHANGED start \/ start'.at # "stopped" \/ InFlight = {}
  PROVE  Travels'
<1>1. InFlight' = InFlight
  BY DEF InFlight
<1>2. AtRest'
  BY <1>1 DEF Travels, AtRest
<1> QED
  BY <1>1, <1>2 DEF Travels, Shaped, SameFunction, OneSelection, Shape
-----------------------------------------------------------------------------
Notes == NotesInFlight /\ NotesUnknown

LEMMA NotesKept ==
  ASSUME Notes, NEW i \in Irps, UNCHANGED URBIrpTable,
         \A j \in Irps : j # i => irp'[j] = irp[j],
         \/ irp[i].at \notin {"bus", "returned"}
         \/ irp'[i].at \in {"bus", "returned"} /\ irp'[i].fn = irp[i].fn
  PROVE  Notes'
BY DEF Notes, NotesInFlight, NotesUnknown

LEMMA AnalyzeSubmitNotes ==
  ASSUME UrbInv, NEW i \in Irps, AnalyzeSubmit(i)
  PROVE  UrbInv'
<1>0. Shaped /\ Travels /\ Notes
  BY DEF UrbInv, Travels, Notes
<1>1. PICK u : u = irp[i].urb
  OBVIOUS
<1>2. /\ irp[i].at = "submitting" /\ UNCHANGED start
      /\ \/ UNCHANGED URBIrpTable /\ Writes(i, "bus", Packets(u, FALSE))
         \/ /\ u.fn \notin KnownFns /\ Step(i, "bus", u, irp[i].logged, FALSE)
            /\ URBIrpTable' = AddURBIRPInfo(i, [fn |-> u.fn, device |-> deviceAddress])
         \/ UNCHANGED URBIrpTable /\ Step(i, "bus", u, irp[i].logged, TRUE)
  BY <1>0, <1>1, AnalyzeSubmitStep
<1>3. Advance(i)
  <2>1. "bus" \in Places \ {"free", "submitting"}
    BY DEF Places
  <2>2. ASSUME NEW d, Step(i, "bus", irp[i].urb, irp[i].logged, d)
        PROVE  Advance(i)
    BY <1>0, <1>2, <2>1, <2>2, StepAdvance
  <2>3. ASSUME Writes(i, "bus", Packets(u, FALSE))
        PROVE  Advance(i)
    BY <1>0, <1>2, <2>1, <2>3, WritesAdvance
  <2> QED
    BY <1>1, <1>2, <2>2, <2>3
<1>4. Travels'
  BY <1>0, <1>2, <1>3, AdvanceTravels
<1>5. \A j \in Irps : j # i => irp'[j] = irp[j]
  BY <1>2 DEF Writes, Step
<1>6. CASE UNCHANGED URBIrpTable
  <2>1. Notes'
    BY <1>0, <1>2, <1>5, <1>6, NotesKept
  <2> QED
    BY <1>4, <2>1 DEF UrbInv, Travels, Notes
<1>7. CASE /\ u.fn \notin KnownFns /\ Step(i, "bus", u, irp[i].logged, FALSE)
           /\ URBIrpTable' = AddURBIRPInfo(i, [fn |-> u.fn, device |-> deviceAddress])
  <2>1. u.fn = irp[i].fn
    BY <1>0, <1>1, <1>2 DEF Travels, SameFunction, InFlight
  <2>2. i \notin DOMAIN URBIrpTable
    BY <1>0, <1>2 DEF Notes, NotesInFlight
  <2>3. irp'[i].at = "bus" /\ irp'[i].fn = irp[i].fn
    BY <1>7 DEF Step
  <2>4. PICK note : note = [fn |-> u.fn, device |-> deviceAddress]
    OBVIOUS
  <2>5. /\ DOMAIN URBIrpTable' = DOMAIN URBIrpTable \cup {i}
        /\ URBIrpTable'[i] = note
        /\ \A j \in DOMAIN URBIrpTable : URBIrpTable'[j] = URBIrpTable[j]
    BY <1>7, <2>2, <2>4 DEF AddURBIRPInfo
  <2>6. note.fn = irp[i].fn
    BY <2>1, <2>4
  <2>7. Notes'
    BY <1>0, <1>5, <1>7, <2>1, <2>3, <2>5, <2>6 DEF Notes, NotesInFlight, NotesUnknown
  <2> QED
    BY <1>4, <2>7 DEF UrbInv, Travels, Notes
<1> QED
  BY <1>2, <1>6, <1>7

LEMMA BusNotes ==
  ASSUME UrbInv, NEW i \in Irps, BusCompletes(i)
  PROVE  UrbInv'
<1>0. Shaped /\ Travels /\ Notes
  BY DEF UrbInv, Travels, Notes
<1>1. PICK v : /\ Returned(irp[i].urb, v)
               /\ Step(i, "returned", v, irp[i].logged, irp[i].dropped)
  BY <1>0, BusStep
<1>2. irp[i].at = "bus" /\ UNCHANGED start /\ UNCHANGED URBIrpTable
  BY <1>0, BusStep DEF device
<1>3. Advance(i)
  BY <1>1, <1>2 DEF Advance, Places
<1>4. Travels'
  BY <1>0, <1>2, <1>3, AdvanceTravels
<1>5. Notes'
  BY <1>0, <1>1, <1>2, NotesKept DEF Step
<1> QED
  BY <1>4, <1>5 DEF UrbInv, Travels, Notes

LEMMA AnalyzeCompleteNotes ==
  ASSUME UrbInv, NEW i \in Irps, AnalyzeComplete(i)
  PROVE  UrbInv'
<1>0. Shaped /\ Travels /\ Notes
  BY DEF UrbInv, Travels, Notes
<1>1. PICK at : /\ at \in {"done", "unknown", "completing"}
                /\ Step(i, at, irp[i].urb, irp[i].logged, irp[i].dropped)
  BY <1>0, AnalyzeCompleteStep
<1>2. /\ irp[i].at = "returned" /\ UNCHANGED start
      /\ URBIrpTable' = ObtainURBIRPInfo(i)
  BY <1>0, AnalyzeCompleteStep
<1>3. at \in Places \ {"free", "submitting"}
  BY <1>1 DEF Places
<1>4. Advance(i)
  BY <1>0, <1>1, <1>2, <1>3, StepAdvance
<1>5. Travels'
  BY <1>0, <1>2, <1>4, AdvanceTravels
<1>6. /\ DOMAIN URBIrpTable' = DOMAIN URBIrpTable \ {i}
      /\ \A j \in DOMAIN URBIrpTable \ {i} : URBIrpTable'[j] = URBIrpTable[j]
  BY <1>2 DEF ObtainURBIRPInfo
<1>7. \A j \in Irps : j # i => irp'[j] = irp[j]
  BY <1>1 DEF Step
<1>8. Notes'
  BY <1>0, <1>6, <1>7 DEF Notes, NotesInFlight, NotesUnknown
<1> QED
  BY <1>5, <1>8 DEF UrbInv, Travels, Notes

LEMMA WritesNotes ==
  ASSUME UrbInv, NEW i \in Irps, NEW at \in Places \ {"free", "submitting"}, NEW ps,
         irp[i].at \in {"unknown", "completing"}, Writes(i, at, ps),
         UNCHANGED <<start, URBIrpTable>>
  PROVE  UrbInv'
<1>0. Shaped /\ Travels /\ Notes
  BY DEF UrbInv, Travels, Notes
<1>1. Advance(i)
  BY <1>0, WritesAdvance
<1>2. Travels'
  BY <1>0, <1>1, AdvanceTravels
<1>3. \A j \in Irps : j # i => irp'[j] = irp[j]
  BY DEF Writes, Step
<1>4. Notes'
  BY <1>0, <1>3, NotesKept
<1> QED
  BY <1>2, <1>4 DEF UrbInv, Travels, Notes

LEMMA SubmitNotes ==
  ASSUME UrbInv, NEW i \in Irps, NEW u \in Urbs[i], Submit(i, u)
  PROVE  UrbInv'
<1>0. Shaped /\ Travels /\ Notes
  BY DEF UrbInv, Travels, Notes
<1>1. Travels'
  BY <1>0, SubmitTravels
<1>2. /\ irp[i].at = "free" /\ UNCHANGED URBIrpTable
      /\ \A j \in Irps : j # i => irp'[j] = irp[j]
  BY <1>0, SubmitStep DEF device
<1>3. Notes'
  BY <1>0, <1>2, NotesKept
<1> QED
  BY <1>1, <1>3 DEF UrbInv, Travels, Notes

LEMMA ReturnNotes ==
  ASSUME UrbInv, NEW i \in Irps, Return(i)
  PROVE  UrbInv'
<1>0. Shaped /\ Travels /\ Notes
  BY DEF UrbInv, Travels, Notes
<1>1. Travels'
  BY <1>0, ReturnTravels
<1>2. /\ irp[i].at = "done" /\ UNCHANGED URBIrpTable
      /\ \A j \in Irps : j # i => irp'[j] = irp[j]
  BY <1>0, ReturnStep DEF device
<1>3. Notes'
  BY <1>0, <1>2, NotesKept
<1> QED
  BY <1>1, <1>3 DEF UrbInv, Travels, Notes

LEMMA ReplaceNotes ==
  ASSUME UrbInv, irp' = NoneWhole, UNCHANGED URBIrpTable,
         UNCHANGED start \/ start'.at # "stopped"
  PROVE  UrbInv'
<1>0. Shaped /\ Travels /\ Notes
  BY DEF UrbInv, Travels, Notes
<1>1. Replaces
  BY <1>0, ReplaceStep
<1>2. Travels'
  BY <1>0, <1>1, ReplaceTravels
<1>3. Notes'
  BY <1>0, <1>1 DEF Replaces, Notes, NotesInFlight, NotesUnknown
<1> QED
  BY <1>2, <1>3 DEF UrbInv, Travels, Notes

LEMMA StartNotes ==
  ASSUME UrbInv, UNCHANGED <<irp, URBIrpTable>>,
         UNCHANGED start \/ start'.at # "stopped" \/ InFlight = {}
  PROVE  UrbInv'
<1>0. Shaped /\ Travels /\ Notes
  BY DEF UrbInv, Travels, Notes
<1>1. Travels'
  BY <1>0, StartTravels
<1>2. Notes'
  BY <1>0 DEF Notes, NotesInFlight, NotesUnknown
<1> QED
  BY <1>1, <1>2 DEF UrbInv, Travels, Notes

(* The capture is set up or ended, the device is started or stopped        *)
(* without a new address, or nothing happens: the steps that leave the     *)
(* IRPs and the notes alone.                                               *)
Asks(success) == GetDeviceUSBInfo(success) /\ deviceAddress' = deviceAddress

Apart ==
  \/ SetUpBuffer \/ CleanupBuffer \/ StopDevice
  \/ \E a \in Addresses : StartDevice(a)
  \/ \E success \in BOOLEAN : Asks(success)
  \/ UNCHANGED vars

Replacing == StopFiltering \/ CleanupFilter \/ \E f \in Filters : StartFiltering(f)

(* The steps of the start of the device that replace the address or add it *)
(* to the filter.                                                          *)
Learns(success) == GetDeviceUSBInfo(success) /\ deviceAddress' # deviceAddress

Renewing == SetDeviceFiltered \/ \E success \in BOOLEAN : Learns(success)

LEMMA ApartLeaves ==
  ASSUME Apart
  PROVE  /\ UNCHANGED <<irp, URBIrpTable, descriptor>>
         /\ UNCHANGED start \/ start'.at # "stopped" \/ InFlight = {}
<1>1. CASE SetUpBuffer \/ CleanupBuffer
  BY <1>1 DEF SetUpBuffer, CleanupBuffer, device
<1>2. CASE StopDevice
  BY <1>2 DEF StopDevice, device
<1>3. ASSUME NEW a \in Addresses, StartDevice(a)
      PROVE  UNCHANGED <<irp, URBIrpTable, descriptor>> /\ start'.at # "stopped"
  BY <1>3 DEF StartDevice, device
<1>4. ASSUME NEW success \in BOOLEAN, Asks(success)
      PROVE  UNCHANGED <<irp, URBIrpTable, descriptor>> /\ start'.at # "stopped"
  BY <1>4 DEF Asks, GetDeviceUSBInfo
<1>5. CASE UNCHANGED vars
  BY <1>5 DEF vars, device
<1> QED
  BY <1>1, <1>2, <1>3, <1>4, <1>5 DEF Apart

LEMMA ReplacingReplaces ==
  ASSUME Replacing
  PROVE  /\ \E f : ReplaceFilter(f)
         /\ irp' = NoneWhole /\ UNCHANGED <<device, start>>
BY DEF Replacing, StopFiltering, CleanupFilter, StartFiltering, ReplaceFilter

LEMMA RenewingReplaces ==
  ASSUME Renewing
  PROVE  /\ irp' = NoneWhole /\ start'.at # "stopped"
         /\ UNCHANGED <<endpointTable, URBIrpTable, descriptor, capture, bus, lost>>
<1>1. CASE SetDeviceFiltered
  BY <1>1 DEF SetDeviceFiltered, device
<1>2. ASSUME NEW success \in BOOLEAN, Learns(success)
      PROVE  /\ irp' = NoneWhole /\ start'.at # "stopped"
             /\ UNCHANGED <<endpointTable, URBIrpTable, descriptor, capture, bus, lost>>
  BY <1>2 DEF Learns, GetDeviceUSBInfo
<1> QED
  BY <1>1, <1>2 DEF Renewing

LEMMA UrbInit ==
  ASSUME Init
  PROVE  UrbInv
<1>1. PICK y : y = Idle
  OBVIOUS
<1>2. /\ irp = [i \in Irps |-> y] /\ URBIrpTable = <<>>
      /\ start = [at |-> "stopped", seen |-> {}]
  BY <1>1 DEF Init
<1>3. Shape(y) /\ y.at = "free" /\ y.logged = <<>> /\ ~y.whole
  BY <1>1, IdleShape
<1>4. InFlight = {}
  BY <1>2, <1>3 DEF InFlight
<1>5. Shaped /\ AtRest
  BY <1>2, <1>3, <1>4 DEF Shaped, AtRest, Places
<1>6. SameFunction /\ OneSelection
  BY <1>4 DEF SameFunction, OneSelection
<1>7. NotesInFlight /\ NotesUnknown
  BY <1>2 DEF NotesInFlight, NotesUnknown
<1> QED
  BY <1>5, <1>6, <1>7 DEF UrbInv

(* Every step is one of these.                                             *)
LEMMA NextCases ==
  ASSUME [Next]_vars
  PROVE  \/ Apart \/ Replacing \/ Renewing
         \/ \E i \in Irps :
              \/ \E u \in Urbs[i] : Submit(i, u)
              \/ AnalyzeSubmit(i) \/ BusCompletes(i) \/ AnalyzeComplete(i)
              \/ LogUnknownSubmit(i) \/ LogComplete(i) \/ Return(i)
<1>1. ASSUME NEW success \in BOOLEAN, GetDeviceUSBInfo(success)
      PROVE  Apart \/ Renewing
  BY <1>1 DEF Apart, Renewing, Asks, Learns
<1> QED
  BY <1>1 DEF Next, Apart, Replacing, Renewing

LEMMA UrbStep ==
  ASSUME UrbInv, [Next]_vars
  PROVE  UrbInv'
<1>0. Shaped /\ "completing" \in Places \ {"free", "submitting"}
             /\ "done" \in Places \ {"free", "submitting"}
  BY DEF UrbInv, Places
<1>1. CASE Apart
  BY <1>1, ApartLeaves, StartNotes
<1>2. CASE Replacing
  BY <1>2, ReplacingReplaces, ReplaceNotes DEF device
<1>8. CASE Renewing
  BY <1>8, RenewingReplaces, ReplaceNotes
<1>3. ASSUME NEW i \in Irps, NEW u \in Urbs[i], Submit(i, u)
      PROVE  UrbInv'
  BY <1>3, SubmitNotes
<1>4. ASSUME NEW i \in Irps, AnalyzeSubmit(i) \/ BusCompletes(i) \/ AnalyzeComplete(i)
      PROVE  UrbInv'
  BY <1>4, AnalyzeSubmitNotes, BusNotes, AnalyzeCompleteNotes
<1>5. ASSUME NEW i \in Irps, LogUnknownSubmit(i)
      PROVE  UrbInv'
  <2>1. PICK p : Writes(i, "completing", <<p>>)
    BY <1>0, <1>5, LogUnknownStep
  <2>2. irp[i].at = "unknown" /\ UNCHANGED <<start, URBIrpTable>>
    BY <1>5 DEF LogUnknownSubmit, device
  <2> QED
    BY <1>0, <2>1, <2>2, WritesNotes
<1>6. ASSUME NEW i \in Irps, LogComplete(i)
      PROVE  UrbInv'
  <2>1. PICK ps : Writes(i, "done", ps)
    BY <1>0, <1>6, LogCompleteStep
  <2>2. irp[i].at = "completing" /\ UNCHANGED <<start, URBIrpTable>>
    BY <1>6 DEF LogComplete, device
  <2> QED
    BY <1>0, <2>1, <2>2, WritesNotes
<1>7. ASSUME NEW i \in Irps, Return(i)
      PROVE  UrbInv'
  BY <1>7, ReturnNotes
<1> QED
  BY <1>1, <1>2, <1>3, <1>4, <1>5, <1>6, <1>7, <1>8, NextCases

(* The note of an unknown function (USBPcapAddURBIRPInfo) is in the table  *)
(* only while its IRP is below the filter, and is the note of that use.    *)
THEOREM NotesStayInFlight == Spec => []NotesInFlight
<1>1. Init => UrbInv
  BY UrbInit
<1>2. UrbInv /\ [Next]_vars => UrbInv'
  BY UrbStep
<1>3. UrbInv => NotesInFlight
  BY DEF UrbInv
<1> QED
  BY <1>1, <1>2, <1>3, PTL DEF Spec
-----------------------------------------------------------------------------
(* What the switch on the function writes, and where it goes. *)

(* At most one packet, for the way it is written on.                       *)
OneFor(ps, post) == \E p : ps = <<p>> /\ p.post = post

LEMMA PacketPosts ==
  ASSUME NEW u, NEW post \in BOOLEAN, NEW table, NEW dev
  PROVE  /\ ControlPacket(u, post, table, dev).post = post
         /\ BulkPacket(u, post, table, dev).post = post
         /\ IsochPacket(u, post, table, dev).post = post
         /\ PipePacket(u, post, table, dev).post = post
         /\ FramePacket(u, post, dev).post = post
         /\ UnknownPacket(u, post, dev).post = post
<1>1. ControlPacket(u, post, table, dev).post = post
  BY DEF ControlPacket, Packet
<1>2. BulkPacket(u, post, table, dev).post = post
  BY DEF BulkPacket, Packet
<1>3. IsochPacket(u, post, table, dev).post = post
  BY DEF IsochPacket, Packet
<1>4. PipePacket(u, post, table, dev).post = post
  BY DEF PipePacket, Packet
<1>5. FramePacket(u, post, dev).post = post /\ UnknownPacket(u, post, dev).post = post
  BY DEF FramePacket, UnknownPacket, Packet
<1> QED
  BY <1>1, <1>2, <1>3, <1>4, <1>5

(* One packet, unless the selection is mute, the safety check drops the    *)
(* transfer or the function is unknown and goes down.                      *)
LEMMA PacketsOne ==
  ASSUME NEW u, NEW post \in BOOLEAN
  PROVE  \/ OneFor(Packets(u, post), post) /\ ~Mute(u)
         \/ Packets(u, post) = <<>> /\ Mute(u)
         \/ Packets(u, post) = <<>> /\ ~Mute(u) /\ u.fn = "ISOCH_TRANSFER"
         \/ Packets(u, post) = <<>> /\ ~Mute(u) /\ u.fn \notin KnownFns /\ ~post
<1>1. PICK fn : fn = u.fn
  OBVIOUS
<1>2. CASE fn \in WrappedFns \cup ControlFns
  <2>1. Packets(u, post) = IF Mute(u) THEN <<>>
                           ELSE <<ControlPacket(u, post, endpointTable, deviceAddress)>>
    BY <1>1, <1>2 DEF Packets, Mute, WrappedFns, ControlFns, StandardType,
                      VendorClassType, PipeFns
  <2> QED
    BY <2>1, PacketPosts DEF OneFor
<1>3. CASE fn \notin WrappedFns \cup ControlFns
  <2>0. ~Mute(u)
    BY <1>1, <1>3 DEF Mute, WrappedFns, StandardType
  <2>1. CASE fn = "BULK_OR_INTERRUPT_TRANSFER"
    <3>1. Packets(u, post) = <<BulkPacket(u, post, endpointTable, deviceAddress)>>
      BY <1>1, <1>3, <2>1 DEF Packets, PipeFns
    <3> QED
      BY <2>0, <3>1, PacketPosts DEF OneFor
  <2>2. CASE fn = "ISOCH_TRANSFER"
    <3>1. Packets(u, post) = IF IsoDropped(u, post) THEN <<>>
                  ELSE <<IsochPacket(u, post, endpointTable, deviceAddress)>>
      BY <1>1, <1>3, <2>2 DEF Packets, PipeFns
    <3> QED
      BY <1>1, <2>0, <2>2, <3>1, PacketPosts DEF OneFor
  <2>3. CASE fn \in PipeFns
    <3>1. Packets(u, post) = <<PipePacket(u, post, endpointTable, deviceAddress)>>
      BY <1>1, <1>3, <2>3 DEF Packets, PipeFns
    <3> QED
      BY <2>0, <3>1, PacketPosts DEF OneFor
  <2>4. CASE fn = "GET_CURRENT_FRAME_NUMBER"
    <3>1. Packets(u, post) = <<FramePacket(u, post, deviceAddress)>>
      BY <1>1, <1>3, <2>4 DEF Packets, PipeFns
    <3> QED
      BY <2>0, <3>1, PacketPosts DEF OneFor
  <2>5. CASE fn \notin KnownFns
    <3>1. Packets(u, post) = IF post THEN <<UnknownPacket(u, post, deviceAddress)>>
                             ELSE <<>>
      BY <1>1, <1>3, <2>5 DEF Packets, KnownFns
    <3> QED
      BY <1>1, <2>0, <2>5, <3>1, PacketPosts DEF OneFor
  <2> QED
    BY <1>3, <2>1, <2>2, <2>3, <2>4, <2>5 DEF KnownFns
<1> QED
  BY <1>2, <1>3

(* The log of an IRP after it was handed no packet, or one.                *)
LEMMA LongerNone ==
  ASSUME NEW i \in Irps, irp[i].logged = <<>> \/ \E q : irp[i].logged = <<q>>
  PROVE  Longer(i, <<>>) = irp[i].logged
<1>1. PICK j : j = (Wanted \/ Excused(i))
  OBVIOUS
<1>2. [n \in DOMAIN <<>> |-> [packet |-> <<>>[n], justified |-> j]] = <<>>
  OBVIOUS
<1>3. ASSUME NEW l, l = <<>> \/ \E q : l = <<q>>
      PROVE  l \o <<>> = l
  BY <1>3
<1> QED
  BY <1>1, <1>2, <1>3 DEF Longer

LEMMA LongerOne ==
  ASSUME NEW i \in Irps, NEW p
  PROVE  \E e : /\ e.packet = p /\ e.justified = (Wanted \/ Excused(i))
                /\ irp[i].logged = <<>> => Longer(i, <<p>>) = <<>> \/ Longer(i, <<p>>) = <<e>>
                /\ irp[i].logged = <<>> /\ capture # "off" => Longer(i, <<p>>) = <<e>>
                /\ \A q : irp[i].logged = <<q>> =>
                     /\ Longer(i, <<p>>) \in {<<q>>, <<q, e>>}
                     /\ capture # "off" => Longer(i, <<p>>) = <<q, e>>
<1>1. PICK j : j = (Wanted \/ Excused(i))
  OBVIOUS
<1>2. PICK e : e = [packet |-> p, justified |-> j]
  OBVIOUS
<1>3. [n \in DOMAIN <<p>> |-> [packet |-> <<p>>[n], justified |-> j]] = <<e>>
  BY <1>2
<1>4. Longer(i, <<p>>) = IF capture = "off" THEN irp[i].logged
                         ELSE irp[i].logged \o <<e>>
  BY <1>1, <1>3 DEF Longer
<1>5. /\ <<>> \o <<e>> = <<e>>
      /\ \A q : <<q>> \o <<e>> = <<q, e>>
  <2>1. <<>> \o <<e>> = <<e>>
    OBVIOUS
  <2>2. ASSUME NEW q
        PROVE  <<q>> \o <<e>> = <<q, e>>
    <3>1. <<q>> \in Seq({q, e}) /\ <<e>> \in Seq({q, e})
      OBVIOUS
    <3>2. PICK t : t = <<q>> \o <<e>>
      OBVIOUS
    <3>3. t \in Seq({q, e}) /\ Len(t) = 2 /\ t[1] = q /\ t[2] = e
      BY <3>1, <3>2
    <3>4. PICK r : r = <<q, e>>
      OBVIOUS
    <3>5. r \in Seq({q, e}) /\ Len(r) = 2 /\ r[1] = q /\ r[2] = e
      BY <3>4
    <3>6. \A n \in 1 .. Len(t) : t[n] = r[n]
      BY <3>3, <3>5
    <3>7. t = r
      BY <3>3, <3>5, <3>6, SeqEqual
    <3> QED
      BY <3>2, <3>4, <3>7
  <2> QED
    BY <2>1, <2>2
<1>6. e.packet = p /\ e.justified = (Wanted \/ Excused(i))
  BY <1>1, <1>2
<1> QED
  BY <1>4, <1>5, <1>6
-----------------------------------------------------------------------------
(* The types of the address, the filter and the progress of a start. *)

Bits == SUBSET (Addresses \cup {NewDevices})
FilterBits == [all : BOOLEAN, addresses : Bits]

(* The bits that a device start keeps are bits of a filter, and it sets    *)
(* one only when it has the address; the filter and what was asked for     *)
(* differ in addresses only.                                               *)
BitsInv ==
  /\ deviceAddress \in Addresses \cup {UnknownAddress} /\ busAddress \in Addresses
  /\ filter \in FilterBits /\ asked \in FilterBits /\ filter.all = asked.all
  /\ start \in [at : {"stopped", "querying", "setBit", "started"}, seen : Bits]
  /\ start.at = "setBit" => deviceAddress \in Addresses
  /\ capture \in {"off", "ready", "closing"}
  /\ late \subseteq Irps \cup {"start"}

LEMMA ReplaceBits ==
  ASSUME BitsInv, Replacing
  PROVE  BitsInv'
<1>1. NoFilter \in FilterBits
  BY DEF NoFilter, Bits, FilterBits
<1>2. Filters \subseteq FilterBits
  BY URBAssumption DEF Bits, FilterBits
<1>3. PICK f \in FilterBits : ReplaceFilter(f)
  BY <1>1, <1>2 DEF Replacing, StopFiltering, CleanupFilter, StartFiltering
<1>4. capture' \in {"off", "ready", "closing"}
  BY DEF Replacing, StopFiltering, CleanupFilter, StartFiltering, BitsInv
<1>5. /\ filter' = f /\ asked' = f /\ late' \subseteq late \cup Testing \cup {"start"}
      /\ UNCHANGED <<deviceAddress, busAddress, start>>
  BY <1>3 DEF ReplaceFilter, device, bus
<1>6. Testing \subseteq Irps
  BY DEF Testing
<1> QED
  BY <1>3, <1>4, <1>5, <1>6 DEF BitsInv

LEMMA StartBits ==
  ASSUME BitsInv, NEW success \in BOOLEAN, GetDeviceUSBInfo(success)
  PROVE  BitsInv'
<1>1. PICK all \in BOOLEAN, addresses \in Bits :
        filter = [all |-> all, addresses |-> addresses]
  BY DEF BitsInv, FilterBits
<1>2. {} \in Bits
  BY DEF Bits
<1>3. /\ deviceAddress' = IF success THEN busAddress ELSE deviceAddress
      /\ start' = IF success /\ IsDeviceFiltered(filter, NewDevices)
                  THEN [at |-> "setBit", seen |-> addresses]
                  ELSE [at |-> "started", seen |-> {}]
      /\ UNCHANGED <<filter, asked, capture, busAddress>>
  BY <1>1 DEF GetDeviceUSBInfo, bus
<1>4. late' \subseteq late \cup Irps
  BY DEF GetDeviceUSBInfo, Testing
<1> QED
  BY <1>2, <1>3, <1>4 DEF BitsInv

LEMMA SetBits ==
  ASSUME BitsInv, SetDeviceFiltered
  PROVE  BitsInv'
<1>1. PICK all \in BOOLEAN, addresses \in Bits :
        filter = [all |-> all, addresses |-> addresses]
  BY DEF BitsInv, FilterBits
<1>2. start.seen \in Bits /\ {} \in Bits /\ deviceAddress \in Addresses
  BY DEF BitsInv, Bits, SetDeviceFiltered
<1>3. PICK kept \in Bits : filter' = [filter EXCEPT !.addresses = kept \cup {deviceAddress}]
  BY <1>1, <1>2 DEF SetDeviceFiltered
<1>4. filter' = [all |-> all, addresses |-> kept \cup {deviceAddress}]
  BY <1>1, <1>3
<1>5. kept \cup {deviceAddress} \in Bits
  BY <1>2 DEF Bits
<1>6. /\ start' = [at |-> "started", seen |-> {}] /\ late' = late \ {"start"}
      /\ UNCHANGED <<deviceAddress, busAddress, capture>>
  BY DEF SetDeviceFiltered, device, bus
<1>7. asked' \in FilterBits /\ asked'.all = all
  <2>1. PICK wanted \in Bits : asked = [all |-> all, addresses |-> wanted]
    BY <1>1 DEF BitsInv, FilterBits
  <2>2. asked' = asked \/ asked' = [asked EXCEPT !.addresses = @ \cup {deviceAddress}]
    BY DEF SetDeviceFiltered
  <2>3. asked' = asked \/ asked' = [all |-> all, addresses |-> wanted \cup {deviceAddress}]
    BY <2>1, <2>2
  <2>4. wanted \cup {deviceAddress} \in Bits
    BY <1>2 DEF Bits
  <2> QED
    BY <1>1, <2>1, <2>3, <2>4 DEF FilterBits
<1> QED
  BY <1>2, <1>4, <1>5, <1>6, <1>7 DEF BitsInv, FilterBits

LEMMA BitsStep ==
  ASSUME BitsInv, [Next]_vars
  PROVE  BitsInv'
<1>1. CASE Replacing
  BY <1>1, ReplaceBits
<1>2. ASSUME NEW success \in BOOLEAN, GetDeviceUSBInfo(success)
      PROVE  BitsInv'
  BY <1>2, StartBits
<1>3. CASE SetDeviceFiltered
  BY <1>3, SetBits
<1>4. CASE SetUpBuffer \/ CleanupBuffer
  <2>1. /\ capture' \in {"ready", "off"}
        /\ UNCHANGED <<deviceAddress, busAddress, filter, asked, start, late>>
    BY <1>4 DEF SetUpBuffer, CleanupBuffer, device, bus, history
  <2> QED
    BY <2>1 DEF BitsInv
<1>5. CASE StopDevice
  <2>1. start' = [start EXCEPT !.at = "stopped"]
        /\ UNCHANGED <<deviceAddress, busAddress, filter, asked, capture, late>>
    BY <1>5 DEF StopDevice, device, history
  <2> QED
    BY <2>1 DEF BitsInv
<1>12. ASSUME NEW a \in Addresses, StartDevice(a)
       PROVE  BitsInv'
  <2>1. /\ start' = [start EXCEPT !.at = "querying"] /\ busAddress' = a
        /\ UNCHANGED <<deviceAddress, filter, asked, capture, late>>
    BY <1>12 DEF StartDevice, device, history
  <2> QED
    BY <2>1 DEF BitsInv
<1>6. ASSUME UNCHANGED <<deviceAddress, busAddress, filter, asked, start, capture>>,
             late' \subseteq late
      PROVE  BitsInv'
  BY <1>6 DEF BitsInv
<1>7. ASSUME NEW i \in Irps, NEW u \in Urbs[i], Submit(i, u)
      PROVE  BitsInv'
  BY <1>6, <1>7 DEF Submit, device, bus, history
<1>8. ASSUME NEW i \in Irps, AnalyzeSubmit(i) \/ LogComplete(i)
      PROVE  BitsInv'
  BY <1>6, <1>8 DEF AnalyzeSubmit, LogComplete, device, bus
<1>9. ASSUME NEW i \in Irps, BusCompletes(i) \/ AnalyzeComplete(i)
      PROVE  BitsInv'
  BY <1>6, <1>9 DEF BusCompletes, AnalyzeComplete, device, bus, history
<1>10. ASSUME NEW i \in Irps, LogUnknownSubmit(i) \/ Return(i)
       PROVE  BitsInv'
  BY <1>6, <1>10 DEF LogUnknownSubmit, Return, device, bus, history
<1>11. CASE UNCHANGED vars
  BY <1>6, <1>11 DEF vars, device, bus, history
<1> QED
  BY <1>1, <1>2, <1>3, <1>4, <1>5, <1>7, <1>8, <1>9, <1>10, <1>11, <1>12
     DEF Next, Replacing

LEMMA BitsInit ==
  ASSUME Init
  PROVE  BitsInv
BY DEF Init, BitsInv, FilterBits, Bits, NoFilter
-----------------------------------------------------------------------------
(* Nothing is stored that the client did not want. *)

LEMMA FilteredWanted ==
  ASSUME BitsInv, Filtered, NEW i \in Irps
  PROVE  Wanted \/ Excused(i)
<1>1. deviceAddress \in 0 .. 127 \/ deviceAddress # busAddress
  BY URBAssumption DEF BitsInv, UnknownAddress
<1> QED
  BY <1>1 DEF BitsInv, Filtered, IsDeviceFiltered, Wanted, Excused

LEMMA TestedKept ==
  ASSUME TestedInv, NEW i \in Irps, \A j \in Irps : j # i => irp'[j] = irp[j],
         UNCHANGED <<deviceAddress, busAddress, filter, asked>>,
         late \ {i} \subseteq late',
         Tested(i)' => Wanted' \/ Excused(i)'
  PROVE  TestedInv'
<1>1. ASSUME NEW j \in Irps, Tested(j)'
      PROVE  Wanted' \/ Excused(j)'
  BY <1>1 DEF TestedInv, Tested, Wanted, Excused
<1> QED
  BY <1>1 DEF TestedInv

LEMMA TestedStep ==
  ASSUME UrbInv, BitsInv, TestedInv, [Next]_vars
  PROVE  TestedInv'
<1>0. Shaped /\ AtRest
  BY DEF UrbInv
<1>1. CASE Apart
  <2>0. UNCHANGED irp
    BY <1>1, ApartLeaves
  <2>1. CASE \/ SetUpBuffer \/ CleanupBuffer \/ UNCHANGED vars
             \/ \E success \in BOOLEAN : Asks(success)
    <3>1. UNCHANGED <<deviceAddress, busAddress, filter, asked, late>>
      BY <2>1 DEF SetUpBuffer, CleanupBuffer, Asks, GetDeviceUSBInfo, vars, device,
                  bus, history
    <3> QED
      BY <2>0, <3>1 DEF TestedInv, Tested, Wanted, Excused
  <2>2. CASE StopDevice \/ \E a \in Addresses : StartDevice(a)
    <3>1. InFlight = {}
      BY <1>0, <2>2 DEF AtRest, StopDevice, StartDevice
    <3>2. \A i \in Irps : ~Tested(i)'
      BY <2>0, <3>1 DEF InFlight, Tested
    <3> QED
      BY <3>2 DEF TestedInv
  <2> QED
    BY <1>1, <2>1, <2>2 DEF Apart
<1>2. CASE Replacing \/ \E success \in BOOLEAN : Learns(success)
  <2>1. irp' = NoneWhole
    BY <1>2, ReplacingReplaces DEF Learns, GetDeviceUSBInfo
  <2>2. late \cup Testing \subseteq late'
    BY <1>2, ReplacingReplaces DEF ReplaceFilter, Learns, GetDeviceUSBInfo
  <2>3. \A i \in Irps : irp'[i].at = irp[i].at
    BY <1>0, <2>1, ReplaceStep DEF Replaces
  <2>4. ASSUME NEW i \in Irps, Tested(i)'
        PROVE  i \in late'
    BY <2>2, <2>3, <2>4 DEF Testing, Tested
  <2> QED
    BY <2>4 DEF TestedInv, Excused
<1>10. CASE SetDeviceFiltered
  <2>1. /\ deviceAddress \in filter'.addresses
        /\ UNCHANGED <<deviceAddress, busAddress>>
    BY <1>10 DEF SetDeviceFiltered, BitsInv, FilterBits, device, bus
  <2>2. ASSUME NEW i \in Irps
        PROVE  Wanted' \/ Excused(i)'
    BY <2>1 DEF Wanted, Excused
  <2> QED
    BY <2>2 DEF TestedInv
<1>3. ASSUME NEW i \in Irps, NEW u \in Urbs[i], Submit(i, u)
      PROVE  TestedInv'
  <2>1. /\ \A j \in Irps : j # i => irp'[j] = irp[j]
        /\ UNCHANGED <<deviceAddress, busAddress, filter, asked, late>>
        /\ irp'[i].at = IF Filtered THEN "submitting" ELSE "bus"
    BY <1>0, <1>3, SubmitStep DEF Submit, device, bus, history
  <2>2. Tested(i)' => Wanted' \/ Excused(i)'
    BY <2>1, FilteredWanted DEF Tested, Wanted, Excused
  <2> QED
    BY <2>1, <2>2, TestedKept
<1>4. ASSUME NEW i \in Irps, AnalyzeSubmit(i)
      PROVE  TestedInv'
  <2>1. UNCHANGED <<deviceAddress, busAddress, filter, asked>> /\ late' = late \ {i}
    BY <1>4 DEF AnalyzeSubmit, bus
  <2>2. (\A j \in Irps : j # i => irp'[j] = irp[j]) /\ irp'[i].at = "bus"
    BY <1>0, <1>4, AnalyzeSubmitStep DEF Writes, Step
  <2> QED
    BY <2>1, <2>2, TestedKept DEF Tested
<1>5. ASSUME NEW i \in Irps, BusCompletes(i)
      PROVE  TestedInv'
  <2>1. UNCHANGED <<deviceAddress, busAddress, filter, asked, late>>
    BY <1>5 DEF BusCompletes, device, history
  <2>2. (\A j \in Irps : j # i => irp'[j] = irp[j]) /\ irp'[i].at = "returned"
    BY <1>0, <1>5, BusStep DEF Step
  <2> QED
    BY <2>1, <2>2, TestedKept DEF Tested
<1>6. ASSUME NEW i \in Irps, AnalyzeComplete(i)
      PROVE  TestedInv'
  <2>1. UNCHANGED <<deviceAddress, busAddress, filter, asked, late>>
    BY <1>6 DEF AnalyzeComplete, bus
  <2>2. (\A j \in Irps : j # i => irp'[j] = irp[j]) /\ (~Filtered => irp'[i].at = "done")
    BY <1>0, <1>6, AnalyzeCompleteStep DEF Step
  <2>3. Tested(i)' => Wanted' \/ Excused(i)'
    BY <2>1, <2>2, FilteredWanted DEF Tested, Wanted, Excused
  <2> QED
    BY <2>1, <2>2, <2>3, TestedKept
<1>7. ASSUME NEW i \in Irps, LogUnknownSubmit(i)
      PROVE  TestedInv'
  <2>1. /\ UNCHANGED <<deviceAddress, busAddress, filter, asked, late>>
        /\ irp[i].at = "unknown"
    BY <1>7 DEF LogUnknownSubmit, device, bus, history
  <2>2. \A j \in Irps : j # i => irp'[j] = irp[j]
    BY <1>0, <1>7, LogUnknownStep DEF Writes, Step
  <2>3. Wanted' \/ Excused(i)'
    BY <2>1 DEF TestedInv, Tested, Wanted, Excused
  <2> QED
    BY <2>1, <2>2, <2>3, TestedKept
<1>8. ASSUME NEW i \in Irps, LogComplete(i)
      PROVE  TestedInv'
  <2>1. UNCHANGED <<deviceAddress, busAddress, filter, asked>> /\ late' = late \ {i}
    BY <1>8 DEF LogComplete, device, bus
  <2>2. (\A j \in Irps : j # i => irp'[j] = irp[j]) /\ irp'[i].at = "done"
    BY <1>0, <1>8, LogCompleteStep DEF Writes, Step
  <2> QED
    BY <2>1, <2>2, TestedKept DEF Tested
<1>9. ASSUME NEW i \in Irps, Return(i)
      PROVE  TestedInv'
  <2>1. /\ \A j \in Irps : j # i => irp'[j] = irp[j]
        /\ UNCHANGED <<deviceAddress, busAddress, filter, asked, late>>
        /\ irp'[i].at = "free"
    BY <1>0, <1>9, ReturnStep DEF Return, device, bus, history
  <2> QED
    BY <2>1, TestedKept DEF Tested
<1> QED
  BY <1>1, <1>2, <1>3, <1>4, <1>5, <1>6, <1>7, <1>8, <1>9, <1>10, NextCases DEF Renewing

LEMMA WritesLog ==
  ASSUME NEW i \in Irps, NEW at, NEW ps, Writes(i, at, ps), Wanted \/ Excused(i),
         ps = <<>> \/ \E p : ps = <<p>>, irp[i].logged = <<>> \/ One(irp[i].logged)
  PROVE  \/ irp'[i].logged = <<>> \/ One(irp'[i].logged)
         \/ irp[i].logged # <<>> /\ Two(irp'[i].logged)
<1>1. PICK kept : irp'[i].logged = Longer(i, kept) /\ (kept = ps \/ kept = <<>>)
  BY DEF Writes, Step
<1>2. CASE kept = <<>>
  BY <1>1, <1>2, LongerNone DEF One
<1>3. CASE kept # <<>>
  <2>1. PICK p : kept = <<p>>
    BY <1>1, <1>3
  <2>2. PICK e : /\ e.justified = (Wanted \/ Excused(i))
                 /\ irp[i].logged = <<>> =>
                      Longer(i, <<p>>) = <<>> \/ Longer(i, <<p>>) = <<e>>
                 /\ \A q : irp[i].logged = <<q>> => Longer(i, <<p>>) \in {<<q>>, <<q, e>>}
    BY LongerOne
  <2>3. e.justified
    BY <2>2
  <2>5. CASE irp[i].logged = <<>>
    BY <1>1, <2>1, <2>2, <2>3, <2>5 DEF One
  <2>6. CASE One(irp[i].logged)
    <3>1. PICK q : irp[i].logged = <<q>> /\ q.justified
      BY <2>6 DEF One
    <3>2. irp'[i].logged = <<q>> \/ irp'[i].logged = <<q, e>>
      BY <1>1, <2>1, <2>2, <3>1
    <3>3. irp[i].logged # <<>>
      BY <3>1
    <3> QED
      BY <2>3, <3>1, <3>2, <3>3 DEF One, Two
  <2> QED
    BY <2>5, <2>6
<1> QED
  BY <1>2, <1>3

LEMMA LogKept ==
  ASSUME LogInv, NEW i \in Irps, \A j \in Irps : j # i => irp'[j] = irp[j],
         \A j \in Irps : j # i => (j \in DOMAIN URBIrpTable' <=> j \in DOMAIN URBIrpTable),
         SoFar(irp'[i].at, irp'[i].logged, i \in DOMAIN URBIrpTable')
  PROVE  LogInv'
BY DEF LogInv

LEMMA LogStep ==
  ASSUME UrbInv, TestedInv, LogInv, [Next]_vars
  PROVE  LogInv'
<1>0. Shaped /\ NotesInFlight
  BY DEF UrbInv
<1>1. CASE Apart
  <2>1. UNCHANGED <<irp, URBIrpTable>>
    BY <1>1, ApartLeaves
  <2> QED
    BY <2>1 DEF LogInv
<1>2. CASE Replacing \/ Renewing
  <2>1. irp' = NoneWhole /\ UNCHANGED URBIrpTable
    BY <1>2, ReplacingReplaces, RenewingReplaces DEF device
  <2>2. \A i \in Irps : irp'[i].at = irp[i].at /\ irp'[i].logged = irp[i].logged
    BY <1>0, <2>1, ReplaceStep DEF Replaces
  <2> QED
    BY <2>1, <2>2 DEF LogInv
<1>3. ASSUME NEW i \in Irps, NEW u \in Urbs[i], Submit(i, u)
      PROVE  LogInv'
  <2>1. /\ \A j \in Irps : j # i => irp'[j] = irp[j]
        /\ UNCHANGED URBIrpTable /\ irp'[i].logged = <<>>
    BY <1>0, <1>3, SubmitStep DEF device
  <2> QED
    BY <2>1, LogKept DEF SoFar
<1>4. ASSUME NEW i \in Irps, AnalyzeSubmit(i)
      PROVE  LogInv'
  <2>1. PICK u : u = irp[i].urb
    OBVIOUS
  <2>2. /\ irp[i].at = "submitting" /\ irp[i].logged = <<>>
        /\ Wanted \/ Excused(i)
        /\ i \notin DOMAIN URBIrpTable
    BY <1>0, <1>4 DEF AnalyzeSubmit, LogInv, SoFar, TestedInv, Tested, NotesInFlight
  <2>3. CASE UNCHANGED URBIrpTable /\ Writes(i, "bus", Packets(u, FALSE))
    <3>1. PICK ps : ps = Packets(u, FALSE)
      OBVIOUS
    <3>2. ps = <<>> \/ \E p : ps = <<p>>
      BY <3>1, PacketsOne DEF OneFor
    <3>3. Writes(i, "bus", ps)
      BY <2>3, <3>1
    <3>4. irp'[i].logged = <<>> \/ One(irp'[i].logged)
      BY <2>2, <3>2, <3>3, WritesLog
    <3>5. (\A j \in Irps : j # i => irp'[j] = irp[j]) /\ irp'[i].at = "bus"
      BY <3>3 DEF Writes, Step
    <3>6. SoFar(irp'[i].at, irp'[i].logged, i \in DOMAIN URBIrpTable')
      BY <2>2, <2>3, <3>4, <3>5 DEF SoFar
    <3> QED
      BY <2>3, <3>5, <3>6, LogKept
  <2>4. CASE \E d : Step(i, "bus", u, irp[i].logged, d)
    <3>1. /\ \A j \in Irps : j # i => irp'[j] = irp[j]
          /\ irp'[i].logged = <<>>
      BY <2>2, <2>4 DEF Step
    <3>2. SoFar(irp'[i].at, irp'[i].logged, i \in DOMAIN URBIrpTable')
      BY <3>1 DEF SoFar
    <3>3. \/ UNCHANGED URBIrpTable
          \/ URBIrpTable' = AddURBIRPInfo(i, [fn |-> u.fn, device |-> deviceAddress])
      BY <1>0, <1>4, <2>1, AnalyzeSubmitStep
    <3>4. \A j \in Irps : j # i => (j \in DOMAIN URBIrpTable' <=> j \in DOMAIN URBIrpTable)
      BY <3>3 DEF AddURBIRPInfo
    <3> QED
      BY <3>1, <3>2, <3>4, LogKept
  <2> QED
    BY <1>0, <1>4, <2>1, <2>3, <2>4, AnalyzeSubmitStep
<1>5. ASSUME NEW i \in Irps, BusCompletes(i)
      PROVE  LogInv'
  <2>1. irp[i].at = "bus" /\ UNCHANGED URBIrpTable
    BY <1>5 DEF BusCompletes, device
  <2>2. /\ \A j \in Irps : j # i => irp'[j] = irp[j]
        /\ irp'[i].at = "returned" /\ irp'[i].logged = irp[i].logged
    BY <1>0, <1>5, BusStep DEF Step
  <2>3. SoFar(irp'[i].at, irp'[i].logged, i \in DOMAIN URBIrpTable')
    BY <2>1, <2>2 DEF LogInv, SoFar
  <2> QED
    BY <2>1, <2>2, <2>3, LogKept
<1>6. ASSUME NEW i \in Irps, AnalyzeComplete(i)
      PROVE  LogInv'
  <2>1. irp[i].at = "returned" /\ URBIrpTable' = ObtainURBIRPInfo(i)
    BY <1>6 DEF AnalyzeComplete
  <2>2. /\ \A j \in Irps : j # i => irp'[j] = irp[j]
        /\ irp'[i].logged = irp[i].logged
        /\ \/ irp'[i].at = "unknown" /\ i \in DOMAIN URBIrpTable
           \/ irp'[i].at \in {"done", "completing"}
    BY <1>0, <1>6, AnalyzeCompleteStep DEF Step
  <2>3. /\ i \notin DOMAIN URBIrpTable'
        /\ \A j \in Irps : j # i => (j \in DOMAIN URBIrpTable' <=> j \in DOMAIN URBIrpTable)
    BY <2>1 DEF ObtainURBIRPInfo
  <2>4. SoFar(irp'[i].at, irp'[i].logged, i \in DOMAIN URBIrpTable')
    BY <2>1, <2>2, <2>3 DEF LogInv, SoFar
  <2> QED
    BY <2>2, <2>3, <2>4, LogKept
<1>7. ASSUME NEW i \in Irps, LogUnknownSubmit(i)
      PROVE  LogInv'
  <2>1. /\ irp[i].at = "unknown" /\ UNCHANGED URBIrpTable
    BY <1>7 DEF LogUnknownSubmit, device
  <2>2. /\ irp[i].logged = <<>> /\ i \notin DOMAIN URBIrpTable
        /\ Wanted \/ Excused(i)
    BY <1>0, <2>1 DEF LogInv, SoFar, TestedInv, Tested, NotesInFlight
  <2>3. PICK p : Writes(i, "completing", <<p>>)
    BY <1>0, <1>7, LogUnknownStep
  <2>4. irp'[i].logged = <<>> \/ One(irp'[i].logged)
    BY <2>2, <2>3, WritesLog
  <2>5. (\A j \in Irps : j # i => irp'[j] = irp[j]) /\ irp'[i].at = "completing"
    BY <2>3 DEF Writes, Step
  <2>6. SoFar(irp'[i].at, irp'[i].logged, i \in DOMAIN URBIrpTable')
    BY <2>1, <2>2, <2>4, <2>5 DEF SoFar
  <2> QED
    BY <2>1, <2>5, <2>6, LogKept
<1>8. ASSUME NEW i \in Irps, LogComplete(i)
      PROVE  LogInv'
  <2>1. irp[i].at = "completing" /\ UNCHANGED URBIrpTable
    BY <1>8 DEF LogComplete, device
  <2>2. /\ irp[i].logged = <<>> \/ One(irp[i].logged)
        /\ i \notin DOMAIN URBIrpTable /\ (Wanted \/ Excused(i))
    BY <1>0, <2>1 DEF LogInv, SoFar, TestedInv, Tested, NotesInFlight
  <2>3. PICK ps : ps = Packets(irp[i].urb, TRUE)
    OBVIOUS
  <2>4. ps = <<>> \/ \E p : ps = <<p>>
    BY <2>3, PacketsOne DEF OneFor
  <2>5. Writes(i, "done", ps)
    BY <1>0, <1>8, <2>3, LogCompleteStep
  <2>6. irp'[i].logged = <<>> \/ One(irp'[i].logged) \/ Two(irp'[i].logged)
    BY <2>2, <2>4, <2>5, WritesLog
  <2>7. (\A j \in Irps : j # i => irp'[j] = irp[j]) /\ irp'[i].at = "done"
    BY <2>5 DEF Writes, Step
  <2>8. SoFar(irp'[i].at, irp'[i].logged, i \in DOMAIN URBIrpTable')
    BY <2>1, <2>2, <2>6, <2>7 DEF SoFar
  <2> QED
    BY <2>1, <2>7, <2>8, LogKept
<1>9. ASSUME NEW i \in Irps, Return(i)
      PROVE  LogInv'
  <2>1. /\ \A j \in Irps : j # i => irp'[j] = irp[j]
        /\ UNCHANGED URBIrpTable /\ irp'[i].logged = <<>>
    BY <1>0, <1>9, ReturnStep DEF device
  <2> QED
    BY <2>1, LogKept DEF SoFar
<1> QED
  BY <1>1, <1>2, <1>3, <1>4, <1>5, <1>6, <1>7, <1>8, <1>9, NextCases

LEMMA LogWanted ==
  ASSUME LogInv
  PROVE  WantedOnly
<1>1. ASSUME NEW i \in Irps, NEW n \in DOMAIN irp[i].logged
      PROVE  irp[i].logged[n].justified
  <2>1. PICK log : log = irp[i].logged
    OBVIOUS
  <2>2. log = <<>> \/ One(log) \/ Two(log)
    BY <2>1 DEF LogInv, SoFar
  <2>3. log[n].justified
    BY <1>1, <2>1, <2>2 DEF One, Two
  <2> QED
    BY <2>1, <2>3
<1> QED
  BY <1>1 DEF WantedOnly

LEMMA WantedInit ==
  ASSUME Init
  PROVE  TestedInv /\ LogInv
<1>1. PICK y : y = Idle
  OBVIOUS
<1>2. irp = [i \in Irps |-> y] /\ deviceAddress = UnknownAddress
  BY <1>1 DEF Init
<1>3. y.at = "free" /\ y.logged = <<>>
  BY <1>1, IdleShape
<1> QED
  BY <1>2, <1>3 DEF TestedInv, Tested, LogInv, SoFar

(* "Do not log URBs from devices which are not being filtered": every      *)
(* packet stored is of a device the capture asked for, or the driver does  *)
(* not have the address of the device, or the filter or the address was    *)
(* replaced between the test and the write of this packet, or a device     *)
(* start put the address in a filter that had been replaced meanwhile.     *)
THEOREM OnlyWantedLogged == Spec => []WantedOnly
<1>1. Init => UrbInv /\ BitsInv /\ TestedInv /\ LogInv
  BY UrbInit, BitsInit, WantedInit
<1>2. UrbInv /\ BitsInv /\ TestedInv /\ LogInv /\ [Next]_vars
        => UrbInv' /\ BitsInv' /\ TestedInv' /\ LogInv'
  BY UrbStep, BitsStep, TestedStep, LogStep
<1>3. LogInv => WantedOnly
  BY LogWanted
<1> QED
  BY <1>1, <1>2, <1>3, PTL DEF Spec
-----------------------------------------------------------------------------
(* What is written in pairs. *)

(* Filter, capture and device stay, and what the analysis of i stores does *)
(* not touch the others.                                                   *)
Around(i) ==
  /\ \A j \in Irps : j # i => irp'[j] = irp[j]
  /\ UNCHANGED <<deviceAddress, filter, capture>>
  /\ \A j \in Irps : j # i => (j \in DOMAIN URBIrpTable' <=> j \in DOMAIN URBIrpTable)
  /\ \/ UNCHANGED descriptor
     \/ irp[i].at # "free" /\ irp[i].urb.fn = "SELECT_CONFIGURATION"

LEMMA PairKept ==
  ASSUME UrbInv, PairInv, NEW i \in Irps, Around(i), PairOf(i)'
  PROVE  PairInv'
<1>1. SUFFICES ASSUME NEW j \in Irps, j # i
               PROVE  PairOf(j)'
  BY DEF PairInv
<1>2. /\ irp'[j] = irp[j] /\ PairOf(j) /\ capture' = capture
      /\ j \in DOMAIN URBIrpTable' <=> j \in DOMAIN URBIrpTable
  BY <1>1 DEF Around, PairInv
<1>3. Filtered' = Filtered
  BY DEF Around, Filtered, IsDeviceFiltered
<1>4. ASSUME irp[j].at # "free"
      PROVE  Mute(irp[j].urb)' = Mute(irp[j].urb)
  <2>1. CASE UNCHANGED descriptor
    BY <1>2, <2>1 DEF Mute
  <2>2. CASE irp[i].at # "free" /\ irp[i].urb.fn = "SELECT_CONFIGURATION"
    <3>1. irp[j].urb.fn # "SELECT_INTERFACE"
      BY <1>1, <1>4, <2>2 DEF UrbInv, OneSelection, InFlight, Selects, SelectFns
    <3> QED
      BY <1>2, <3>1 DEF Mute
  <2> QED
    BY <2>1, <2>2 DEF Around
<1> QED
  BY <1>2, <1>3, <1>4 DEF PairOf

(* A packet is stored while the capture filters.                           *)
LEMMA WritesPair ==
  ASSUME NEW i \in Irps, NEW at, NEW ps, Writes(i, at, ps), capture = "ready",
         ~irp'[i].dropped, NEW post \in BOOLEAN, ps = <<>> \/ OneFor(ps, post)
  PROVE  /\ ~irp[i].dropped /\ ~(irp[i].urb.fn = "ISOCH_TRANSFER" /\ ps = <<>>)
         /\ irp[i].logged = <<>> =>
              \/ ps = <<>> /\ irp'[i].logged = <<>>
              \/ ps # <<>> /\ \E e : irp'[i].logged = <<e>> /\ e.packet.post = post
         /\ \A q : irp[i].logged = <<q>> =>
              \/ ps = <<>> /\ irp'[i].logged = <<q>>
              \/ ps # <<>> /\ \E e : irp'[i].logged = <<q, e>> /\ e.packet.post = post
<1>1. /\ irp'[i].logged = Longer(i, ps)
      /\ ~irp[i].dropped /\ ~(irp[i].urb.fn = "ISOCH_TRANSFER" /\ ps = <<>>)
  BY DEF Writes, Step
<1>2. CASE ps = <<>>
  BY <1>1, <1>2, LongerNone
<1>3. CASE OneFor(ps, post)
  <2>1. PICK p : ps = <<p>> /\ p.post = post
    BY <1>3 DEF OneFor
  <2>0. ps # <<>>
    BY <2>1
  <2>2. PICK e : /\ e.packet = p
                 /\ irp[i].logged = <<>> => Longer(i, <<p>>) = <<e>>
                 /\ \A q : irp[i].logged = <<q>> => Longer(i, <<p>>) = <<q, e>>
    BY LongerOne
  <2>3. e.packet.post = post
    BY <2>1, <2>2
  <2> QED
    BY <1>1, <2>0, <2>1, <2>2, <2>3
<1> QED
  BY <1>2, <1>3

LEMMA SubmitPair ==
  ASSUME UrbInv, PairInv, NEW i \in Irps, NEW u \in Urbs[i], Submit(i, u)
  PROVE  PairInv'
<1>1. /\ \A j \in Irps : j # i => irp'[j] = irp[j]
      /\ UNCHANGED <<deviceAddress, filter, capture, URBIrpTable, descriptor>>
      /\ irp'[i].at = IF Filtered THEN "submitting" ELSE "bus"
      /\ irp'[i].logged = <<>>
      /\ irp'[i].whole = (Filtered /\ capture = "ready")
  BY SubmitStep DEF device, UrbInv
<1>2. Filtered' = Filtered
  BY <1>1 DEF Filtered, IsDeviceFiltered
<1>3. PairOf(i)'
  BY <1>1, <1>2 DEF PairOf, Halfway
<1>4. Around(i)
  BY <1>1 DEF Around
<1> QED
  BY <1>3, <1>4, PairKept

LEMMA AnalyzeSubmitPair ==
  ASSUME UrbInv, PairInv, NEW i \in Irps, AnalyzeSubmit(i)
  PROVE  PairInv'
<1>0. Shaped /\ irp[i].at = "submitting" /\ i \notin DOMAIN URBIrpTable
  BY DEF UrbInv, AnalyzeSubmit, NotesInFlight
<1>1. PICK u : u = irp[i].urb
  OBVIOUS
<1>2. UNCHANGED <<deviceAddress, descriptor, filter, capture>>
  BY DEF AnalyzeSubmit
<1>3. /\ Filtered' = Filtered
      /\ \A v : Mute(v)' = Mute(v)
  BY <1>2 DEF Filtered, IsDeviceFiltered, Mute
<1>4. ASSUME irp[i].whole
      PROVE  /\ capture = "ready" /\ Filtered
             /\ irp[i].logged = <<>>
  BY <1>0, <1>4 DEF PairInv, PairOf, Halfway
<1>5. CASE /\ u.fn \in KnownFns /\ UNCHANGED URBIrpTable
           /\ Writes(i, "bus", Packets(u, FALSE))
  <2>1. PICK ps : ps = Packets(u, FALSE)
    OBVIOUS
  <2>2. \/ OneFor(ps, FALSE) /\ ~Mute(u)
        \/ ps = <<>> /\ Mute(u)
        \/ ps = <<>> /\ u.fn = "ISOCH_TRANSFER"
    BY <1>5, <2>1, PacketsOne
  <2>3. Writes(i, "bus", ps)
    BY <1>5, <2>1
  <2>4. /\ \A j \in Irps : j # i => irp'[j] = irp[j]
        /\ irp'[i].at = "bus" /\ irp'[i].urb = u /\ irp'[i].whole = irp[i].whole
    BY <1>1, <2>3 DEF Writes, Step
  <2>5. ASSUME irp[i].whole, ~irp'[i].dropped
        PROVE  Halfway("bus", irp'[i].logged, Mute(u), FALSE)
    <3>1. /\ irp[i].logged = <<>> /\ ~(u.fn = "ISOCH_TRANSFER" /\ ps = <<>>)
          /\ \/ ps = <<>> /\ irp'[i].logged = <<>>
             \/ ps # <<>> /\ \E e : irp'[i].logged = <<e>> /\ ~e.packet.post
      BY <1>1, <1>4, <2>2, <2>3, <2>5, WritesPair
    <3>2. ~OneFor(<<>>, FALSE)
      BY DEF OneFor
    <3> QED
      BY <2>2, <3>1, <3>2 DEF Halfway, Half
  <2>6. PairOf(i)'
    <3>1. Mute(irp[i].urb)' = Mute(u)
      BY <1>2, <2>4 DEF Mute
    <3>2. i \notin DOMAIN URBIrpTable'
      BY <1>0, <1>5
    <3> QED
      BY <1>2, <1>3, <1>4, <2>4, <2>5, <3>1, <3>2 DEF PairOf, Halfway
  <2>7. Around(i)
    BY <1>2, <1>5, <2>4 DEF Around
  <2> QED
    BY <2>6, <2>7, PairKept
<1>6. CASE /\ Step(i, "bus", u, irp[i].logged, FALSE)
           /\ URBIrpTable' = AddURBIRPInfo(i, [fn |-> u.fn, device |-> deviceAddress])
  <2>1. /\ i \in DOMAIN URBIrpTable'
        /\ \A j \in Irps : j # i => (j \in DOMAIN URBIrpTable' <=> j \in DOMAIN URBIrpTable)
    BY <1>6 DEF AddURBIRPInfo
  <2>2. /\ \A j \in Irps : j # i => irp'[j] = irp[j]
        /\ irp'[i].at = "bus" /\ irp'[i].whole = irp[i].whole
        /\ irp'[i].logged = irp[i].logged
    BY <1>6 DEF Step
  <2>3. PairOf(i)'
    BY <1>2, <1>3, <1>4, <2>1, <2>2 DEF PairOf, Halfway
  <2>4. Around(i)
    BY <1>2, <2>1, <2>2 DEF Around
  <2> QED
    BY <2>3, <2>4, PairKept
<1>7. CASE Step(i, "bus", u, irp[i].logged, TRUE) /\ UNCHANGED URBIrpTable
  <2>1. /\ \A j \in Irps : j # i => irp'[j] = irp[j]
        /\ irp'[i].at = "bus" /\ irp'[i].whole = irp[i].whole /\ irp'[i].dropped
    BY <1>7 DEF Step
  <2>2. PairOf(i)'
    BY <1>2, <1>3, <1>4, <2>1 DEF PairOf
  <2>3. Around(i)
    BY <1>2, <1>7, <2>1 DEF Around
  <2> QED
    BY <2>2, <2>3, PairKept
<1> QED
  BY <1>0, <1>1, <1>5, <1>6, <1>7, AnalyzeSubmitStep

LEMMA BusPair ==
  ASSUME UrbInv, PairInv, NEW i \in Irps, BusCompletes(i)
  PROVE  PairInv'
<1>0. Shaped
  BY DEF UrbInv
<1>1. PICK v : /\ Returned(irp[i].urb, v)
               /\ Step(i, "returned", v, irp[i].logged, irp[i].dropped)
  BY <1>0, BusStep
<1>2. /\ irp[i].at = "bus"
      /\ UNCHANGED <<deviceAddress, descriptor, filter, capture, URBIrpTable>>
  BY <1>0, BusStep DEF device
<1>3. Mute(v)' = Mute(irp[i].urb)
  BY <1>1, <1>2 DEF Mute, Returned
<1>4. /\ \A j \in Irps : j # i => irp'[j] = irp[j]
      /\ irp'[i].at = "returned" /\ irp'[i].urb = v
      /\ irp'[i].whole = irp[i].whole
      /\ irp'[i].logged = irp[i].logged /\ irp'[i].dropped = irp[i].dropped
  BY <1>1 DEF Step
<1>5. Mute(irp[i].urb)' = Mute(irp[i].urb)
  BY <1>3, <1>4 DEF Mute
<1>6. Filtered' = Filtered
  BY <1>2 DEF Filtered, IsDeviceFiltered
<1>7. PairOf(i)'
  BY <1>2, <1>4, <1>5, <1>6 DEF PairInv, PairOf, Halfway
<1>8. Around(i)
  BY <1>2, <1>4 DEF Around
<1> QED
  BY <1>7, <1>8, PairKept

LEMMA AnalyzeCompletePair ==
  ASSUME UrbInv, PairInv, NEW i \in Irps, AnalyzeComplete(i)
  PROVE  PairInv'
<1>0. Shaped
  BY DEF UrbInv
<1>1. /\ irp[i].at = "returned" /\ URBIrpTable' = ObtainURBIRPInfo(i)
      /\ UNCHANGED <<deviceAddress, filter, capture>>
      /\ descriptor' = descriptor \/ irp[i].urb.fn = "SELECT_CONFIGURATION"
  BY <1>0, AnalyzeCompleteStep
<1>2. PICK at : /\ at = IF ~Filtered THEN "done"
                        ELSE IF i \in DOMAIN URBIrpTable THEN "unknown" ELSE "completing"
                /\ Step(i, at, irp[i].urb, irp[i].logged, irp[i].dropped)
  BY <1>0, AnalyzeCompleteStep
<1>3. /\ \A j \in Irps : j # i => irp'[j] = irp[j]
      /\ irp'[i].at = at /\ irp'[i].urb = irp[i].urb
      /\ irp'[i].whole = irp[i].whole
      /\ irp'[i].logged = irp[i].logged /\ irp'[i].dropped = irp[i].dropped
  BY <1>2 DEF Step
<1>4. /\ i \notin DOMAIN URBIrpTable'
      /\ \A j \in Irps : j # i => (j \in DOMAIN URBIrpTable' <=> j \in DOMAIN URBIrpTable)
  BY <1>1 DEF ObtainURBIRPInfo
<1>5. Filtered' = Filtered
  BY <1>1 DEF Filtered, IsDeviceFiltered
<1>6. Mute(irp[i].urb)' = Mute(irp[i].urb)
  BY <1>1, <1>3 DEF Mute
<1>7. i \in DOMAIN URBIrpTable => ~Mute(irp[i].urb)
  BY <1>1 DEF UrbInv, NotesUnknown, SameFunction, InFlight, Mute, SelectFns
<1>8. PairOf(i)'
  <2>1. SUFFICES ASSUME irp'[i].whole
                 PROVE  PairOf(i)'
    BY DEF PairOf
  <2>2. /\ capture = "ready" /\ Filtered
        /\ ~irp[i].dropped =>
             \/ irp[i].logged = <<>> /\ (Mute(irp[i].urb) \/ i \in DOMAIN URBIrpTable)
             \/ /\ Half(irp[i].logged) /\ ~Mute(irp[i].urb)
                /\ i \notin DOMAIN URBIrpTable
    BY <1>1, <1>3, <2>1 DEF PairInv, PairOf, Halfway
  <2>3. at = IF i \in DOMAIN URBIrpTable THEN "unknown" ELSE "completing"
    BY <1>2, <2>2
  <2> QED
    BY <1>1, <1>3, <1>5, <1>6, <1>7, <2>2, <2>3 DEF PairOf, Halfway
<1>9. Around(i)
  BY <1>1, <1>3, <1>4 DEF Around
<1> QED
  BY <1>8, <1>9, PairKept

LEMMA LogUnknownPair ==
  ASSUME UrbInv, PairInv, NEW i \in Irps, LogUnknownSubmit(i)
  PROVE  PairInv'
<1>0. Shaped
  BY DEF UrbInv
<1>1. /\ irp[i].at = "unknown"
      /\ UNCHANGED <<deviceAddress, descriptor, filter, capture, URBIrpTable>>
  BY DEF LogUnknownSubmit, device
<1>2. PICK p : ~p.post /\ Writes(i, "completing", <<p>>)
  BY <1>0, LogUnknownStep
<1>3. /\ \A j \in Irps : j # i => irp'[j] = irp[j]
      /\ irp'[i].at = "completing" /\ irp'[i].urb = irp[i].urb
      /\ irp'[i].whole = irp[i].whole
  BY <1>2 DEF Writes, Step
<1>4. Filtered' = Filtered /\ Mute(irp[i].urb)' = Mute(irp[i].urb)
  BY <1>1, <1>3 DEF Filtered, IsDeviceFiltered, Mute
<1>5. ASSUME irp[i].whole, ~irp'[i].dropped
      PROVE  Half(irp'[i].logged) /\ ~Mute(irp[i].urb)
  <2>1. capture = "ready"
    BY <1>5 DEF PairInv, PairOf
  <2>2. PICK e : /\ e.packet = p
                 /\ irp[i].logged = <<>> => Longer(i, <<p>>) = <<e>>
    BY <2>1, LongerOne
  <2>3. irp'[i].logged = Longer(i, <<p>>) /\ ~irp[i].dropped
    BY <1>2, <1>5 DEF Writes, Step
  <2>4. irp[i].logged = <<>> /\ ~Mute(irp[i].urb)
    BY <1>1, <1>5, <2>3 DEF PairInv, PairOf, Halfway
  <2>5. irp'[i].logged = <<e>> /\ ~e.packet.post
    BY <1>2, <2>2, <2>3, <2>4
  <2> QED
    BY <2>4, <2>5 DEF Half
<1>6. PairOf(i)'
  BY <1>1, <1>3, <1>4, <1>5 DEF PairInv, PairOf, Halfway
<1>7. Around(i)
  BY <1>1, <1>3 DEF Around
<1> QED
  BY <1>6, <1>7, PairKept

LEMMA LogCompletePair ==
  ASSUME UrbInv, PairInv, NEW i \in Irps, LogComplete(i)
  PROVE  PairInv'
<1>0. Shaped
  BY DEF UrbInv
<1>1. /\ irp[i].at = "completing"
      /\ UNCHANGED <<deviceAddress, descriptor, filter, capture, URBIrpTable>>
  BY DEF LogComplete, device
<1>2. PICK u : u = irp[i].urb
  OBVIOUS
<1>3. PICK ps : ps = Packets(u, TRUE)
  OBVIOUS
<1>4. Writes(i, "done", ps)
  BY <1>0, <1>2, <1>3, LogCompleteStep
<1>5. \/ OneFor(ps, TRUE) /\ ~Mute(u)
      \/ ps = <<>> /\ Mute(u)
      \/ ps = <<>> /\ u.fn = "ISOCH_TRANSFER"
  BY <1>3, PacketsOne
<1>6. /\ \A j \in Irps : j # i => irp'[j] = irp[j]
      /\ irp'[i].at = "done" /\ irp'[i].whole = irp[i].whole
  BY <1>4 DEF Writes, Step
<1>7. Filtered' = Filtered
  BY <1>1 DEF Filtered, IsDeviceFiltered
<1>8. ASSUME irp[i].whole, ~irp'[i].dropped
      PROVE  irp'[i].logged = <<>> \/ Full(irp'[i].logged)
  <2>1. capture = "ready"
    BY <1>8 DEF PairInv, PairOf
  <2>2. /\ ~irp[i].dropped /\ ~(u.fn = "ISOCH_TRANSFER" /\ ps = <<>>)
        /\ irp[i].logged = <<>> =>
             \/ ps = <<>> /\ irp'[i].logged = <<>>
             \/ ps # <<>> /\ \E e : irp'[i].logged = <<e>> /\ e.packet.post = TRUE
        /\ \A q : irp[i].logged = <<q>> =>
             \/ ps = <<>> /\ irp'[i].logged = <<q>>
             \/ ps # <<>> /\ \E e : irp'[i].logged = <<q, e>> /\ e.packet.post = TRUE
    BY <1>2, <1>4, <1>5, <1>8, <2>1, WritesPair
  <2>3. \/ irp[i].logged = <<>> /\ Mute(u)
        \/ Half(irp[i].logged) /\ ~Mute(u)
    BY <1>1, <1>2, <1>8, <2>2 DEF PairInv, PairOf, Halfway
  <2>4. ~OneFor(<<>>, TRUE)
    BY DEF OneFor
  <2>5. CASE irp[i].logged = <<>> /\ Mute(u)
    BY <1>5, <2>2, <2>4, <2>5
  <2>6. CASE Half(irp[i].logged) /\ ~Mute(u)
    <3>1. PICK q : irp[i].logged = <<q>> /\ ~q.packet.post
      BY <2>6 DEF Half
    <3>2. ps # <<>>
      BY <1>5, <2>2, <2>4, <2>6
    <3>3. PICK e : irp'[i].logged = <<q, e>> /\ e.packet.post = TRUE
      BY <2>2, <3>1, <3>2
    <3> QED
      BY <3>1, <3>3 DEF Full
  <2> QED
    BY <2>3, <2>5, <2>6
<1>9. PairOf(i)'
  BY <1>1, <1>6, <1>7, <1>8 DEF PairInv, PairOf, Halfway
<1>10. Around(i)
  BY <1>1, <1>6 DEF Around
<1> QED
  BY <1>9, <1>10, PairKept

LEMMA ApartPair ==
  ASSUME UrbInv, PairInv, Apart
  PROVE  PairInv'
<1>0. UNCHANGED <<irp, URBIrpTable, descriptor>>
  BY ApartLeaves
<1>1. CASE UNCHANGED vars \/ \E success \in BOOLEAN : Asks(success)
  <2>1. UNCHANGED <<capture, deviceAddress, filter>>
    BY <1>1 DEF vars, device, Asks, GetDeviceUSBInfo
  <2> QED
    BY <1>0, <2>1 DEF PairInv, PairOf, Filtered, IsDeviceFiltered, Mute
<1>2. CASE SetUpBuffer \/ CleanupBuffer
  <2>1. capture # "ready"
    BY <1>2 DEF SetUpBuffer, CleanupBuffer
  <2>2. \A i \in Irps : ~irp'[i].whole
    BY <1>0, <2>1 DEF PairInv, PairOf
  <2> QED
    BY <2>2 DEF PairInv, PairOf
<1>3. CASE StopDevice \/ \E a \in Addresses : StartDevice(a)
  <2>1. InFlight = {}
    BY <1>3 DEF UrbInv, AtRest, StopDevice, StartDevice
  <2>2. \A i \in Irps : ~irp'[i].whole
    BY <1>0, <2>1 DEF InFlight, PairInv, PairOf
  <2> QED
    BY <2>2 DEF PairInv, PairOf
<1> QED
  BY <1>1, <1>2, <1>3 DEF Apart

LEMMA PairStep ==
  ASSUME UrbInv, PairInv, [Next]_vars
  PROVE  PairInv'
<1>0. Shaped
  BY DEF UrbInv
<1>1. CASE Apart
  BY <1>1, ApartPair
<1>2. CASE Replacing \/ Renewing
  <2>1. Replaces
    BY <1>0, <1>2, ReplacingReplaces, RenewingReplaces, ReplaceStep
  <2> QED
    BY <2>1 DEF Replaces, PairInv, PairOf
<1>3. ASSUME NEW i \in Irps, NEW u \in Urbs[i], Submit(i, u)
      PROVE  PairInv'
  BY <1>3, SubmitPair
<1>4. ASSUME NEW i \in Irps, AnalyzeSubmit(i) \/ BusCompletes(i) \/ AnalyzeComplete(i)
      PROVE  PairInv'
  BY <1>4, AnalyzeSubmitPair, BusPair, AnalyzeCompletePair
<1>5. ASSUME NEW i \in Irps, LogUnknownSubmit(i) \/ LogComplete(i)
      PROVE  PairInv'
  BY <1>5, LogUnknownPair, LogCompletePair
<1>6. ASSUME NEW i \in Irps, Return(i)
      PROVE  PairInv'
  <2>1. /\ \A j \in Irps : j # i => irp'[j] = irp[j]
        /\ UNCHANGED <<deviceAddress, filter, capture, URBIrpTable, descriptor>>
        /\ ~irp'[i].whole
    BY <1>0, <1>6, ReturnStep DEF device
  <2>2. PairOf(i)' /\ Around(i)
    BY <2>1 DEF PairOf, Around
  <2> QED
    BY <2>2, PairKept
<1> QED
  BY <1>1, <1>2, <1>3, <1>4, <1>5, <1>6, NextCases

LEMMA PairInvPaired ==
  ASSUME PairInv
  PROVE  Paired
<1>1. SUFFICES ASSUME NEW i \in Irps, Finished(i), irp[i].whole, ~irp[i].dropped
               PROVE  LET ps == LoggedPackets(i) IN
                      \/ ps = <<>>
                      \/ Len(ps) = 2 /\ ~ps[1].post /\ ps[2].post
  BY DEF Paired
<1>2. PICK log : log = irp[i].logged
  OBVIOUS
<1>3. log = <<>> \/ Full(log)
  BY <1>1, <1>2 DEF PairInv, PairOf, Halfway, Finished
<1>4. LoggedPackets(i) = [n \in DOMAIN log |-> log[n].packet]
  BY <1>2 DEF LoggedPackets
<1>5. CASE log = <<>>
  BY <1>4, <1>5
<1>6. CASE Full(log)
  <2>1. PICK p, q : log = <<p, q>> /\ ~p.packet.post /\ q.packet.post
    BY <1>6 DEF Full
  <2>2. LoggedPackets(i) = <<p.packet, q.packet>>
    BY <1>4, <2>1
  <2> QED
    BY <2>1, <2>2
<1> QED
  BY <1>3, <1>5, <1>6

(* A transfer that one filter and one address were in force for all the    *)
(* way is logged as a submission and then a completion, or not at all,     *)
(* whatever other IRPs do and whatever the USB stack makes of an unknown   *)
(* function, unless a full ring, a lack of memory or the safety check of   *)
(* isochronous transfers dropped one of the two.                           *)
THEOREM AlwaysPaired == Spec => []Paired
<1>1. Init => UrbInv /\ PairInv
  <2>1. ASSUME Init PROVE PairInv
    <3>1. PICK y : y = Idle
      OBVIOUS
    <3>2. irp = [i \in Irps |-> y] /\ ~y.whole
      BY <2>1, <3>1, IdleShape DEF Init
    <3> QED
      BY <3>2 DEF PairInv, PairOf
  <2> QED
    BY <2>1, UrbInit
<1>2. UrbInv /\ PairInv /\ [Next]_vars => UrbInv' /\ PairInv'
  BY UrbStep, PairStep
<1>3. PairInv => Paired
  BY PairInvPaired
<1> QED
  BY <1>1, <1>2, <1>3, PTL DEF Spec
-----------------------------------------------------------------------------
(* The lengths of isochronous packets. *)

(* s[j] is b and the first j - 1 values of d together.                     *)
Sums(s, n, b, d) ==
  /\ s \in [1 .. (n + 1) -> Int] /\ s[1] = b
  /\ \A j \in 1 .. n : s[j + 1] = s[j] + d[j]

(* There is such a function.                                               *)
LEMMA SumsExist ==
  ASSUME NEW n \in Nat, NEW b \in Int, NEW d \in [1 .. n -> Int]
  PROVE  \E s : Sums(s, n, b, d)
<1>1. PICK step : step = [x \in Int \X (1 .. n) |-> x[1] + d[x[2]]]
  OBVIOUS
<1>2. step \in [Int \X (1 .. n) -> Int]
  BY <1>1
<1>3. PICK g \in [0 .. n -> Int] : Recurs(g, n, b, step)
  BY <1>2, Recursion
<1>4. PICK s : s = [j \in 1 .. (n + 1) |-> g[j - 1]]
  OBVIOUS
<1>5. s \in [1 .. (n + 1) -> Int] /\ s[1] = b
  BY <1>3, <1>4 DEF Recurs
<1>6. ASSUME NEW j \in 1 .. n
      PROVE  s[j + 1] = s[j] + d[j]
  <2>1. g[j] = step[<<g[j - 1], j>>]
    BY <1>3 DEF Recurs
  <2>2. g[j - 1] \in Int /\ <<g[j - 1], j>> \in Int \X (1 .. n)
    OBVIOUS
  <2>3. g[j] = g[j - 1] + d[j]
    BY <1>1, <2>1, <2>2
  <2>4. s[j + 1] = g[j] /\ s[j] = g[j - 1]
    BY <1>4
  <2> QED
    BY <2>3, <2>4
<1> QED
  BY <1>5, <1>6 DEF Sums

(* A recursive sum is determined by its first value and its steps.         *)
LEMMA SumsOf ==
  ASSUME NEW n \in Nat, NEW b \in Int, NEW d \in [1 .. n -> Int], NEW s,
         s = [j \in 1 .. (n + 1) |-> s[j]], s[1] = b,
         \A j \in 1 .. n : s[j + 1] = s[j] + d[j]
  PROVE  Sums(s, n, b, d)
<1> DEFINE T == {k \in 0 .. n : s[k + 1] \in Int}
<1>1. 0 \in T
  OBVIOUS
<1>2. ASSUME NEW k \in 0 .. n - 1, k \in T  PROVE k + 1 \in T
  <2>1. k + 1 \in 1 .. n
    OBVIOUS
  <2>2. s[(k + 1) + 1] = s[k + 1] + d[k + 1]
    BY <2>1
  <2>3. s[k + 1] \in Int /\ d[k + 1] \in Int
    BY <1>2, <2>1
  <2> QED
    BY <2>1, <2>2, <2>3
<1>3. 0 .. n \subseteq T
  <2> HIDE DEF T
  <2> QED
    BY <1>1, <1>2, UpTo
<1>4. ASSUME NEW j \in 1 .. (n + 1)  PROVE s[j] \in Int
  <2>1. j - 1 \in 0 .. n /\ (j - 1) + 1 = j
    OBVIOUS
  <2>2. j - 1 \in T
    BY <1>3, <2>1
  <2> QED
    BY <2>1, <2>2
<1> QED
  BY <1>4 DEF Sums
-----------------------------------------------------------------------------
Isos == Seq([offset : Nat, length : Nat])

IsBefore(s, iso) ==
  s = [j \in 1 .. (Len(iso) + 1) |-> IF j = 1 THEN 0 ELSE s[j - 1] + iso[j - 1].length]

LengthsOf(iso) == [j \in 1 .. Len(iso) |-> iso[j].length]

(* An entry of a list of isochronous packets.                              *)
LEMMA IsoEntry ==
  ASSUME NEW iso \in Isos, NEW k \in 1 .. Len(iso)
  PROVE  /\ iso[k].length \in Nat /\ iso[k].offset \in Nat
         /\ iso[k] = [offset |-> iso[k].offset, length |-> iso[k].length]
<1>1. PICK S : S = [offset : Nat, length : Nat]
  OBVIOUS
<1>2. iso \in Seq(S)
  BY <1>1 DEF Isos
<1>3. iso[k] \in S
  BY <1>2
<1>4. iso[k] \in [offset : Nat, length : Nat]
  BY <1>1, <1>3
<1> QED
  BY <1>4

(* Before is such a sum.                                                   *)
LEMMA BeforeSums ==
  ASSUME NEW iso \in Isos
  PROVE  \E s : /\ Sums(s, Len(iso), 0, LengthsOf(iso))
                /\ \A k : Before(iso, k) = s[k]
<1>1. PICK n \in Nat : n = Len(iso)
  BY DEF Isos
<1>2. PICK d : d = LengthsOf(iso)
  OBVIOUS
<1>3. d \in [1 .. n -> Int] /\ \A j \in 1 .. n : d[j] = iso[j].length
  <2>1. \A j \in 1 .. n : iso[j].length \in Nat
    BY <1>1, IsoEntry
  <2>2. d = [j \in 1 .. n |-> iso[j].length]
    BY <1>1, <1>2 DEF LengthsOf
  <2> QED
    BY <2>1, <2>2
<1>4. \E s : IsBefore(s, iso)
  <2>1. PICK s : Sums(s, n, 0, d)
    BY <1>3, SumsExist
  <2>2. s = [j \in 1 .. (n + 1) |-> s[j]]
    BY <2>1 DEF Sums
  <2>3. ASSUME NEW j \in 1 .. (n + 1)
        PROVE  s[j] = IF j = 1 THEN 0 ELSE s[j - 1] + iso[j - 1].length
    <3>1. CASE j = 1
      BY <2>1, <3>1 DEF Sums
    <3>2. CASE j # 1
      <4>1. j - 1 \in 1 .. n /\ (j - 1) + 1 = j
        BY <3>2
      <4>2. s[(j - 1) + 1] = s[j - 1] + d[j - 1]
        BY <2>1, <4>1 DEF Sums
      <4> QED
        BY <1>3, <3>2, <4>1, <4>2
    <3> QED
      BY <3>1, <3>2
  <2>4. IsBefore(s, iso)
    BY <1>1, <2>2, <2>3 DEF IsBefore
  <2> QED
    BY <2>4
<1>5. PICK s : s = CHOOSE t : IsBefore(t, iso)
  OBVIOUS
<1>6. IsBefore(s, iso)
  BY <1>4, <1>5
<1>7. \A k : Before(iso, k) = s[k]
  BY <1>5 DEF Before, IsBefore
<1>8. s = [j \in 1 .. (n + 1) |-> IF j = 1 THEN 0 ELSE s[j - 1] + iso[j - 1].length]
  BY <1>1, <1>6 DEF IsBefore
<1>9. s = [j \in 1 .. (n + 1) |-> s[j]]
  BY <1>8
<1>10. ASSUME NEW j \in 1 .. n  PROVE s[j + 1] = s[j] + d[j]
  <2>1. j + 1 \in 1 .. (n + 1) /\ j + 1 # 1 /\ (j + 1) - 1 = j
    OBVIOUS
  <2>2. s[j + 1] = s[(j + 1) - 1] + iso[(j + 1) - 1].length
    BY <1>8, <2>1
  <2> QED
    BY <1>3, <2>1, <2>2
<1>11. s[1] = 0
  BY <1>8
<1>12. Sums(s, n, 0, d)
  <2>1. 0 \in Int
    OBVIOUS
  <2> QED
    BY <1>3, <1>9, <1>10, <1>11, <2>1, SumsOf
<1> QED
  BY <1>1, <1>2, <1>7, <1>12

(* The lengths of the packets before packet k add up as they should.       *)
LEMMA BeforeFacts ==
  ASSUME NEW iso \in Isos
  PROVE  /\ Before(iso, 1) = 0
         /\ \A k \in 1 .. (Len(iso) + 1) : Before(iso, k) \in Nat
         /\ \A k \in 1 .. Len(iso) : Before(iso, k + 1) = Before(iso, k) + iso[k].length
<1>1. PICK n \in Nat : n = Len(iso)
  BY DEF Isos
<1>2. PICK s : Sums(s, n, 0, LengthsOf(iso)) /\ \A k : Before(iso, k) = s[k]
  BY <1>1, BeforeSums
<1>3. /\ s \in [1 .. (n + 1) -> Int] /\ s[1] = 0
      /\ \A j \in 1 .. n : s[j + 1] = s[j] + iso[j].length
  BY <1>1, <1>2 DEF Sums, LengthsOf
<1>4. \A j \in 1 .. n : iso[j].length \in Nat
  BY <1>1, IsoEntry
<1> DEFINE T == {k \in 0 .. n : s[k + 1] \in Nat}
<1>5. 0 \in T
  BY <1>3
<1>6. ASSUME NEW k \in 0 .. n - 1, k \in T  PROVE k + 1 \in T
  <2>1. k + 1 \in 1 .. n
    OBVIOUS
  <2>2. s[(k + 1) + 1] = s[k + 1] + iso[k + 1].length
    BY <1>3, <2>1
  <2>3. s[k + 1] \in Nat /\ iso[k + 1].length \in Nat
    BY <1>4, <1>6, <2>1
  <2> QED
    BY <2>1, <2>2, <2>3
<1>7. 0 .. n \subseteq T
  <2> HIDE DEF T
  <2> QED
    BY <1>5, <1>6, UpTo
<1>8. ASSUME NEW j \in 1 .. (n + 1)  PROVE s[j] \in Nat
  <2>1. j - 1 \in 0 .. n /\ (j - 1) + 1 = j
    OBVIOUS
  <2>2. j - 1 \in T
    BY <1>7, <2>1
  <2> QED
    BY <2>1, <2>2
<1> QED
  BY <1>1, <1>2, <1>3, <1>8

(* A later packet begins no earlier than an earlier one ends.              *)
LEMMA BeforeGrows ==
  ASSUME NEW iso \in Isos, NEW j \in 1 .. (Len(iso) + 1), NEW k \in 1 .. (Len(iso) + 1),
         j <= k
  PROVE  Before(iso, j) <= Before(iso, k)
<1>1. PICK n \in Nat : n = Len(iso)
  BY DEF Isos
<1>2. PICK m \in Nat : m = n + 1 - j
  BY <1>1
<1> DEFINE T == {i \in 0 .. m : Before(iso, j) <= Before(iso, j + i)}
<1>3. \A i \in 1 .. (n + 1) : Before(iso, i) \in Nat
  BY <1>1, BeforeFacts
<1>4. 0 \in T
  BY <1>1, <1>3
<1>5. ASSUME NEW i \in 0 .. m - 1, i \in T  PROVE i + 1 \in T
  <2>1. PICK x \in 1 .. n : x = j + i
    BY <1>1, <1>2
  <2>2. Before(iso, x + 1) = Before(iso, x) + iso[x].length
    BY <1>1, BeforeFacts
  <2>3. iso[x].length \in Nat
    BY <1>1, IsoEntry
  <2>4. x \in 1 .. (n + 1) /\ x + 1 \in 1 .. (n + 1) /\ x + 1 = j + (i + 1)
    BY <2>1
  <2>5. Before(iso, x) \in Nat /\ Before(iso, x + 1) \in Nat /\ Before(iso, j) \in Nat
    BY <1>1, <1>3, <2>4
  <2>6. Before(iso, j) <= Before(iso, x)
    BY <1>5, <2>1
  <2>7. Before(iso, j) <= Before(iso, x + 1)
    BY <2>2, <2>3, <2>5, <2>6
  <2> QED
    BY <2>4, <2>7
<1>6. 0 .. m \subseteq T
  <2> HIDE DEF T
  <2> QED
    BY <1>4, <1>5, UpTo
<1>7. k - j \in 0 .. m /\ j + (k - j) = k
  BY <1>1, <1>2
<1>8. k - j \in T
  BY <1>6, <1>7
<1> QED
  BY <1>7, <1>8

(* The payload of a completion, read where a packet of it begins.          *)
LEMMA GatheredAt ==
  ASSUME NEW iso \in Isos, NEW k \in 1 .. Len(iso), NEW m \in 1 .. iso[k].length
  PROVE  /\ Before(iso, k) + m \in 1 .. IsoTotal(iso)
         /\ Gathered(iso)[Before(iso, k) + m] = iso[k].offset + m - 1
<1>1. PICK n \in Nat : n = Len(iso)
  BY DEF Isos
<1>2. PICK a \in Nat, b \in Nat, c \in Nat, len \in Nat, off \in Nat :
        /\ a = Before(iso, k) /\ b = Before(iso, k + 1) /\ c = IsoTotal(iso)
        /\ len = iso[k].length /\ off = iso[k].offset
  <2>1. k \in 1 .. (n + 1) /\ k + 1 \in 1 .. (n + 1) /\ n + 1 \in 1 .. (n + 1)
    BY <1>1
  <2>2. /\ Before(iso, k) \in Nat /\ Before(iso, k + 1) \in Nat
        /\ Before(iso, n + 1) \in Nat
    BY <1>1, <2>1, BeforeFacts
  <2>3. iso[k].length \in Nat /\ iso[k].offset \in Nat
    BY IsoEntry
  <2> QED
    BY <1>1, <2>2, <2>3 DEF IsoTotal
<1>3. b = a + len
  BY <1>2, BeforeFacts
<1>4. b <= c
  <2>1. k + 1 \in 1 .. (Len(iso) + 1) /\ Len(iso) + 1 \in 1 .. (Len(iso) + 1)
        /\ k + 1 <= Len(iso) + 1
    BY <1>1
  <2>2. Before(iso, k + 1) <= Before(iso, Len(iso) + 1)
    BY <2>1, BeforeGrows
  <2> QED
    BY <1>2, <2>2 DEF IsoTotal
<1>5. PICK x \in 1 .. c : x = a + m /\ a < x /\ x <= b
  <2>1. m \in 1 .. len
    BY <1>2
  <2>2. a + m \in 1 .. c /\ a < a + m /\ a + m <= b
    BY <1>3, <1>4, <2>1
  <2> QED
    BY <2>2
<1>6. ASSUME NEW j \in DOMAIN iso, Before(iso, j) < x, x <= Before(iso, j + 1)
      PROVE  j = k
  <2>1. j \in 1 .. n /\ k \in 1 .. n
    BY <1>1 DEF Isos
  <2>2. /\ j \in 1 .. (n + 1) /\ j + 1 \in 1 .. (n + 1)
        /\ k \in 1 .. (n + 1) /\ k + 1 \in 1 .. (n + 1)
    BY <2>1
  <2>3. Before(iso, j) \in Nat /\ Before(iso, j + 1) \in Nat
    BY <1>1, <2>2, BeforeFacts
  <2>4. CASE j < k
    <3>1. j + 1 <= k
      BY <2>1, <2>4
    <3>2. Before(iso, j + 1) <= Before(iso, k)
      BY <1>1, <2>2, <3>1, BeforeGrows
    <3> QED
      BY <1>2, <1>5, <1>6, <2>3, <3>2, SMTT(30)
  <2>5. CASE k < j
    <3>1. k + 1 <= j
      BY <2>1, <2>5
    <3>2. Before(iso, k + 1) <= Before(iso, j)
      BY <1>1, <2>2, <3>1, BeforeGrows
    <3> QED
      BY <1>2, <1>5, <1>6, <2>3, <3>2, SMTT(30)
  <2> QED
    BY <2>1, <2>4, <2>5
<1>7. k \in DOMAIN iso /\ Before(iso, k) < x /\ x <= Before(iso, k + 1)
  BY <1>1, <1>2, <1>5 DEF Isos
<1>8. (CHOOSE j \in DOMAIN iso : Before(iso, j) < x /\ x <= Before(iso, j + 1)) = k
  BY <1>6, <1>7
<1>9. Gathered(iso)[x] = iso[k].offset + x - 1 - Before(iso, k)
  BY <1>2, <1>5, <1>8 DEF Gathered
<1>10. off + x - 1 - a = off + m - 1
  BY <1>2, <1>5, SMTT(30)
<1> QED
  BY <1>2, <1>5, <1>9, <1>10

(* What IsoReadable asks of one packet of an isochronous completion.       *)
Readable(p, u) ==
  /\ Len(p.payload) = p.data /\ p.data <= u.len
  /\ \A k \in DOMAIN u.iso : p.iso[k].offset + p.iso[k].length <= p.data
  /\ \A k \in DOMAIN u.iso :
       SubSeq(p.payload, p.iso[k].offset + 1, p.iso[k].offset + p.iso[k].length)
         = [m \in 1 .. u.iso[k].length |-> u.iso[k].offset + m - 1]

(* The payload has as many bytes as the packets together.                  *)
LEMMA GatheredRange ==
  ASSUME NEW iso \in Isos
  PROVE  /\ IsoTotal(iso) \in Nat
         /\ Gathered(iso) = [x \in 1 .. IsoTotal(iso) |-> Gathered(iso)[x]]
         /\ Len(Gathered(iso)) = IsoTotal(iso)
<1>1. PICK n \in Nat : n = Len(iso)
  BY DEF Isos
<1>2. n + 1 \in 1 .. (n + 1)
  OBVIOUS
<1>3. IsoTotal(iso) \in Nat
  BY <1>1, <1>2, BeforeFacts DEF IsoTotal
<1>4. PICK g : g = Gathered(iso)
  OBVIOUS
<1>5. PICK c \in Nat : c = IsoTotal(iso)
  BY <1>3
<1>6. g = [x \in 1 .. c |-> g[x]] /\ DOMAIN g = 1 .. c
  BY <1>4, <1>5 DEF Gathered
<1>7. PICK S : S = {g[x] : x \in 1 .. c}
  OBVIOUS
<1>8. g \in [1 .. c -> S]
  BY <1>6, <1>7
<1>9. g \in Seq(S) /\ Len(g) = c
  BY <1>8
<1> QED
  BY <1>3, <1>4, <1>5, <1>6, <1>9

(* Packet k, read in the payload where the packets before it end, is the   *)
(* bytes it had in the transfer buffer.                                    *)
LEMMA GatheredReads ==
  ASSUME NEW iso \in Isos, NEW k \in 1 .. Len(iso)
  PROVE  /\ Before(iso, k) \in Nat
         /\ Before(iso, k) + iso[k].length <= IsoTotal(iso)
         /\ SubSeq(Gathered(iso), Before(iso, k) + 1, Before(iso, k) + iso[k].length)
              = [m \in 1 .. iso[k].length |-> iso[k].offset + m - 1]
<1>1. PICK n \in Nat : n = Len(iso)
  BY DEF Isos
<1>2. PICK g : g = Gathered(iso)
  OBVIOUS
<1>3. PICK a \in Nat, len \in Nat, off \in Nat :
        a = Before(iso, k) /\ len = iso[k].length /\ off = iso[k].offset
  <2>1. k \in 1 .. (Len(iso) + 1)
    BY <1>1
  <2>2. Before(iso, k) \in Nat
    BY <2>1, BeforeFacts
  <2> QED
    BY <2>2, IsoEntry
<1>4. a + len <= IsoTotal(iso)
  <2>1. /\ k + 1 \in 1 .. (Len(iso) + 1) /\ Len(iso) + 1 \in 1 .. (Len(iso) + 1)
        /\ k + 1 <= Len(iso) + 1
    BY <1>1
  <2>2. Before(iso, k + 1) <= Before(iso, Len(iso) + 1)
    BY <2>1, BeforeGrows
  <2>3. Before(iso, k + 1) = a + len
    BY <1>3, BeforeFacts
  <2> QED
    BY <2>2, <2>3 DEF IsoTotal
<1>5. \A m \in 1 .. len : g[a + m] = off + m - 1
  BY <1>2, <1>3, GatheredAt
<1>6. PICK t : t = SubSeq(g, a + 1, a + len)
  OBVIOUS
<1>7. \A x \in (a + 1) .. (a + len) : g[x] \in Int
  <2>1. SUFFICES ASSUME NEW x \in (a + 1) .. (a + len)  PROVE g[x] \in Int
    OBVIOUS
  <2>2. PICK m \in 1 .. len : x = a + m
    <3>1. x - a \in 1 .. len /\ x = a + (x - a)
      OBVIOUS
    <3> QED
      BY <3>1
  <2> QED
    BY <1>5, <2>2
<1>8. /\ t \in Seq(Int)
      /\ Len(t) = IF a + 1 <= a + len THEN (a + len) - (a + 1) + 1 ELSE 0
      /\ \A i \in 1 .. ((a + len) - (a + 1) + 1) : t[i] = g[(a + 1) + i - 1]
  BY <1>6, <1>7, SubSeqProperties
<1>9. Len(t) = len /\ (a + len) - (a + 1) + 1 = len
  BY <1>8
<1>10. \A i \in 1 .. len : t[i] = off + i - 1
  <2>1. SUFFICES ASSUME NEW i \in 1 .. len  PROVE t[i] = off + i - 1
    OBVIOUS
  <2>2. t[i] = g[(a + 1) + i - 1] /\ (a + 1) + i - 1 = a + i
    BY <1>8, <1>9
  <2> QED
    BY <1>5, <2>2
<1>11. t = [i \in 1 .. len |-> t[i]]
  BY <1>8, <1>9
<1>12. t = [i \in 1 .. len |-> off + i - 1]
  BY <1>10, <1>11
<1> QED
  BY <1>2, <1>3, <1>4, <1>6, <1>12

(* Only a completion has a payload, and it can be read.                    *)
LEMMA IsochReadable ==
  ASSUME NEW u, u.iso \in Isos, u.len \in Nat, NEW post \in BOOLEAN, NEW table,
         NEW dev, ~IsoDropped(u, post), NEW p, p = IsochPacket(u, post, table, dev)
  PROVE  p.payload # <<>> => post /\ Readable(p, u)
<1>1. PICK e : e = EndpointOf(u, table, dev)
  OBVIOUS
<1>2. PICK q : q = [Packet(u, post, e.device, e.ep, "isochronous", 0) EXCEPT !.iso = u.iso]
  OBVIOUS
<1>3. q.payload = <<>>
  BY <1>2 DEF Packet
<1>4. CASE u.len # 0 /\ u.in /\ post
  <2>1. p = [q EXCEPT !.data = IsoTotal(u.iso), !.iso = Compacted(u.iso),
                      !.payload = Gathered(u.iso)]
    BY <1>1, <1>2, <1>4 DEF IsochPacket
  <2>2. /\ p.data = IsoTotal(u.iso) /\ p.iso = Compacted(u.iso)
        /\ p.payload = Gathered(u.iso)
    BY <1>2, <2>1 DEF Packet
  <2>3. PICK iso \in Isos : iso = u.iso
    OBVIOUS
  <2>4. DOMAIN iso = 1 .. Len(iso)
    BY DEF Isos
  <2>5. IsoTotal(iso) \in Nat /\ Len(Gathered(iso)) = IsoTotal(iso)
    BY GatheredRange
  <2>6. IsoTotal(iso) <= u.len
    BY <1>4, <2>3, <2>5 DEF IsoDropped
  <2>7. ASSUME NEW k \in DOMAIN iso
        PROVE  /\ p.iso[k].offset + p.iso[k].length <= p.data
               /\ SubSeq(p.payload, p.iso[k].offset + 1, p.iso[k].offset + p.iso[k].length)
                    = [m \in 1 .. iso[k].length |-> iso[k].offset + m - 1]
    <3>1. k \in 1 .. Len(iso)
      BY <2>4
    <3>2. /\ Before(iso, k) + iso[k].length <= IsoTotal(iso)
          /\ SubSeq(Gathered(iso), Before(iso, k) + 1, Before(iso, k) + iso[k].length)
              = [m \in 1 .. iso[k].length |-> iso[k].offset + m - 1]
      BY <3>1, GatheredReads
    <3>3. p.iso[k] = [iso[k] EXCEPT !.offset = Before(iso, k)]
      BY <2>2, <2>3 DEF Compacted
    <3>4. iso[k] = [offset |-> iso[k].offset, length |-> iso[k].length]
      BY <3>1, IsoEntry
    <3>5. p.iso[k].offset = Before(iso, k) /\ p.iso[k].length = iso[k].length
      BY <3>3, <3>4
    <3> QED
      BY <2>2, <2>3, <3>2, <3>5
  <2> QED
    <3>1. Len(p.payload) = p.data /\ p.data <= u.len
      BY <2>2, <2>3, <2>5, <2>6
    <3>2. Readable(p, u)
      BY <2>3, <2>7, <3>1, Zenon DEF Readable
    <3> QED
      BY <1>4, <3>2
<1>5. CASE ~(u.len # 0 /\ u.in /\ post)
  <2>1. p = q \/ p = [q EXCEPT !.data = u.len]
    BY <1>1, <1>2, <1>5 DEF IsochPacket
  <2>2. p.payload = <<>>
    BY <1>2, <1>3, <2>1 DEF Packet
  <2> QED
    BY <2>2
<1> QED
  BY <1>4, <1>5
-----------------------------------------------------------------------------
(* The walk through the interfaces of a selection. *)

(* Two sums with the same steps are the same.                              *)
LEMMA SumsSame ==
  ASSUME NEW n \in Nat, NEW b, NEW d, NEW s, NEW t, Sums(s, n, b, d), Sums(t, n, b, d)
  PROVE  \A j \in 1 .. (n + 1) : s[j] = t[j]
<1> DEFINE T == {k \in 0 .. n : s[k + 1] = t[k + 1]}
<1>1. 0 \in T
  BY DEF Sums
<1>2. ASSUME NEW k \in 0 .. n - 1, k \in T  PROVE k + 1 \in T
  <2>1. k + 1 \in 1 .. n /\ k + 1 \in 0 .. n
    OBVIOUS
  <2>2. /\ s[(k + 1) + 1] = s[k + 1] + d[k + 1]
        /\ t[(k + 1) + 1] = t[k + 1] + d[k + 1]
    BY <2>1 DEF Sums
  <2> QED
    BY <1>2, <2>1, <2>2
<1>3. 0 .. n \subseteq T
  <2> HIDE DEF T
  <2> QED
    BY <1>1, <1>2, UpTo
<1> SUFFICES ASSUME NEW j \in 1 .. (n + 1)  PROVE s[j] = t[j]
  OBVIOUS
<1>4. j - 1 \in 0 .. n /\ (j - 1) + 1 = j
  OBVIOUS
<1>5. j - 1 \in T
  BY <1>3, <1>4
<1> QED
  BY <1>4, <1>5

(* An entry of a list of interfaces.                                       *)
LEMMA InterfaceEntry ==
  ASSUME NEW ifs \in Seq(Interfaces), NEW k \in 1 .. Len(ifs)
  PROVE  /\ ifs[k].Length \in Nat /\ ifs[k].number \in Nat
         /\ ifs[k].pipes \in Seq(PipeInfos)
         /\ ifs[k] = [number |-> ifs[k].number, Length |-> ifs[k].Length,
                      pipes |-> ifs[k].pipes]
<1>1. PICK S : S = Interfaces
  OBVIOUS
<1>2. ifs[k] \in S
  BY <1>1
<1>3. ifs[k] \in Interfaces
  BY <1>1, <1>2
<1> QED
  BY <1>3 DEF Interfaces

Taken(ifs) == [j \in 1 .. Len(ifs) |-> 0 - ifs[j].Length]

IsRemaining(s, ifs, ifsLen) ==
  s = [j \in 1 .. (Len(ifs) + 1) |-> IF j = 1 THEN ifsLen
                                     ELSE s[j - 1] - ifs[j - 1].Length]

(* What is left of the list goes down by the lengths of the interfaces.    *)
LEMMA RemainingSums ==
  ASSUME NEW ifs \in Seq(Interfaces), NEW ifsLen \in Nat
  PROVE  \E s : /\ Sums(s, Len(ifs), ifsLen, Taken(ifs))
                /\ \A k : Remaining(ifs, ifsLen, k) = s[k]
<1>1. PICK n \in Nat : n = Len(ifs)
  OBVIOUS
<1>2. PICK d : d = Taken(ifs)
  OBVIOUS
<1>3. \A j \in 1 .. n : ifs[j].Length \in Nat
  BY <1>1, InterfaceEntry
<1>4. d = [j \in 1 .. n |-> 0 - ifs[j].Length]
  BY <1>1, <1>2 DEF Taken
<1>5. d \in [1 .. n -> Int] /\ \A j \in 1 .. n : d[j] = 0 - ifs[j].Length
  BY <1>3, <1>4
<1>6. \E s : IsRemaining(s, ifs, ifsLen)
  <2>0. ifsLen \in Int
    OBVIOUS
  <2>1. PICK s : Sums(s, n, ifsLen, d)
    BY <1>5, <2>0, SumsExist
  <2>2. s = [j \in 1 .. (n + 1) |-> s[j]] /\ s \in [1 .. (n + 1) -> Int]
    BY <2>1 DEF Sums
  <2>3. ASSUME NEW j \in 1 .. (n + 1)
        PROVE  s[j] = IF j = 1 THEN ifsLen ELSE s[j - 1] - ifs[j - 1].Length
    <3>1. CASE j = 1
      BY <2>1, <3>1 DEF Sums
    <3>2. CASE j # 1
      <4>1. j - 1 \in 1 .. n /\ (j - 1) + 1 = j /\ j - 1 \in 1 .. (n + 1)
        BY <3>2
      <4>2. s[(j - 1) + 1] = s[j - 1] + d[j - 1]
        BY <2>1, <4>1 DEF Sums
      <4>3. s[j - 1] \in Int /\ ifs[j - 1].Length \in Nat /\ d[j - 1] = 0 - ifs[j - 1].Length
        BY <1>3, <1>5, <2>2, <4>1
      <4> QED
        BY <3>2, <4>1, <4>2, <4>3
    <3> QED
      BY <3>1, <3>2
  <2>4. IsRemaining(s, ifs, ifsLen)
    BY <1>1, <2>2, <2>3 DEF IsRemaining
  <2> QED
    BY <2>4
<1>7. PICK s : s = CHOOSE t : IsRemaining(t, ifs, ifsLen)
  OBVIOUS
<1>8. IsRemaining(s, ifs, ifsLen)
  BY <1>6, <1>7
<1>9. \A k : Remaining(ifs, ifsLen, k) = s[k]
  BY <1>7 DEF Remaining, IsRemaining
<1>10. s = [j \in 1 .. (n + 1) |-> IF j = 1 THEN ifsLen ELSE s[j - 1] - ifs[j - 1].Length]
  BY <1>1, <1>8 DEF IsRemaining
<1>11. s = [j \in 1 .. (n + 1) |-> s[j]] /\ s[1] = ifsLen
  BY <1>10
<1>12. ASSUME NEW j \in 1 .. n  PROVE s[j + 1] = s[j] - ifs[j].Length
  <2>1. j + 1 \in 1 .. (n + 1) /\ j + 1 # 1 /\ (j + 1) - 1 = j
    OBVIOUS
  <2>2. s[j + 1] = s[(j + 1) - 1] - ifs[(j + 1) - 1].Length
    BY <1>10, <2>1
  <2> QED
    BY <2>1, <2>2
<1> DEFINE T == {k \in 0 .. n : s[k + 1] \in Int}
<1>13. 0 \in T
  BY <1>11
<1>14. ASSUME NEW k \in 0 .. n - 1, k \in T  PROVE k + 1 \in T
  <2>1. k + 1 \in 1 .. n
    OBVIOUS
  <2>2. s[(k + 1) + 1] = s[k + 1] - ifs[k + 1].Length
    BY <1>12, <2>1
  <2>3. s[k + 1] \in Int /\ ifs[k + 1].Length \in Int
    BY <1>3, <1>14, <2>1
  <2> QED
    BY <2>1, <2>2, <2>3
<1>15. 0 .. n \subseteq T
  <2> HIDE DEF T
  <2> QED
    BY <1>13, <1>14, UpTo
<1>16. ASSUME NEW j \in 1 .. n  PROVE s[j + 1] = s[j] + d[j]
  <2>1. j - 1 \in 0 .. n /\ (j - 1) + 1 = j
    OBVIOUS
  <2>2. j - 1 \in T
    BY <1>15, <2>1
  <2>3. s[j] \in Int /\ ifs[j].Length \in Nat
    BY <1>3, <2>1, <2>2
  <2> QED
    BY <1>5, <1>12, <2>3, SMTT(30)
<1>17. Sums(s, n, ifsLen, d)
  <2>1. ifsLen \in Int
    OBVIOUS
  <2> QED
    BY <1>5, <1>11, <1>16, <2>1, SumsOf
<1> QED
  BY <1>1, <1>2, <1>9, <1>17

(* Interfaces of the length that their pipes ask for, and no more and no   *)
(* fewer than the URB has room for: WellFormed.                            *)
Room(ifs, ifsLen) ==
  /\ Remaining(ifs, ifsLen, Len(ifs) + 1) = 0
  /\ \A k \in DOMAIN ifs : LET n == Len(ifs[k].pipes) IN
       ifs[k].Length = InterfaceSize + (IF n = 0 THEN 0 ELSE n - 1) * PipeSize

(* The walk through such a list never stops before its end.                *)
LEMMA NeverStops ==
  ASSUME NEW ifs \in Seq(Interfaces), NEW ifsLen \in Nat, Room(ifs, ifsLen),
         NEW k \in 1 .. Len(ifs)
  PROVE  ~Stops(ifs, ifsLen, k)
<1>1. PICK n \in Nat : n = Len(ifs)
  OBVIOUS
<1>2. PICK s : /\ Sums(s, n, ifsLen, Taken(ifs))
               /\ \A j : Remaining(ifs, ifsLen, j) = s[j]
  BY <1>1, RemainingSums
<1>3. \A j \in 1 .. n : ifs[j].Length \in Nat /\ ifs[j].pipes \in Seq(PipeInfos)
  BY <1>1, InterfaceEntry
<1>4. /\ s \in [1 .. (n + 1) -> Int]
      /\ \A j \in 1 .. n : s[j + 1] = s[j] - ifs[j].Length
  <2>1. s \in [1 .. (n + 1) -> Int] /\ \A j \in 1 .. n : s[j + 1] = s[j] + Taken(ifs)[j]
    BY <1>2 DEF Sums
  <2>2. \A j \in 1 .. n : Taken(ifs)[j] = 0 - ifs[j].Length
    BY <1>1 DEF Taken
  <2>3. \A j \in 1 .. n : s[j] \in Int
    BY <2>1
  <2> QED
    BY <1>3, <2>1, <2>2, <2>3, SMTT(30)
<1> DEFINE T == {i \in 0 .. n : s[i + 1] >= 0}
<1>5. ASSUME NEW i \in 0 .. n, \A j \in 0 .. n : i < j => j \in T  PROVE i \in T
  <2>1. CASE i = n
    BY <1>1, <1>2, <2>1 DEF Room
  <2>2. CASE i # n
    <3>1. i + 1 \in 1 .. n /\ i + 1 \in 0 .. n /\ i < i + 1
      BY <2>2
    <3>2. s[(i + 1) + 1] >= 0 /\ s[(i + 1) + 1] = s[i + 1] - ifs[i + 1].Length
      BY <1>4, <1>5, <3>1
    <3>3. s[i + 1] \in Int /\ ifs[i + 1].Length \in Nat
      BY <1>3, <1>4, <3>1
    <3> QED
      BY <3>2, <3>3
  <2> QED
    BY <2>1, <2>2
<1>6. 0 .. n \subseteq T
  <2> HIDE DEF T
  <2> QED
    BY <1>5, DownTo
<1>7. PICK rest \in Int, len \in Nat, c \in Nat, q \in Nat :
        /\ rest = Remaining(ifs, ifsLen, k) /\ len = ifs[k].Length
        /\ c = Len(ifs[k].pipes)
        /\ q = (IF c = 0 THEN 0 ELSE c - 1) * PipeSize
  <2>1. s[k] \in Int
    BY <1>1, <1>4
  <2>2. PICK c \in Nat : c = Len(ifs[k].pipes)
    BY <1>1, <1>3
  <2>3. PICK r \in Nat : r = IF c = 0 THEN 0 ELSE c - 1
    OBVIOUS
  <2>4. PipeSize \in Nat
    BY PacketsAssumption
  <2>5. r * PipeSize \in Nat
    BY <2>4
  <2> QED
    BY <1>1, <1>2, <1>3, <2>1, <2>2, <2>3, <2>5
<1>8. rest - len >= 0
  <2>1. k \in 0 .. n
    BY <1>1
  <2>2. s[k + 1] >= 0 /\ s[k + 1] = s[k] - ifs[k].Length
    BY <1>1, <1>4, <1>6, <2>1
  <2> QED
    BY <1>2, <1>7, <2>2
<1>9. len = InterfaceSize + q /\ InterfaceSize \in Nat \ {0}
  <2>1. k \in DOMAIN ifs
    OBVIOUS
  <2> QED
    BY <1>7, <2>1, PacketsAssumption DEF Room
<1>10. c > 1 => (c - 1) * PipeSize = q
  BY <1>7
<1>11. Stops(ifs, ifsLen, k) <=>
         \/ rest = 0 \/ len = 0 \/ rest < InterfaceSize \/ len > rest
         \/ c > 1 /\ rest < InterfaceSize + (c - 1) * PipeSize
  BY <1>7 DEF Stops
<1>12. Stops(ifs, ifsLen, k) =>
         \/ rest = 0 \/ len = 0 \/ rest < InterfaceSize \/ len > rest
         \/ rest < InterfaceSize + q
  BY <1>10, <1>11
<1> QED
  BY <1>8, <1>9, <1>12

Elems(s) == {s[m] : m \in 1 .. Len(s)}

(* The elements of two sequences together.                                 *)
LEMMA ElemsConcat ==
  ASSUME NEW S, NEW s \in Seq(S), NEW t \in Seq(S)
  PROVE  s \o t \in Seq(S) /\ Elems(s \o t) = Elems(s) \cup Elems(t)
<1>1. PICK r : r = s \o t
  OBVIOUS
<1>2. PICK a \in Nat, b \in Nat : a = Len(s) /\ b = Len(t)
  OBVIOUS
<1>3. /\ r \in Seq(S) /\ Len(r) = a + b
      /\ \A m \in 1 .. a : r[m] = s[m]
      /\ \A m \in 1 .. b : r[a + m] = t[m]
  BY <1>1, <1>2
<1>4. ASSUME NEW x \in Elems(r)  PROVE x \in Elems(s) \cup Elems(t)
  <2>1. PICK m \in 1 .. (a + b) : x = r[m]
    BY <1>3, <1>4 DEF Elems
  <2>2. CASE m <= a
    <3>1. m \in 1 .. a
      BY <2>2
    <3> QED
      BY <1>2, <1>3, <2>1, <3>1 DEF Elems
  <2>3. CASE a < m
    <3>1. m - a \in 1 .. b /\ a + (m - a) = m
      BY <2>3
    <3>2. r[m] = t[m - a]
      BY <1>3, <3>1
    <3> QED
      BY <1>2, <2>1, <3>1, <3>2 DEF Elems
  <2> QED
    BY <2>2, <2>3
<1>5. ASSUME NEW x \in Elems(s)  PROVE x \in Elems(r)
  <2>1. PICK m \in 1 .. a : x = s[m]
    BY <1>2, <1>5 DEF Elems
  <2>2. m \in 1 .. Len(r) /\ x = r[m]
    BY <1>3, <2>1
  <2> QED
    BY <2>2 DEF Elems
<1>6. ASSUME NEW x \in Elems(t)  PROVE x \in Elems(r)
  <2>1. PICK m \in 1 .. b : x = t[m]
    BY <1>2, <1>6 DEF Elems
  <2>2. a + m \in 1 .. Len(r) /\ x = r[a + m]
    BY <1>3, <2>1
  <2> QED
    BY <2>2 DEF Elems
<1> QED
  BY <1>1, <1>3, <1>4, <1>5, <1>6

(* What the walk takes from interface k.                                   *)
TakenFrom(ifs, ifsLen, k) ==
  IF \A j \in 1 .. k : ~Stops(ifs, ifsLen, j) THEN ifs[k].pipes ELSE <<>>

IsParsed(g, ifs, ifsLen) ==
  g = [k \in 0 .. Len(ifs) |->
         IF k = 0 THEN <<>>
         ELSE g[k - 1] \o (IF \A j \in 1 .. k : ~Stops(ifs, ifsLen, j)
                           THEN ifs[k].pipes ELSE <<>>)]

Walks(g, ifs, ifsLen) ==
  /\ g[0] = <<>>
  /\ \A k \in 1 .. Len(ifs) : g[k] = g[k - 1] \o TakenFrom(ifs, ifsLen, k)

(* What the walk takes at one interface is a sequence of pipes.            *)
LEMMA TakenPipes ==
  ASSUME NEW ifs \in Seq(Interfaces), NEW ifsLen, NEW k \in 1 .. Len(ifs)
  PROVE  TakenFrom(ifs, ifsLen, k) \in Seq(PipeInfos)
<1>1. <<>> \in Seq(PipeInfos)
  OBVIOUS
<1>2. ifs[k].pipes \in Seq(PipeInfos)
  BY InterfaceEntry
<1> QED
  BY <1>1, <1>2, Zenon DEF TakenFrom

(* The walk through the list, interface by interface, is a function.       *)
LEMMA ParsedExists ==
  ASSUME NEW ifs \in Seq(Interfaces), NEW ifsLen
  PROVE  \E g : IsParsed(g, ifs, ifsLen)
<1>1. PICK n \in Nat : n = Len(ifs)
  OBVIOUS
<1>2. PICK P : P = PipeInfos
  OBVIOUS
<1>3. PICK B : B = Seq(P)
  OBVIOUS
<1>4. PICK more : more = [k \in 1 .. n |-> TakenFrom(ifs, ifsLen, k)]
  OBVIOUS
<1>5. more \in [1 .. n -> B]
  <2>1. \A k \in 1 .. n : TakenFrom(ifs, ifsLen, k) \in B
    BY <1>1, <1>2, <1>3, TakenPipes
  <2> QED
    BY <1>4, <2>1
<1>6. PICK step : step = [x \in B \X (1 .. n) |-> x[1] \o more[x[2]]]
  OBVIOUS
<1>7. step \in [B \X (1 .. n) -> B]
  <2>1. ASSUME NEW x \in B \X (1 .. n)  PROVE x[1] \o more[x[2]] \in B
    <3>1. PICK a \in Seq(P), b \in Seq(P) : a = x[1] /\ b = more[x[2]]
      BY <1>3, <1>5
    <3>2. a \o b \in Seq(P)
      OBVIOUS
    <3> QED
      BY <1>3, <3>1, <3>2
  <2> QED
    BY <1>6, <2>1
<1>8. PICK b \in B : b = <<>>
  <2>1. <<>> \in Seq(P)
    OBVIOUS
  <2> QED
    BY <1>3, <2>1
<1>9. PICK g \in [0 .. n -> B] : Recurs(g, n, b, step)
  BY <1>7, Recursion
<1>10. ASSUME NEW k \in 0 .. n
       PROVE  g[k] = IF k = 0 THEN <<>> ELSE g[k - 1] \o TakenFrom(ifs, ifsLen, k)
  <2>1. CASE k = 0
    BY <1>8, <1>9, <2>1, Zenon DEF Recurs
  <2>2. CASE k # 0
    <3>1. k \in 1 .. n
      BY <2>2
    <3>2. g[k] = step[<<g[k - 1], k>>]
      BY <1>9, <3>1, Zenon DEF Recurs
    <3>3. g[k - 1] \in B
      BY <3>1
    <3>4. <<g[k - 1], k>> \in B \X (1 .. n)
      BY <3>1, <3>3
    <3>5. step[<<g[k - 1], k>>] = g[k - 1] \o more[k]
      BY <1>6, <3>4
    <3>6. more[k] = TakenFrom(ifs, ifsLen, k)
      BY <1>4, <3>1
    <3> QED
      BY <2>2, <3>2, <3>5, <3>6, Zenon
  <2> QED
    BY <2>1, <2>2
<1>11. g = [k \in 0 .. n |-> g[k]]
  BY <1>9
<1>12. g = [k \in 0 .. n |-> IF k = 0 THEN <<>>
                             ELSE g[k - 1] \o TakenFrom(ifs, ifsLen, k)]
  BY <1>10, <1>11, Zenon
<1>13. IsParsed(g, ifs, ifsLen)
  BY <1>1, <1>12, Zenon DEF IsParsed, TakenFrom
<1> QED
  BY <1>13

(* ParsedPipes is where that walk ends.                                    *)
LEMMA ParsedWalks ==
  ASSUME NEW ifs \in Seq(Interfaces), NEW ifsLen
  PROVE  \E g : /\ Walks(g, ifs, ifsLen)
                /\ ParsedPipes(ifs, ifsLen) = g[Len(ifs)]
<1>1. PICK n \in Nat : n = Len(ifs)
  OBVIOUS
<1>2. PICK g : g = CHOOSE h : IsParsed(h, ifs, ifsLen)
  OBVIOUS
<1>3. IsParsed(g, ifs, ifsLen)
  BY <1>2, ParsedExists
<1>4. ParsedPipes(ifs, ifsLen) = g[Len(ifs)]
  BY <1>2, Zenon DEF ParsedPipes, IsParsed
<1>5. g = [k \in 0 .. n |-> IF k = 0 THEN <<>>
                            ELSE g[k - 1] \o TakenFrom(ifs, ifsLen, k)]
  BY <1>1, <1>3, Zenon DEF IsParsed, TakenFrom
<1>6. \A k \in 0 .. n : g[k] = IF k = 0 THEN <<>>
                               ELSE g[k - 1] \o TakenFrom(ifs, ifsLen, k)
  BY <1>5, Zenon
<1>7. 0 \in 0 .. n /\ \A k \in 1 .. n : k \in 0 .. n /\ k # 0
  OBVIOUS
<1>8. /\ g[0] = <<>>
      /\ \A k \in 1 .. n : g[k] = g[k - 1] \o TakenFrom(ifs, ifsLen, k)
  BY <1>6, <1>7, Zenon
<1> QED
  BY <1>1, <1>4, <1>8, Zenon DEF Walks

(* The walk takes pipes of the list only, and all of them when it does not *)
(* stop.                                                                   *)
LEMMA ParsedElems ==
  ASSUME NEW ifs \in Seq(Interfaces), NEW ifsLen
  PROVE  /\ ParsedPipes(ifs, ifsLen) \in Seq(PipeInfos)
         /\ Elems(ParsedPipes(ifs, ifsLen))
              \subseteq UNION {Elems(ifs[k].pipes) : k \in 1 .. Len(ifs)}
         /\ (\A k \in 1 .. Len(ifs) : ~Stops(ifs, ifsLen, k)) =>
              \A k \in 1 .. Len(ifs) :
                Elems(ifs[k].pipes) \subseteq Elems(ParsedPipes(ifs, ifsLen))
<1>1. PICK n \in Nat : n = Len(ifs)
  OBVIOUS
<1>2. PICK g : Walks(g, ifs, ifsLen) /\ ParsedPipes(ifs, ifsLen) = g[n]
  BY <1>1, ParsedWalks
<1>3. PICK P : P = PipeInfos
  OBVIOUS
<1>4. PICK all : all = UNION {Elems(ifs[k].pipes) : k \in 1 .. n}
  OBVIOUS
<1> DEFINE Full0(k) == \A a \in 1 .. k : Elems(ifs[a].pipes) \subseteq Elems(g[k])
           T == {k \in 0 .. n :
                   /\ g[k] \in Seq(P) /\ Elems(g[k]) \subseteq all
                   /\ (\A j \in 1 .. n : ~Stops(ifs, ifsLen, j)) => Full0(k)}
<1>5. 0 \in T
  <2>1. g[0] = <<>>
    BY <1>2 DEF Walks
  <2>2. <<>> \in Seq(P)
    OBVIOUS
  <2>3. Elems(g[0]) = {} /\ 1 .. 0 = {}
    BY <2>1 DEF Elems
  <2>4. g[0] \in Seq(P)
    BY <2>1, <2>2, Zenon
  <2> QED
    BY <2>3, <2>4
<1>6. ASSUME NEW k \in 0 .. n - 1, k \in T  PROVE k + 1 \in T
  <2>1. PICK m \in 1 .. n : m = k + 1 /\ m - 1 = k
    OBVIOUS
  <2>2. PICK s \in Seq(P) : s = g[k]
    BY <1>6
  <2>3. PICK t \in Seq(P) : t = TakenFrom(ifs, ifsLen, m)
    BY <1>1, <1>3, TakenPipes
  <2>4. g[m] = s \o t
    <3>1. g[m] = g[m - 1] \o TakenFrom(ifs, ifsLen, m)
      BY <1>1, <1>2, Zenon DEF Walks
    <3> QED
      BY <2>1, <2>2, <2>3, <3>1, Zenon
  <2>5. g[m] \in Seq(P) /\ Elems(g[m]) = Elems(s) \cup Elems(t)
    BY <2>4, ElemsConcat
  <2>6. Elems(t) = {} \/ t = ifs[m].pipes
    <3>1. Elems(<<>>) = {}
      BY DEF Elems
    <3>2. t = <<>> \/ t = ifs[m].pipes
      BY <2>3, Zenon DEF TakenFrom
    <3> QED
      BY <3>1, <3>2, Zenon
  <2>7. Elems(g[m]) \subseteq all
    BY <1>4, <1>6, <2>2, <2>5, <2>6
  <2>8. ASSUME \A j \in 1 .. n : ~Stops(ifs, ifsLen, j)  PROVE Full0(m)
    <3>1. \A j \in 1 .. m : ~Stops(ifs, ifsLen, j)
      BY <2>8
    <3>2. t = ifs[m].pipes
      BY <2>3, <3>1, Zenon DEF TakenFrom
    <3>3. Full0(k)
      BY <1>6, <2>8
    <3>4. ASSUME NEW a \in 1 .. m  PROVE Elems(ifs[a].pipes) \subseteq Elems(g[m])
      <4>1. CASE a = m
        BY <2>5, <3>2, <4>1
      <4>2. CASE a # m
        <5>1. a \in 1 .. k
          BY <2>1, <4>2
        <5>2. Elems(ifs[a].pipes) \subseteq Elems(s)
          BY <2>2, <3>3, <5>1
        <5> QED
          BY <2>5, <5>2
      <4> QED
        BY <4>1, <4>2
    <3> QED
      BY <3>4
  <2>9. m \in 0 .. n
    OBVIOUS
  <2>10. m \in T
    BY <2>5, <2>7, <2>8, <2>9
  <2> QED
    BY <2>1, <2>10
<1>7. 0 .. n \subseteq T
  <2> HIDE DEF T
  <2> QED
    BY <1>5, <1>6, UpTo
<1>8. n \in T
  <2>1. n \in 0 .. n
    OBVIOUS
  <2> QED
    BY <1>7, <2>1
<1> QED
  BY <1>1, <1>2, <1>3, <1>4, <1>8
-----------------------------------------------------------------------------
(* The endpoint table after a selection. *)

Entry(p) == [ep |-> p.ep, type |-> p.type, device |-> deviceAddress]

IsTable(g, ps, failed) ==
  g = [n \in 0 .. Len(ps) |->
         IF n = 0 THEN endpointTable
         ELSE IF ps[n].handle \in failed THEN g[n - 1]
         ELSE AddEndpointInfo(g[n - 1], ps[n])]

TableIsFunction == endpointTable = [h \in DOMAIN endpointTable |-> endpointTable[h]]

(* The table after each pipe of a selection is a function.                 *)
LEMMA TableExists ==
  ASSUME TableIsFunction, NEW P, NEW ps \in Seq(P), NEW failed
  PROVE  \E g : IsTable(g, ps, failed)
<1>1. PICK n \in Nat : n = Len(ps)
  OBVIOUS
<1>2. PICK D : D = DOMAIN endpointTable \cup {ps[m].handle : m \in 1 .. n}
  OBVIOUS
<1>3. PICK V : V = {endpointTable[h] : h \in DOMAIN endpointTable}
                     \cup {Entry(ps[m]) : m \in 1 .. n}
  OBVIOUS
<1>4. PICK S : S = UNION {[X -> V] : X \in SUBSET D}
  OBVIOUS
<1>5. endpointTable \in S
  <2>1. DOMAIN endpointTable \in SUBSET D
    BY <1>2
  <2>2. endpointTable \in [DOMAIN endpointTable -> V]
    BY <1>3 DEF TableIsFunction
  <2> QED
    BY <1>4, <2>1, <2>2
<1>6. ASSUME NEW t \in S, NEW m \in 1 .. n
      PROVE  AddEndpointInfo(t, ps[m]) \in S
  <2>1. PICK X \in SUBSET D : t \in [X -> V]
    BY <1>4
  <2>2. PICK h : h = ps[m].handle
    OBVIOUS
  <2>3. PICK Y : Y = X \cup {h}
    OBVIOUS
  <2>4. Y \in SUBSET D
    BY <1>2, <2>1, <2>2, <2>3
  <2>5. Entry(ps[m]) \in V
    BY <1>3
  <2>6. AddEndpointInfo(t, ps[m]) = [x \in Y |-> IF x = h THEN Entry(ps[m]) ELSE t[x]]
    BY <2>1, <2>2, <2>3 DEF AddEndpointInfo, Entry
  <2>7. AddEndpointInfo(t, ps[m]) \in [Y -> V]
    BY <2>1, <2>3, <2>5, <2>6
  <2> QED
    BY <1>4, <2>4, <2>7
<1>7. PICK step : step = [x \in S \X (1 .. n) |->
                            IF ps[x[2]].handle \in failed THEN x[1]
                            ELSE AddEndpointInfo(x[1], ps[x[2]])]
  OBVIOUS
<1>8. step \in [S \X (1 .. n) -> S]
  <2>1. ASSUME NEW x \in S \X (1 .. n)
        PROVE  (IF ps[x[2]].handle \in failed THEN x[1]
                ELSE AddEndpointInfo(x[1], ps[x[2]])) \in S
    <3>1. x[1] \in S /\ x[2] \in 1 .. n
      OBVIOUS
    <3>2. AddEndpointInfo(x[1], ps[x[2]]) \in S
      BY <1>6, <3>1
    <3> QED
      BY <3>1, <3>2
  <2> QED
    BY <1>7, <2>1
<1>9. PICK g \in [0 .. n -> S] : Recurs(g, n, endpointTable, step)
  BY <1>5, <1>8, Recursion
<1>10. ASSUME NEW k \in 0 .. n
       PROVE  g[k] = IF k = 0 THEN endpointTable
                     ELSE IF ps[k].handle \in failed THEN g[k - 1]
                     ELSE AddEndpointInfo(g[k - 1], ps[k])
  <2>1. CASE k = 0
    BY <1>9, <2>1, Zenon DEF Recurs
  <2>2. CASE k # 0
    <3>1. k \in 1 .. n
      BY <2>2
    <3>2. g[k] = step[<<g[k - 1], k>>]
      BY <1>9, <3>1, Zenon DEF Recurs
    <3>3. g[k - 1] \in S
      BY <3>1
    <3>4. <<g[k - 1], k>> \in S \X (1 .. n)
      BY <3>1, <3>3
    <3>5. step[<<g[k - 1], k>>] = IF ps[k].handle \in failed THEN g[k - 1]
                                  ELSE AddEndpointInfo(g[k - 1], ps[k])
      BY <1>7, <3>4
    <3> QED
      BY <2>2, <3>2, <3>5, Zenon
  <2> QED
    BY <2>1, <2>2
<1>11. g = [k \in 0 .. n |-> g[k]]
  BY <1>9
<1>12. IsTable(g, ps, failed)
  BY <1>1, <1>10, <1>11, Zenon DEF IsTable
<1> QED
  BY <1>12

(* The table t after the first n pipes of ps: what was there, and an entry *)
(* for every pipe that there was memory for.                               *)
Holds(t, ps, n, failed) ==
  /\ t = [h \in DOMAIN t |-> t[h]]
  /\ \A h : h \in DOMAIN t <=>
       \/ h \in DOMAIN endpointTable
       \/ h \notin failed /\ \E m \in 1 .. n : ps[m].handle = h
  /\ \A h \in DOMAIN t :
       \/ /\ h \in DOMAIN endpointTable /\ t[h] = endpointTable[h]
          /\ h \in failed \/ \A m \in 1 .. n : ps[m].handle # h
       \/ \E m \in 1 .. n : ps[m].handle = h /\ t[h] = Entry(ps[m])

(* One pipe more.                                                          *)
LEMMA HoldsMore ==
  ASSUME NEW ps, NEW n \in Nat, NEW failed, NEW t, Holds(t, ps, n, failed),
         NEW r, r = IF ps[n + 1].handle \in failed THEN t
                    ELSE AddEndpointInfo(t, ps[n + 1])
  PROVE  Holds(r, ps, n + 1, failed)
<1>1. PICK k \in 1 .. (n + 1) : k = n + 1
  OBVIOUS
<1>2. PICK h0 : h0 = ps[k].handle
  OBVIOUS
<1>3. \A m \in 1 .. n : m \in 1 .. (n + 1)
  OBVIOUS
<1>4. \A m \in 1 .. (n + 1) : m \in 1 .. n \/ m = k
  BY <1>1
<1>5. CASE h0 \in failed
  <2>1. r = t
    BY <1>1, <1>2, <1>5
  <2>2. ASSUME NEW h, h \notin failed
        PROVE  (\E m \in 1 .. n : ps[m].handle = h) <=> \E m \in 1 .. (n + 1) : ps[m].handle = h
    BY <1>2, <1>3, <1>4, <1>5, <2>2
  <2>3. ASSUME NEW h \in DOMAIN t
        PROVE  \/ /\ h \in DOMAIN endpointTable /\ t[h] = endpointTable[h]
                  /\ h \in failed \/ \A m \in 1 .. (n + 1) : ps[m].handle # h
               \/ \E m \in 1 .. (n + 1) : ps[m].handle = h /\ t[h] = Entry(ps[m])
    <3>1. \/ /\ h \in DOMAIN endpointTable /\ t[h] = endpointTable[h]
             /\ h \in failed \/ \A m \in 1 .. n : ps[m].handle # h
          \/ \E m \in 1 .. n : ps[m].handle = h /\ t[h] = Entry(ps[m])
      BY <2>3, Zenon DEF Holds
    <3> QED
      BY <1>2, <1>3, <1>4, <1>5, <3>1
  <2>4. \A h : h \in DOMAIN t <=>
          \/ h \in DOMAIN endpointTable
          \/ h \notin failed /\ \E m \in 1 .. (n + 1) : ps[m].handle = h
    <3>1. \A h : h \in DOMAIN t <=>
            \/ h \in DOMAIN endpointTable
            \/ h \notin failed /\ \E m \in 1 .. n : ps[m].handle = h
      BY Zenon DEF Holds
    <3> QED
      BY <2>2, <3>1, Zenon
  <2>5. t = [h \in DOMAIN t |-> t[h]]
    BY DEF Holds
  <2> QED
    <3>1. Holds(t, ps, n + 1, failed)
      BY <2>3, <2>4, <2>5, Zenon DEF Holds
    <3> QED
      BY <2>1, <3>1
<1>6. CASE h0 \notin failed
  <2>1. r = [h \in DOMAIN t \cup {h0} |-> IF h = h0 THEN Entry(ps[k]) ELSE t[h]]
    BY <1>1, <1>2, <1>6 DEF AddEndpointInfo, Entry
  <2>2. /\ DOMAIN r = DOMAIN t \cup {h0} /\ r[h0] = Entry(ps[k])
        /\ \A h \in DOMAIN t : h # h0 => r[h] = t[h]
        /\ r = [h \in DOMAIN r |-> r[h]]
    BY <2>1
  <2>3. \A h : h \in DOMAIN t <=>
          \/ h \in DOMAIN endpointTable
          \/ h \notin failed /\ \E m \in 1 .. n : ps[m].handle = h
    BY Zenon DEF Holds
  <2>4. \A h : h \in DOMAIN r <=>
          \/ h \in DOMAIN endpointTable
          \/ h \notin failed /\ \E m \in 1 .. (n + 1) : ps[m].handle = h
    BY <1>2, <1>3, <1>4, <1>6, <2>2, <2>3
  <2>5. ASSUME NEW h \in DOMAIN r
        PROVE  \/ /\ h \in DOMAIN endpointTable /\ r[h] = endpointTable[h]
                  /\ h \in failed \/ \A m \in 1 .. (n + 1) : ps[m].handle # h
               \/ \E m \in 1 .. (n + 1) : ps[m].handle = h /\ r[h] = Entry(ps[m])
    <3>1. CASE h = h0
      BY <1>2, <2>2, <3>1
    <3>2. CASE h # h0
      <4>1. h \in DOMAIN t /\ r[h] = t[h]
        BY <2>2, <2>5, <3>2
      <4>2. \/ /\ h \in DOMAIN endpointTable /\ t[h] = endpointTable[h]
               /\ h \in failed \/ \A m \in 1 .. n : ps[m].handle # h
            \/ \E m \in 1 .. n : ps[m].handle = h /\ t[h] = Entry(ps[m])
        BY <4>1, Zenon DEF Holds
      <4> QED
        BY <1>2, <1>3, <1>4, <3>2, <4>1, <4>2
    <3> QED
      BY <3>1, <3>2
  <2> QED
    BY <2>2, <2>4, <2>5, Zenon DEF Holds
<1> QED
  BY <1>5, <1>6

(* TableAfter holds the entries of the pipes that got one, and what it     *)
(* held before for all others.                                             *)
LEMMA TableHolds ==
  ASSUME TableIsFunction, NEW P, NEW ps \in Seq(P), NEW failed
  PROVE  Holds(TableAfter(ps, failed), ps, Len(ps), failed)
<1>1. PICK n \in Nat : n = Len(ps)
  OBVIOUS
<1>2. PICK g : g = CHOOSE f : IsTable(f, ps, failed)
  OBVIOUS
<1>3. IsTable(g, ps, failed)
  BY <1>2, TableExists
<1>4. TableAfter(ps, failed) = g[Len(ps)]
  BY <1>2, Zenon DEF TableAfter, IsTable
<1>5. \A k \in 0 .. n : g[k] = IF k = 0 THEN endpointTable
                               ELSE IF ps[k].handle \in failed THEN g[k - 1]
                               ELSE AddEndpointInfo(g[k - 1], ps[k])
  BY <1>1, <1>3, Zenon DEF IsTable
<1> DEFINE T == {k \in 0 .. n : Holds(g[k], ps, k, failed)}
<1>6. 0 \in T
  <2>1. 0 \in 0 .. n /\ 1 .. 0 = {}
    OBVIOUS
  <2>2. g[0] = endpointTable
    BY <1>5, <2>1
  <2>3. Holds(endpointTable, ps, 0, failed)
    BY <2>1 DEF Holds, TableIsFunction
  <2> QED
    BY <2>1, <2>2, <2>3
<1>7. ASSUME NEW k \in 0 .. n - 1, k \in T  PROVE k + 1 \in T
  <2>1. k + 1 \in 0 .. n /\ k + 1 # 0 /\ (k + 1) - 1 = k /\ k \in Nat
    OBVIOUS
  <2>2. PICK t, r : t = g[k] /\ r = g[k + 1]
    OBVIOUS
  <2>3. r = IF ps[k + 1].handle \in failed THEN t ELSE AddEndpointInfo(t, ps[k + 1])
    BY <1>5, <2>1, <2>2
  <2>4. Holds(t, ps, k, failed)
    BY <1>7, <2>2
  <2>5. Holds(r, ps, k + 1, failed)
    BY <2>1, <2>3, <2>4, HoldsMore
  <2> QED
    BY <2>1, <2>2, <2>5
<1>8. 0 .. n \subseteq T
  <2> HIDE DEF T
  <2> QED
    BY <1>6, <1>7, UpTo
<1>9. n \in T
  <2>1. n \in 0 .. n
    OBVIOUS
  <2> QED
    BY <1>8, <2>1
<1> QED
  BY <1>1, <1>4, <1>9
-----------------------------------------------------------------------------
(* What the USB stack leaves in a URB. *)

(* What every URB in flight is.                                            *)
Plain(u) ==
  /\ u.pipe \in Handles \cup {NoHandle} /\ u.in \in BOOLEAN
  /\ u.len \in Nat /\ u.type \in 0 .. 255 /\ u.iso \in Isos

(* What the stack writes in an isochronous URB.                            *)
LEMMA IsoFilledTyped ==
  ASSUME NEW u, u.iso \in Isos, NEW p \in IsoFilled(u)
  PROVE  p \in Isos
<1>1. PICK iso \in Isos : iso = u.iso
  OBVIOUS
<1>2. PICK c \in Nat : c = Len(iso) /\ DOMAIN iso = 1 .. c
  BY DEF Isos
<1>3. p \in {[k \in DOMAIN iso |-> [iso[k] EXCEPT !.length = n[k]]] :
               n \in [DOMAIN iso -> IsoLengths]}
  BY <1>1 DEF IsoFilled
<1>4. PICK n \in [1 .. c -> IsoLengths] :
        p = [k \in 1 .. c |-> [iso[k] EXCEPT !.length = n[k]]]
  BY <1>2, <1>3
<1>5. PICK S : S = [offset : Nat, length : Nat]
  OBVIOUS
<1>6. ASSUME NEW k \in 1 .. c  PROVE p[k] \in S
  <2>1. iso[k] = [offset |-> iso[k].offset, length |-> iso[k].length]
        /\ iso[k].offset \in Nat
    BY <1>2, IsoEntry
  <2>2. PICK off \in Nat, l \in Nat : off = iso[k].offset /\ l = n[k]
    BY <1>4, <2>1, URBAssumption
  <2>3. p[k] = [offset |-> off, length |-> l]
    BY <1>4, <2>1, <2>2
  <2> QED
    BY <1>5, <2>3
<1>7. p \in [1 .. c -> S]
  BY <1>4, <1>6
<1>8. p \in Seq(S)
  BY <1>7
<1> QED
  BY <1>5, <1>8 DEF Isos

(* What the stack leaves in a URB has the types that the analysis needs.   *)
LEMMA ResultsPlain ==
  ASSUME NEW u, IsUrb(u), NEW v \in Results(u)
  PROVE  Plain(v)
<1>0. DOMAIN u = UrbFields /\ Plain(u)
  BY DEF IsUrb, Plain, Isos
<1>1. PICK fn : fn = u.fn
  OBVIOUS
<1>2. CASE fn = "ISOCH_TRANSFER" /\ u.in
  <2>1. Results(u) = IsoReceived(u)
    BY <1>1, <1>2 DEF Results
  <2>2. PICK p \in IsoFilled(u) :
          v \in {[u EXCEPT !.iso = p, !.len = len] : len \in 0 .. u.len}
    BY <2>1, Zenon DEF IsoReceived
  <2>3. PICK len \in 0 .. u.len : v = [u EXCEPT !.iso = p, !.len = len]
    BY <2>2, Zenon
  <2>4. p \in Isos /\ len \in Nat
    BY <1>0, IsoFilledTyped DEF Plain
  <2> QED
    BY <1>0, <2>3, <2>4 DEF Plain, UrbFields
<1>3. CASE fn = "UNKNOWN"
  <2>1. v = u \/ v = [u EXCEPT !.fn = "CONTROL_TRANSFER", !.in = TRUE]
    BY <1>1, <1>3 DEF Results
  <2> QED
    BY <1>0, <2>1 DEF Plain, UrbFields
<1>4. CASE ~(fn = "ISOCH_TRANSFER" /\ u.in) /\ fn # "UNKNOWN"
  <2>1. v = u
    BY <1>1, <1>4 DEF Results
  <2> QED
    BY <1>0, <2>1
<1> QED
  BY <1>2, <1>3, <1>4

(* The USB stack leaves other URBs as they were, and the pipes alone.      *)
LEMMA BusOther ==
  ASSUME Shaped, NEW i \in Irps, BusCompletes(i), IsUrb(irp[i].urb),
         ~Selects(irp[i].urb)
  PROVE  UNCHANGED busPipe /\ Plain(irp'[i].urb)
<1>1. PICK v \in Results(irp[i].urb) :
        irp' = [irp EXCEPT ![i].at = "returned", ![i].urb = v]
  BY DEF BusCompletes
<1>2. UNCHANGED busPipe
  BY DEF BusCompletes
<1>3. irp'[i].urb = v
  BY <1>1 DEF Shaped, Shape, Fields
<1>4. Plain(v)
  BY ResultsPlain
<1> QED
  BY <1>2, <1>3, <1>4
-----------------------------------------------------------------------------
(* A selection that the USB stack completes. *)

PipeAt(u, k, j) == u.ifs[k].pipes[j]

(* The interfaces with the handles that the stack gave.                    *)
WithHandles(ifs, give) ==
  [k \in DOMAIN ifs |->
     [ifs[k] EXCEPT !.pipes =
        [j \in DOMAIN @ |-> [@[j] EXCEPT !.handle = give[<<k, j>>]]]]]

(* An entry of the pipes of an interface.                                  *)
LEMMA PipeEntry ==
  ASSUME NEW ps \in Seq(PipeInfos), NEW j \in 1 .. Len(ps)
  PROVE  /\ ps[j].ep \in 0 .. 255 /\ ps[j].handle \in Handles \cup {NoHandle}
         /\ ps[j].type \in {"control", "isochronous", "bulk", "interrupt"}
         /\ ps[j] = [ep |-> ps[j].ep, handle |-> ps[j].handle, type |-> ps[j].type]
<1>1. PICK S : S = PipeInfos
  OBVIOUS
<1>2. ps[j] \in S
  BY <1>1
<1>3. ps[j] \in PipeInfos
  BY <1>1, <1>2
<1> QED
  BY <1>3 DEF PipeInfos

(* The interfaces with the handles that the stack gave out.                *)
LEMMA WithHandlesFacts ==
  ASSUME NEW ifs \in Seq(Interfaces), NEW give, NEW w, w = WithHandles(ifs, give),
         \A k \in DOMAIN ifs : \A j \in DOMAIN ifs[k].pipes : give[<<k, j>>] \in Handles
  PROVE  /\ w \in Seq(Interfaces) /\ Len(w) = Len(ifs)
         /\ \A k \in DOMAIN ifs :
              /\ w[k].number = ifs[k].number /\ w[k].Length = ifs[k].Length
              /\ DOMAIN w[k].pipes = DOMAIN ifs[k].pipes
              /\ Len(w[k].pipes) = Len(ifs[k].pipes)
              /\ \A j \in DOMAIN ifs[k].pipes :
                   /\ w[k].pipes[j].handle = give[<<k, j>>]
                   /\ w[k].pipes[j].ep = ifs[k].pipes[j].ep
                   /\ w[k].pipes[j].type = ifs[k].pipes[j].type
<1>1. PICK n \in Nat : n = Len(ifs) /\ DOMAIN ifs = 1 .. n
  OBVIOUS
<1>2. ASSUME NEW k \in 1 .. n
      PROVE  /\ w[k] \in Interfaces
             /\ w[k].number = ifs[k].number /\ w[k].Length = ifs[k].Length
             /\ DOMAIN w[k].pipes = DOMAIN ifs[k].pipes
             /\ Len(w[k].pipes) = Len(ifs[k].pipes)
             /\ \A j \in DOMAIN ifs[k].pipes :
                  /\ w[k].pipes[j].handle = give[<<k, j>>]
                  /\ w[k].pipes[j].ep = ifs[k].pipes[j].ep
                  /\ w[k].pipes[j].type = ifs[k].pipes[j].type
  <2>1. PICK ps \in Seq(PipeInfos) : ps = ifs[k].pipes
    BY <1>1, InterfaceEntry
  <2>2. PICK num \in Nat, len \in Nat : num = ifs[k].number /\ len = ifs[k].Length
    BY <1>1, InterfaceEntry
  <2>3. ifs[k] = [number |-> num, Length |-> len, pipes |-> ps]
    BY <1>1, <2>1, <2>2, InterfaceEntry
  <2>4. PICK c \in Nat : c = Len(ps) /\ DOMAIN ps = 1 .. c
    OBVIOUS
  <2>5. PICK qs : qs = [j \in DOMAIN ps |-> [ps[j] EXCEPT !.handle = give[<<k, j>>]]]
    OBVIOUS
  <2>6. w[k] = [number |-> num, Length |-> len, pipes |-> qs]
    <3>1. w[k] = [ifs[k] EXCEPT !.pipes =
                    [j \in DOMAIN ifs[k].pipes |->
                       [ifs[k].pipes[j] EXCEPT !.handle = give[<<k, j>>]]]]
      BY <1>1, Zenon DEF WithHandles
    <3>2. w[k] = [ifs[k] EXCEPT !.pipes = qs]
      BY <2>1, <2>5, <3>1, Zenon
    <3> QED
      BY <2>3, <3>2
  <2>7. ASSUME NEW j \in 1 .. c
        PROVE  /\ qs[j] = [ep |-> ps[j].ep, handle |-> give[<<k, j>>], type |-> ps[j].type]
               /\ qs[j] \in PipeInfos
    <3>1. /\ ps[j].ep \in 0 .. 255
          /\ ps[j].type \in {"control", "isochronous", "bulk", "interrupt"}
          /\ ps[j] = [ep |-> ps[j].ep, handle |-> ps[j].handle, type |-> ps[j].type]
      BY <2>4, PipeEntry
    <3>2. give[<<k, j>>] \in Handles
      BY <1>1, <2>1, <2>4
    <3>3. qs[j] = [ep |-> ps[j].ep, handle |-> give[<<k, j>>], type |-> ps[j].type]
      BY <2>4, <2>5, <3>1
    <3> QED
      BY <3>1, <3>2, <3>3 DEF PipeInfos
  <2>8. qs \in Seq(PipeInfos) /\ Len(qs) = c /\ DOMAIN qs = 1 .. c
    <3>1. PICK S : S = PipeInfos
      OBVIOUS
    <3>2. qs \in [1 .. c -> S]
      BY <2>4, <2>5, <2>7, <3>1
    <3>3. qs \in Seq(S) /\ Len(qs) = c
      BY <3>2
    <3> QED
      BY <3>1, <3>2, <3>3
  <2>9. w[k] \in Interfaces
    BY <2>6, <2>8 DEF Interfaces
  <2>10. \A j \in DOMAIN ps : /\ qs[j].handle = give[<<k, j>>]
                             /\ qs[j].ep = ps[j].ep /\ qs[j].type = ps[j].type
    <3>1. SUFFICES ASSUME NEW j \in 1 .. c
                   PROVE  /\ qs[j].handle = give[<<k, j>>]
                          /\ qs[j].ep = ps[j].ep /\ qs[j].type = ps[j].type
      BY <2>4
    <3>2. PICK e, t, h : e = ps[j].ep /\ t = ps[j].type /\ h = give[<<k, j>>]
      OBVIOUS
    <3>3. qs[j] = [ep |-> e, handle |-> h, type |-> t]
      BY <2>7, <3>2
    <3>4. qs[j].handle = h /\ qs[j].ep = e /\ qs[j].type = t
      BY <3>3
    <3> QED
      BY <3>2, <3>4
  <2>11. w[k].pipes = qs /\ w[k].number = num /\ w[k].Length = len
    BY <2>6
  <2> QED
    BY <2>1, <2>2, <2>4, <2>8, <2>9, <2>10, <2>11
<1>3. w \in Seq(Interfaces) /\ Len(w) = n
  <2>1. PICK S : S = Interfaces
    OBVIOUS
  <2>2. w \in [1 .. n -> S]
    BY <1>1, <1>2, <2>1 DEF WithHandles
  <2>3. w \in Seq(S) /\ Len(w) = n
    BY <2>2
  <2> QED
    BY <2>1, <2>3
<1> QED
  BY <1>1, <1>2, <1>3

(* Handles do not change the lengths.                                      *)
LEMMA RoomKept ==
  ASSUME NEW ifs \in Seq(Interfaces), NEW w \in Seq(Interfaces), NEW ifsLen \in Nat,
         Len(w) = Len(ifs), Room(ifs, ifsLen),
         \A k \in DOMAIN ifs : /\ w[k].Length = ifs[k].Length
                               /\ Len(w[k].pipes) = Len(ifs[k].pipes)
  PROVE  Room(w, ifsLen)
<1>1. PICK n \in Nat : n = Len(ifs) /\ DOMAIN ifs = 1 .. n /\ DOMAIN w = 1 .. n
  OBVIOUS
<1>2. Taken(w) = Taken(ifs)
  BY <1>1 DEF Taken
<1>3. PICK s : /\ Sums(s, n, ifsLen, Taken(ifs))
               /\ \A k : Remaining(ifs, ifsLen, k) = s[k]
  BY <1>1, RemainingSums
<1>4. PICK t : /\ Sums(t, n, ifsLen, Taken(ifs))
               /\ \A k : Remaining(w, ifsLen, k) = t[k]
  BY <1>1, <1>2, RemainingSums
<1>5. s[n + 1] = t[n + 1]
  <2>1. n + 1 \in 1 .. (n + 1)
    OBVIOUS
  <2> QED
    BY <1>3, <1>4, <2>1, SumsSame
<1>6. Remaining(w, ifsLen, Len(w) + 1) = 0
  BY <1>1, <1>3, <1>4, <1>5 DEF Room
<1> QED
  BY <1>1, <1>6 DEF Room

(* The pipes that a completed selection opened are the ones its URB names, *)
(* and all open pipes that it covers are among them.                       *)
FreshIn(u, pipe) ==
  /\ u.ifs \in Seq(Interfaces) /\ u.ifsLen \in Nat
  /\ \A h \in Handles : pipe[h] # Closed /\ Covers(u, pipe[h].number) =>
       /\ Room(u.ifs, u.ifsLen)
       /\ \E k \in DOMAIN u.ifs : \E j \in DOMAIN u.ifs[k].pipes :
            u.ifs[k].pipes[j].handle = h
  /\ \A k \in DOMAIN u.ifs : \A j \in DOMAIN u.ifs[k].pipes :
       LET p == u.ifs[k].pipes[j] IN
       \/ p.handle = NoHandle
       \/ /\ p.handle \in Handles /\ Covers(u, pipe[p.handle].number)
          /\ pipe[p.handle] # Closed
          /\ pipe[p.handle].ep = p.ep /\ pipe[p.handle].type = p.type

Fresh(u) == FreshIn(u, busPipe)

(* The pipes of a selection under way, replaced.                           *)
Reopens(u) ==
  /\ busPipe' = [h \in Handles |-> busPipe'[h]]
  /\ \A h \in Handles : busPipe[h] # Closed /\ ~Covers(u, busPipe[h].number) =>
       busPipe'[h] = busPipe[h]
  /\ \A h \in Handles : busPipe'[h] # Closed =>
       \/ /\ busPipe[h] # Closed /\ ~Covers(u, busPipe[h].number)
          /\ busPipe'[h] = busPipe[h]
       \/ Covers(u, busPipe'[h].number)

StackKept(u) == {h \in Handles : busPipe[h] # Closed /\ ~Covers(u, busPipe[h].number)}

(* A selection that is not well-formed closes the pipes it covers.         *)
LEMMA SelectionFails ==
  ASSUME Shaped, NEW i \in Irps, irp[i].at = "bus", IsUrb(irp[i].urb),
         busPipe' = [h \in Handles |->
                       IF h \in StackKept(irp[i].urb) THEN busPipe[h] ELSE Closed],
         irp' = [irp EXCEPT ![i].at = "returned"]
  PROVE  /\ Plain(irp'[i].urb) /\ Reopens(irp[i].urb) /\ Fresh(irp[i].urb)'
<1>1. PICK u : u = irp[i].urb
  OBVIOUS
<1>2. irp'[i].urb = u
  BY <1>1 DEF Shaped, Shape, Fields
<1>3. IsUrb(u)
  BY <1>1
<1>4. Plain(u)
  BY <1>3 DEF IsUrb, Plain, Isos
<1>5. \A h \in Handles : busPipe'[h] = IF h \in StackKept(u) THEN busPipe[h] ELSE Closed
  BY <1>1
<1>6. \A h \in Handles : h \in StackKept(u) <=>
        busPipe[h] # Closed /\ ~Covers(u, busPipe[h].number)
  BY DEF StackKept
<1>7. Reopens(u)
  BY <1>1, <1>5, <1>6 DEF Reopens
<1>8. \A h \in Handles : busPipe'[h] # Closed => ~Covers(u, busPipe'[h].number)
  BY <1>5, <1>6
<1>9. /\ u.ifs \in Seq(Interfaces) /\ u.ifsLen \in Nat
      /\ \A k \in DOMAIN u.ifs : \A j \in DOMAIN u.ifs[k].pipes :
           u.ifs[k].pipes[j].handle = NoHandle
  BY <1>3 DEF IsUrb
<1>10. FreshIn(u, busPipe')
  BY <1>8, <1>9 DEF FreshIn
<1>11. Fresh(irp[i].urb)'
  BY <1>2, <1>10 DEF Fresh
<1> QED
  BY <1>1, <1>2, <1>4, <1>7, <1>11

(* The pipe that the selection u has at x = <<k, j>>, opened.              *)
Opened(u, x) == [number |-> u.ifs[x[1]].number, ep |-> u.ifs[x[1]].pipes[x[2]].ep,
                 type |-> u.ifs[x[1]].pipes[x[2]].type]

(* The pipe behind h after the stack gave the handles out.                 *)
PipeAfter(u, give, h) ==
  IF h \in StackKept(u) THEN busPipe[h]
  ELSE IF h \in Range(give) THEN Opened(u, CHOOSE x \in Pipes(u) : give[x] = h)
  ELSE Closed

(* The pipes of a selection, by interface and place.                       *)
LEMMA PipesPairs ==
  ASSUME NEW u
  PROVE  /\ \A k \in DOMAIN u.ifs : \A j \in DOMAIN u.ifs[k].pipes : <<k, j>> \in Pipes(u)
         /\ \A x \in Pipes(u) : /\ x = <<x[1], x[2]>>
                                /\ x[1] \in DOMAIN u.ifs
                                /\ x[2] \in DOMAIN u.ifs[x[1]].pipes
<1>1. ASSUME NEW x \in Pipes(u)
      PROVE  /\ x = <<x[1], x[2]>> /\ x[1] \in DOMAIN u.ifs
             /\ x[2] \in DOMAIN u.ifs[x[1]].pipes
  <2>1. PICK k \in DOMAIN u.ifs : x \in {<<k, j>> : j \in DOMAIN u.ifs[k].pipes}
    BY Zenon DEF Pipes
  <2>2. PICK j \in DOMAIN u.ifs[k].pipes : x = <<k, j>>
    BY <2>1
  <2> QED
    BY <2>2
<1>2. ASSUME NEW k \in DOMAIN u.ifs, NEW j \in DOMAIN u.ifs[k].pipes
      PROVE  <<k, j>> \in Pipes(u)
  <2>1. PICK S : S = {<<k, b>> : b \in DOMAIN u.ifs[k].pipes}
    OBVIOUS
  <2>2. <<k, j>> \in S
    BY <2>1
  <2>3. S \in {{<<a, b>> : b \in DOMAIN u.ifs[a].pipes} : a \in DOMAIN u.ifs}
    BY <2>1
  <2> QED
    BY <2>2, <2>3, Zenon DEF Pipes
<1> QED
  BY <1>1, <1>2

(* A well-formed selection opens all its pipes and writes their handles    *)
(* into the URB.                                                           *)
LEMMA SelectionOpens ==
  ASSUME Shaped, NEW i \in Irps, irp[i].at = "bus", IsUrb(irp[i].urb),
         Selects(irp[i].urb), WellFormed(irp[i].urb),
         NEW give \in Injection(Pipes(irp[i].urb), Handles \ StackKept(irp[i].urb)),
         busPipe' = [h \in Handles |-> PipeAfter(irp[i].urb, give, h)],
         irp' = [irp EXCEPT ![i].at = "returned",
                            ![i].urb.ifs = WithHandles(irp[i].urb.ifs, give)]
  PROVE  Plain(irp'[i].urb) /\ Reopens(irp[i].urb) /\ Fresh(irp[i].urb)'
<1>1. PICK u : u = irp[i].urb
  OBVIOUS
<1>2. PICK ifs, w, len : /\ ifs = u.ifs /\ w = WithHandles(ifs, give) /\ len = u.ifsLen
  OBVIOUS
<1>3. PICK v : v = irp'[i].urb
  OBVIOUS
<1>4. IsUrb(u) /\ DOMAIN u = UrbFields /\ Selects(u)
  BY <1>1 DEF IsUrb
<1>5. v = [u EXCEPT !.ifs = w]
  BY <1>1, <1>2, <1>3 DEF Shaped, Shape, Fields
<1>6. /\ v.ifs = w /\ v.fn = u.fn /\ v.number = u.number /\ v.ifsLen = len
      /\ v.pipe = u.pipe /\ v.in = u.in /\ v.len = u.len /\ v.type = u.type
      /\ v.iso = u.iso
  BY <1>2, <1>4, <1>5 DEF UrbFields
<1>7. Plain(v)
  BY <1>4, <1>6 DEF IsUrb, Plain, Isos
<1>8. ifs \in Seq(Interfaces) /\ len \in Nat
  BY <1>2, <1>4 DEF IsUrb
<1>9. /\ give \in [Pipes(u) -> Handles \ StackKept(u)]
      /\ \A x, y \in Pipes(u) : give[x] = give[y] => x = y
  BY <1>1 DEF Injection, IsInjective
<1>10. \A k \in DOMAIN ifs : \A j \in DOMAIN ifs[k].pipes :
         /\ <<k, j>> \in Pipes(u)
         /\ give[<<k, j>>] \in Handles /\ give[<<k, j>>] \notin StackKept(u)
  BY <1>2, <1>9, PipesPairs
<1>11. /\ w \in Seq(Interfaces) /\ Len(w) = Len(ifs)
       /\ \A k \in DOMAIN ifs :
            /\ w[k].number = ifs[k].number /\ w[k].Length = ifs[k].Length
            /\ DOMAIN w[k].pipes = DOMAIN ifs[k].pipes
            /\ Len(w[k].pipes) = Len(ifs[k].pipes)
            /\ \A j \in DOMAIN ifs[k].pipes :
                 /\ w[k].pipes[j].handle = give[<<k, j>>]
                 /\ w[k].pipes[j].ep = ifs[k].pipes[j].ep
                 /\ w[k].pipes[j].type = ifs[k].pipes[j].type
  BY <1>2, <1>8, <1>10, WithHandlesFacts, SMTT(30)
<1>12. DOMAIN w = DOMAIN ifs
  BY <1>8, <1>11
<1>13. Room(w, len)
  <2>1. Room(ifs, len)
    BY <1>1, <1>2 DEF WellFormed, Room
  <2> QED
    BY <1>8, <1>11, <2>1, RoomKept, SMTT(30)
<1>14. \A h \in Handles : busPipe'[h] = PipeAfter(u, give, h)
  BY <1>1
<1>15. ASSUME NEW k \in DOMAIN ifs, NEW n, n = ifs[k].number
       PROVE  Covers(u, n) /\ Covers(v, n)
  BY <1>2, <1>4, <1>6, <1>15 DEF IsUrb, Covers, Selects, SelectFns
<1>16. ASSUME NEW k \in DOMAIN ifs, NEW j \in DOMAIN ifs[k].pipes, NEW h, h = give[<<k, j>>]
       PROVE  /\ h \in Handles /\ h \notin StackKept(u)
              /\ busPipe'[h] # Closed
              /\ busPipe'[h].number = ifs[k].number
              /\ busPipe'[h].ep = ifs[k].pipes[j].ep
              /\ busPipe'[h].type = ifs[k].pipes[j].type
  <2>1. PICK x : x = <<k, j>>
    OBVIOUS
  <2>2. x \in Pipes(u) /\ h = give[x] /\ h \in Handles /\ h \notin StackKept(u)
    BY <1>10, <1>16, <2>1
  <2>3. h \in Range(give)
    BY <1>9, <2>2 DEF Range
  <2>4. (CHOOSE y \in Pipes(u) : give[y] = h) = x
    BY <1>9, <2>2
  <2>5. busPipe'[h] = Opened(u, x)
    BY <1>14, <2>2, <2>3, <2>4 DEF PipeAfter
  <2>6. x[1] = k /\ x[2] = j
    BY <2>1
  <2>7. Opened(u, x) = [number |-> ifs[k].number, ep |-> ifs[k].pipes[j].ep,
                        type |-> ifs[k].pipes[j].type]
    BY <1>2, <2>6, Zenon DEF Opened
  <2>8. ifs[k].pipes[j].type # "none"
    <3>0. k \in 1 .. Len(ifs)
      BY <1>8
    <3>1. PICK ps \in Seq(PipeInfos) : ps = ifs[k].pipes
      BY <1>8, <3>0, InterfaceEntry
    <3>2. j \in 1 .. Len(ps)
      BY <3>1
    <3>3. ps[j].type # "none"
      BY <3>2, PipeEntry
    <3> QED
      BY <3>1, <3>3
  <2>9. /\ busPipe'[h].number = ifs[k].number
        /\ busPipe'[h].ep = ifs[k].pipes[j].ep
        /\ busPipe'[h].type = ifs[k].pipes[j].type
    BY <2>5, <2>7
  <2>10. busPipe'[h] # Closed
    BY <2>8, <2>9 DEF Closed
  <2> QED
    BY <2>2, <2>9, <2>10
<1>17. ASSUME NEW h \in Handles, busPipe'[h] # Closed, h \notin StackKept(u)
       PROVE  \E k \in DOMAIN ifs : \E j \in DOMAIN ifs[k].pipes : give[<<k, j>>] = h
  <2>1. h \in Range(give)
    BY <1>14, <1>17 DEF PipeAfter
  <2>2. PICK x \in Pipes(u) : give[x] = h
    BY <1>9, <2>1 DEF Range
  <2>3. PICK k, j : k = x[1] /\ j = x[2]
    OBVIOUS
  <2>4. x = <<k, j>> /\ k \in DOMAIN ifs /\ j \in DOMAIN ifs[k].pipes
    BY <1>2, <2>3, PipesPairs
  <2> QED
    BY <2>2, <2>4
<1>18. \A h \in Handles : h \in StackKept(u) <=>
         busPipe[h] # Closed /\ ~Covers(u, busPipe[h].number)
  BY DEF StackKept
<1>19. \A h \in StackKept(u) : busPipe'[h] = busPipe[h]
  BY <1>14 DEF PipeAfter, StackKept
<1>20. Reopens(u)
  <2>1. ASSUME NEW h \in Handles, busPipe'[h] # Closed, h \notin StackKept(u)
        PROVE  Covers(u, busPipe'[h].number)
    <3>1. PICK k \in DOMAIN ifs : \E j \in DOMAIN ifs[k].pipes : give[<<k, j>>] = h
      BY <1>17, <2>1
    <3>2. PICK j \in DOMAIN ifs[k].pipes : h = give[<<k, j>>]
      BY <3>1
    <3>3. busPipe'[h].number = ifs[k].number
      BY <1>16, <3>2
    <3> QED
      BY <1>15, <3>3
  <2>2. busPipe' = [h \in Handles |-> busPipe'[h]]
    BY <1>14
  <2> QED
    BY <1>18, <1>19, <2>1, <2>2 DEF Reopens
<1>21. ASSUME NEW h \in Handles, busPipe'[h] # Closed, Covers(v, busPipe'[h].number)
       PROVE  \E k \in DOMAIN w : \E j \in DOMAIN w[k].pipes : w[k].pipes[j].handle = h
  <2>1. h \notin StackKept(u)
    BY <1>6, <1>18, <1>19, <1>21 DEF Covers
  <2>2. PICK k \in DOMAIN ifs : \E j \in DOMAIN ifs[k].pipes : give[<<k, j>>] = h
    BY <1>17, <1>21, <2>1
  <2>3. PICK j \in DOMAIN ifs[k].pipes : give[<<k, j>>] = h
    BY <2>2
  <2>4. k \in DOMAIN w /\ j \in DOMAIN w[k].pipes /\ w[k].pipes[j].handle = h
    BY <1>11, <1>12, <2>3
  <2> QED
    BY <2>4
<1>22. ASSUME NEW k \in DOMAIN w, NEW j \in DOMAIN w[k].pipes
       PROVE  LET h == w[k].pipes[j].handle IN
              /\ h \in Handles /\ Covers(v, busPipe'[h].number)
              /\ busPipe'[h] # Closed
              /\ busPipe'[h].ep = w[k].pipes[j].ep
              /\ busPipe'[h].type = w[k].pipes[j].type
  <2>1. PICK h : h = w[k].pipes[j].handle
    OBVIOUS
  <2>2. k \in DOMAIN ifs /\ j \in DOMAIN ifs[k].pipes /\ h = give[<<k, j>>]
    BY <1>11, <1>12, <2>1
  <2>3. /\ h \in Handles /\ busPipe'[h] # Closed
        /\ busPipe'[h].number = ifs[k].number
        /\ busPipe'[h].ep = ifs[k].pipes[j].ep
        /\ busPipe'[h].type = ifs[k].pipes[j].type
    BY <1>16, <2>2
  <2>4. Covers(v, busPipe'[h].number)
    BY <1>15, <2>2, <2>3
  <2> QED
    BY <1>11, <2>1, <2>2, <2>3, <2>4
<1>23. Fresh(irp[i].urb)'
  <2>1. /\ v.ifs \in Seq(Interfaces) /\ v.ifsLen \in Nat /\ Room(v.ifs, v.ifsLen)
    BY <1>6, <1>8, <1>11, <1>13
  <2>2. \A h \in Handles : busPipe'[h] # Closed /\ Covers(v, busPipe'[h].number) =>
          \E k \in DOMAIN v.ifs : \E j \in DOMAIN v.ifs[k].pipes :
            v.ifs[k].pipes[j].handle = h
    BY <1>6, <1>21, Zenon
  <2>3. \A k \in DOMAIN v.ifs : \A j \in DOMAIN v.ifs[k].pipes :
          LET h == v.ifs[k].pipes[j].handle IN
          /\ h \in Handles /\ Covers(v, busPipe'[h].number)
          /\ busPipe'[h] # Closed
          /\ busPipe'[h].ep = v.ifs[k].pipes[j].ep
          /\ busPipe'[h].type = v.ifs[k].pipes[j].type
    BY <1>6, <1>22, Zenon
  <2> QED
    <3>1. \A h \in Handles : busPipe'[h] # Closed /\ Covers(v, busPipe'[h].number) =>
            /\ Room(v.ifs, v.ifsLen)
            /\ \E k \in DOMAIN v.ifs : \E j \in DOMAIN v.ifs[k].pipes :
                 v.ifs[k].pipes[j].handle = h
      BY <2>1, <2>2, Zenon
    <3>2. \A k \in DOMAIN v.ifs : \A j \in DOMAIN v.ifs[k].pipes :
            LET p == v.ifs[k].pipes[j] IN
            \/ p.handle = NoHandle
            \/ /\ p.handle \in Handles /\ Covers(v, busPipe'[p.handle].number)
               /\ busPipe'[p.handle] # Closed
               /\ busPipe'[p.handle].ep = p.ep /\ busPipe'[p.handle].type = p.type
      BY <2>3, Zenon
    <3> QED
      <4>1. FreshIn(v, busPipe')
        BY <2>1, <3>1, <3>2, Zenon DEF FreshIn
      <4> QED
        BY <1>3, <4>1 DEF Fresh
<1> QED
  BY <1>1, <1>3, <1>7, <1>20, <1>23

(* Either way the pipes that it does not cover stay, and what it opened is *)
(* in the URB.                                                             *)
LEMMA BusSelection ==
  ASSUME Shaped, NEW i \in Irps, BusCompletes(i), IsUrb(irp[i].urb),
         Selects(irp[i].urb)
  PROVE  Plain(irp'[i].urb) /\ Reopens(irp[i].urb) /\ Fresh(irp[i].urb)'
<1>1. irp[i].at = "bus" /\ SelectionDone(i)
  BY DEF BusCompletes
<1> DEFINE u == irp[i].urb
<1>2. CASE ~WellFormed(u)
  <2>1. /\ busPipe' = [h \in Handles |-> IF h \in StackKept(u) THEN busPipe[h] ELSE Closed]
        /\ irp' = [irp EXCEPT ![i].at = "returned"]
    BY <1>1, <1>2 DEF SelectionDone, StackKept
  <2> QED
    BY <1>1, <2>1, SelectionFails
<1>3. CASE WellFormed(u)
  <2> DEFINE opened(give, h) == CHOOSE x \in Pipes(u) : give[x] = h
  <2>1. PICK give \in Injection(Pipes(u), Handles \ StackKept(u)) :
          /\ busPipe' =
               [h \in Handles |->
                  IF h \in StackKept(u) THEN busPipe[h]
                  ELSE IF h \in Range(give)
                       THEN [number |-> u.ifs[opened(give, h)[1]].number,
                             ep |-> u.ifs[opened(give, h)[1]].pipes[opened(give, h)[2]].ep,
                             type |-> u.ifs[opened(give, h)[1]].pipes[opened(give, h)[2]].type]
                       ELSE Closed]
          /\ irp' = [irp EXCEPT ![i].at = "returned",
                                ![i].urb.ifs = WithHandles(u.ifs, give)]
    BY <1>1, <1>3, Zenon DEF SelectionDone, StackKept, WithHandles
  <2>2. busPipe' = [h \in Handles |-> PipeAfter(u, give, h)]
    BY <2>1, Zenon DEF PipeAfter, Opened
  <2> QED
    BY <1>1, <1>3, <2>1, <2>2, SelectionOpens
<1> QED
  BY <1>2, <1>3
-----------------------------------------------------------------------------
(* The endpoint table after a selection. *)

Known(h) ==
  \/ h \in lost
  \/ /\ h \in DOMAIN endpointTable
     /\ endpointTable[h].ep = busPipe[h].ep
     /\ endpointTable[h].type = busPipe[h].type
     /\ endpointTable[h].device = deviceAddress \/ h \in early

(* The table is a function on the handles it was given, and no handle that *)
(* it had no memory for is in it.                                          *)
TableInv ==
  /\ TableIsFunction
  /\ DOMAIN endpointTable \subseteq Handles \cup {NoHandle}
  /\ lost \subseteq Handles /\ lost \cap DOMAIN endpointTable = {}
  /\ early \subseteq DOMAIN endpointTable

(* The pipes ps that the walk takes have no handle, or the one that the    *)
(* stack opened them with, and every open pipe that u covers is there.     *)
Finds(u, ps) ==
  /\ ps \in Seq(PipeInfos)
  /\ \A m \in 1 .. Len(ps) :
       \/ ps[m].handle = NoHandle
       \/ /\ ps[m].handle \in Handles
          /\ Covers(u, busPipe[ps[m].handle].number)
          /\ busPipe[ps[m].handle].ep = ps[m].ep
          /\ busPipe[ps[m].handle].type = ps[m].type
  /\ \A h \in Handles : busPipe[h] # Closed /\ Covers(u, busPipe[h].number) =>
       \E m \in 1 .. Len(ps) : ps[m].handle = h

(* The walk through a completed selection finds the pipes it opened.       *)
LEMMA ParsedFresh ==
  ASSUME NEW u, Fresh(u), NEW ps, ps = ParsedPipes(u.ifs, u.ifsLen)
  PROVE  Finds(u, ps)
<1>1. PICK ifs \in Seq(Interfaces), len \in Nat : ifs = u.ifs /\ len = u.ifsLen
  BY DEF Fresh, FreshIn
<1>2. PICK n \in Nat : n = Len(ifs) /\ DOMAIN ifs = 1 .. n
  OBVIOUS
<1>3. /\ ps \in Seq(PipeInfos)
      /\ Elems(ps) \subseteq UNION {Elems(ifs[k].pipes) : k \in 1 .. n}
      /\ (\A k \in 1 .. n : ~Stops(ifs, len, k)) =>
           \A k \in 1 .. n : Elems(ifs[k].pipes) \subseteq Elems(ps)
  BY <1>1, <1>2, ParsedElems
<1>4. /\ \A h \in Handles : busPipe[h] # Closed /\ Covers(u, busPipe[h].number) =>
           /\ Room(ifs, len)
           /\ \E k \in DOMAIN ifs : \E j \in DOMAIN ifs[k].pipes : ifs[k].pipes[j].handle = h
      /\ \A k \in DOMAIN ifs : \A j \in DOMAIN ifs[k].pipes :
           LET p == ifs[k].pipes[j] IN
           \/ p.handle = NoHandle
           \/ /\ p.handle \in Handles /\ Covers(u, busPipe[p.handle].number)
              /\ busPipe[p.handle] # Closed
              /\ busPipe[p.handle].ep = p.ep /\ busPipe[p.handle].type = p.type
  BY <1>1, ZenonT(60) DEF Fresh, FreshIn
<1>5. \A k \in 1 .. n : DOMAIN ifs[k].pipes = 1 .. Len(ifs[k].pipes)
  <2>1. SUFFICES ASSUME NEW k \in 1 .. n  PROVE DOMAIN ifs[k].pipes = 1 .. Len(ifs[k].pipes)
    OBVIOUS
  <2>2. PICK qs \in Seq(PipeInfos) : qs = ifs[k].pipes
    BY <1>2, InterfaceEntry
  <2> QED
    BY <2>2
<1>6. ASSUME NEW m \in 1 .. Len(ps)
      PROVE  \/ ps[m].handle = NoHandle
             \/ /\ ps[m].handle \in Handles
                /\ Covers(u, busPipe[ps[m].handle].number)
                /\ busPipe[ps[m].handle].ep = ps[m].ep
                /\ busPipe[ps[m].handle].type = ps[m].type
  <2>1. ps[m] \in Elems(ps)
    BY DEF Elems
  <2>2. PICK k \in 1 .. n : ps[m] \in Elems(ifs[k].pipes)
    BY <1>3, <2>1
  <2>3. PICK j \in 1 .. Len(ifs[k].pipes) : ps[m] = ifs[k].pipes[j]
    BY <2>2 DEF Elems
  <2>4. k \in DOMAIN ifs /\ j \in DOMAIN ifs[k].pipes
    BY <1>2, <1>5, <2>3
  <2> QED
    BY <1>4, <2>3, <2>4, SMTT(30)
<1>7. ASSUME NEW h \in Handles, busPipe[h] # Closed, Covers(u, busPipe[h].number)
      PROVE  \E m \in 1 .. Len(ps) : ps[m].handle = h
  <2>1. Room(ifs, len)
    BY <1>4, <1>7
  <2>2. \A k \in 1 .. n : ~Stops(ifs, len, k)
    BY <1>2, <2>1, NeverStops
  <2>3. PICK k \in DOMAIN ifs : \E j \in DOMAIN ifs[k].pipes : ifs[k].pipes[j].handle = h
    BY <1>4, <1>7
  <2>4. PICK j \in DOMAIN ifs[k].pipes : ifs[k].pipes[j].handle = h
    BY <2>3
  <2>5. k \in 1 .. n /\ j \in 1 .. Len(ifs[k].pipes)
    BY <1>2, <1>5
  <2>6. ifs[k].pipes[j] \in Elems(ifs[k].pipes)
    BY <2>5 DEF Elems
  <2>7. ifs[k].pipes[j] \in Elems(ps)
    BY <1>3, <2>2, <2>5, <2>6
  <2>8. PICK m \in 1 .. Len(ps) : ps[m] = ifs[k].pipes[j]
    BY <2>7 DEF Elems
  <2> QED
    BY <2>4, <2>8
<1> QED
  BY <1>3, <1>6, <1>7, Zenon DEF Finds

(* A completed selection brings the table up to date for the pipes that it *)
(* opened and leaves the entries of all others alone.                      *)
LEMMA SelectionAnalyzed ==
  ASSUME TableInv, NEW u, Fresh(u), Selects(u), AlwaysAnalyzed(u),
         UNCHANGED <<deviceAddress, busPipe>>
  PROVE  /\ TableInv'
         /\ \A h \in Handles : busPipe[h] # Closed /\ Covers(u, busPipe[h].number) =>
              Known(h)'
         /\ \A h \in Handles : ~Covers(u, busPipe[h].number) =>
              /\ h \in lost' <=> h \in lost
              /\ h \in early' <=> h \in early
              /\ h \in DOMAIN endpointTable' <=> h \in DOMAIN endpointTable
              /\ h \in DOMAIN endpointTable => endpointTable'[h] = endpointTable[h]
<1>1. PICK ps : ps = ParsedPipes(u.ifs, u.ifsLen)
  OBVIOUS
<1>2. /\ ps \in Seq(PipeInfos)
      /\ \A m \in 1 .. Len(ps) :
           \/ ps[m].handle = NoHandle
           \/ /\ ps[m].handle \in Handles
              /\ Covers(u, busPipe[ps[m].handle].number)
              /\ busPipe[ps[m].handle].ep = ps[m].ep
              /\ busPipe[ps[m].handle].type = ps[m].type
      /\ \A h \in Handles : busPipe[h] # Closed /\ Covers(u, busPipe[h].number) =>
           \E m \in 1 .. Len(ps) : ps[m].handle = h
  <2>1. Finds(u, ps)
    BY <1>1, ParsedFresh
  <2> QED
    BY <2>1, Zenon DEF Finds
<1>3. PICK c \in Nat : c = Len(ps) /\ DOMAIN ps = 1 .. c
  BY <1>2
<1>4. PICK given : given = {ps[m].handle : m \in 1 .. c}
  OBVIOUS
<1>5. PICK failed \in SUBSET (given \ DOMAIN endpointTable) :
        /\ endpointTable' = TableAfter(ps, failed)
        /\ lost' = (lost \ given) \cup (failed \ {NoHandle})
        /\ early' = early \ given
  BY <1>1, <1>3, <1>4 DEF AlwaysAnalyzed
<1>6. Holds(TableAfter(ps, failed), ps, c, failed)
  BY <1>2, <1>3, TableHolds DEF TableInv
<1>7. /\ endpointTable' = [h \in DOMAIN endpointTable' |-> endpointTable'[h]]
      /\ \A h : h \in DOMAIN endpointTable' <=>
           \/ h \in DOMAIN endpointTable
           \/ h \notin failed /\ \E m \in 1 .. c : ps[m].handle = h
      /\ \A h \in DOMAIN endpointTable' :
           \/ /\ h \in DOMAIN endpointTable /\ endpointTable'[h] = endpointTable[h]
              /\ h \in failed \/ \A m \in 1 .. c : ps[m].handle # h
           \/ \E m \in 1 .. c : ps[m].handle = h /\ endpointTable'[h] = Entry(ps[m])
  BY <1>5, <1>6, Zenon DEF Holds
<1>8. \A h : h \in given <=> \E m \in 1 .. c : ps[m].handle = h
  BY <1>4
<1>9. \A h \in given : h = NoHandle \/ (h \in Handles /\ Covers(u, busPipe[h].number))
  BY <1>2, <1>3, <1>4
<1>10. DOMAIN endpointTable' \subseteq Handles \cup {NoHandle}
  BY <1>7, <1>8, <1>9 DEF TableInv
<1>11. lost' \subseteq Handles
  BY <1>5, <1>9 DEF TableInv
<1>12. lost' \cap DOMAIN endpointTable' = {}
  BY <1>5, <1>7, <1>8 DEF TableInv
<1>13. TableIsFunction'
  BY <1>7 DEF TableIsFunction
<1>17. early' \subseteq DOMAIN endpointTable'
  BY <1>5, <1>7 DEF TableInv
<1>14. TableInv'
  BY <1>10, <1>11, <1>12, <1>13, <1>17 DEF TableInv
<1>15. ASSUME NEW h \in Handles, busPipe[h] # Closed, Covers(u, busPipe[h].number)
       PROVE  Known(h)'
  <2>0. h # NoHandle
    BY URBAssumption
  <2>1. h \in given
    BY <1>2, <1>3, <1>8, <1>15
  <2>2. CASE h \in failed
    BY <1>5, <2>0, <2>2 DEF Known
  <2>3. CASE h \notin failed
    <3>1. h \in DOMAIN endpointTable'
      BY <1>7, <1>8, <2>1, <2>3
    <3>2. PICK m \in 1 .. c : ps[m].handle = h /\ endpointTable'[h] = Entry(ps[m])
      BY <1>7, <1>8, <2>1, <2>3, <3>1
    <3>3. busPipe[h].ep = ps[m].ep /\ busPipe[h].type = ps[m].type
      BY <1>2, <1>3, <2>0, <3>2
    <3>4. /\ endpointTable'[h].ep = busPipe[h].ep
          /\ endpointTable'[h].type = busPipe[h].type
          /\ endpointTable'[h].device = deviceAddress
      BY <3>2, <3>3 DEF Entry
    <3> QED
      BY <3>1, <3>4 DEF Known
  <2> QED
    BY <2>2, <2>3
<1>16. ASSUME NEW h \in Handles, ~Covers(u, busPipe[h].number)
       PROVE  /\ h \in lost' <=> h \in lost
              /\ h \in early' <=> h \in early
              /\ h \in DOMAIN endpointTable' <=> h \in DOMAIN endpointTable
              /\ h \in DOMAIN endpointTable => endpointTable'[h] = endpointTable[h]
  <2>0. h # NoHandle
    BY URBAssumption
  <2>1. h \notin given
    BY <1>9, <1>16, <2>0
  <2>2. h \notin failed
    BY <2>1
  <2> QED
    BY <1>5, <1>7, <1>8, <2>1, <2>2
<1> QED
  BY <1>14, <1>15, <1>16
-----------------------------------------------------------------------------
(* The invariant of the pipes, step by step. *)

BULK == "BULK_OR_INTERRUPT_TRANSFER"

(* The URBs in flight are what the function driver made them, until the    *)
(* stack completes them, and a bulk transfer went down as one.             *)
FlightOf(i) ==
  /\ irp[i].at \in {"submitting", "bus"} => irp[i].urb \in Urbs[i]
  /\ irp[i].at # "free" =>
       /\ Plain(irp[i].urb)
       /\ irp[i].fn \notin KnownFns => irp[i].urb.fn # BULK
       /\ irp[i].urb.fn = BULK => irp[i].urb.pipe # NoHandle
  /\ irp[i].at = "unknown" => irp[i].fn \notin KnownFns

(* A pipe is pending while the selection that covers it is not analyzed.   *)
Under == {"submitting", "bus", "returned"}
Pending(n) == \E i \in Irps : irp[i].at \in Under /\ Covers(irp[i].urb, n)

KnownInv ==
  \A h \in Handles : busPipe[h] # Closed /\ ~Pending(busPipe[h].number) => Known(h)

(* The pipe that an IRP uses stays open: no selection in flight covers it. *)
PinnedAt(h) ==
  /\ busPipe[h] # Closed
  /\ \A j \in Irps : irp[j].at # "free" => ~Covers(irp[j].urb, busPipe[h].number)

PinnedInv ==
  \A i \in Irps : irp[i].at # "free" /\ irp[i].urb.pipe # NoHandle =>
    PinnedAt(irp[i].urb.pipe)

FreshInv ==
  \A i \in Irps : irp[i].at = "returned" /\ Selects(irp[i].urb) => Fresh(irp[i].urb)

OffInv == start.at = "stopped" => \A h \in Handles : busPipe[h] = Closed

FlightInv == \A i \in Irps : FlightOf(i)

PipeInv == /\ FlightInv /\ TableInv /\ OffInv /\ KnownInv /\ PinnedInv /\ FreshInv

(* The IRP i goes on and keeps its URB.                                    *)
Moves(i, at) ==
  /\ \A j \in Irps : j # i => irp'[j] = irp[j]
  /\ irp'[i].at = at /\ irp'[i].urb = irp[i].urb /\ irp'[i].fn = irp[i].fn

LEMMA MovesSubmit ==
  ASSUME Shaped, NEW i \in Irps, AnalyzeSubmit(i)
  PROVE  irp[i].at = "submitting" /\ Moves(i, "bus")
BY AnalyzeSubmitStep DEF Moves, Writes, Step

LEMMA MovesUnknown ==
  ASSUME Shaped, NEW i \in Irps, LogUnknownSubmit(i)
  PROVE  irp[i].at = "unknown" /\ Moves(i, "completing")
BY LogUnknownStep DEF Moves, Writes, Step

LEMMA MovesComplete ==
  ASSUME Shaped, NEW i \in Irps, LogComplete(i)
  PROVE  irp[i].at = "completing" /\ Moves(i, "done")
BY LogCompleteStep DEF Moves, Writes, Step

LEMMA MovesAnalyze ==
  ASSUME Shaped, NEW i \in Irps, AnalyzeComplete(i)
  PROVE  /\ irp[i].at = "returned"
         /\ \E at \in {"done", "unknown", "completing"} :
              /\ Moves(i, at)
              /\ at = "unknown" => i \in DOMAIN URBIrpTable
<1>1. PICK at : /\ at = IF ~Filtered THEN "done"
                        ELSE IF i \in DOMAIN URBIrpTable THEN "unknown" ELSE "completing"
                /\ Step(i, at, irp[i].urb, irp[i].logged, irp[i].dropped)
  BY AnalyzeCompleteStep
<1>2. Moves(i, at)
  BY <1>1 DEF Moves, Step
<1> QED
  BY <1>1, <1>2, AnalyzeCompleteStep

(* A step that leaves the pipes and the table alone and moves no IRP into  *)
(* the analysis of its completion or out of it.                            *)
LEMMA MovesPipe ==
  ASSUME UrbInv, PipeInv, NEW i \in Irps, NEW at, Moves(i, at),
         \/ irp[i].at = "submitting" /\ at = "bus"
         \/ irp[i].at = "unknown" /\ at = "completing"
         \/ irp[i].at = "completing" /\ at = "done",
         UNCHANGED <<deviceAddress, endpointTable, lost, early, busPipe, start>>
  PROVE  PipeInv'
<1>1. /\ \A j \in Irps : j # i => irp'[j] = irp[j]
      /\ irp'[i].at = at /\ irp'[i].urb = irp[i].urb /\ irp'[i].fn = irp[i].fn
  BY DEF Moves
<1>2. \A j \in Irps : /\ irp'[j].urb = irp[j].urb
                      /\ irp'[j].at \in Under <=> irp[j].at \in Under
                      /\ irp'[j].at = "free" <=> irp[j].at = "free"
                      /\ irp'[j].at = "returned" <=> irp[j].at = "returned"
  BY <1>1 DEF Under
<1>3. FlightInv'
  BY <1>1 DEF PipeInv, FlightInv, FlightOf
<1>4. TableInv' /\ OffInv'
  BY DEF PipeInv, TableInv, TableIsFunction, OffInv
<1>5. \A n : Pending(n)' <=> Pending(n)
  BY <1>2 DEF Pending
<1>6. KnownInv'
  BY <1>5 DEF PipeInv, KnownInv, Known
<1>7. PinnedInv'
  BY <1>2 DEF PipeInv, PinnedInv, PinnedAt
<1>8. FreshInv'
  BY <1>2 DEF PipeInv, FreshInv, Fresh
<1> QED
  BY <1>3, <1>4, <1>6, <1>7, <1>8 DEF PipeInv

(* The steps that leave the IRPs alone.                                    *)
LEMMA ApartPipe ==
  ASSUME UrbInv, PipeInv, Apart
  PROVE  PipeInv'
<1>1. UNCHANGED irp
  BY ApartLeaves
<1>2. UNCHANGED <<endpointTable, lost, early>>
  BY DEF Apart, SetUpBuffer, CleanupBuffer, StopDevice, StartDevice, Asks,
         GetDeviceUSBInfo, device, history, vars
<1>3. FlightInv' /\ TableInv'
  BY <1>1, <1>2 DEF PipeInv, FlightInv, FlightOf, TableInv, TableIsFunction
<1>4. CASE \/ SetUpBuffer \/ CleanupBuffer \/ UNCHANGED vars
           \/ \E success \in BOOLEAN : Asks(success)
  <2>1. UNCHANGED <<deviceAddress, busPipe>>
    BY <1>4 DEF SetUpBuffer, CleanupBuffer, Asks, GetDeviceUSBInfo, device, bus, vars
  <2>2. UNCHANGED start \/ start'.at # "stopped"
    BY <1>4 DEF SetUpBuffer, CleanupBuffer, Asks, GetDeviceUSBInfo, vars
  <2>3. OffInv' /\ KnownInv' /\ PinnedInv' /\ FreshInv'
    BY <1>1, <1>2, <2>1, <2>2 DEF PipeInv, OffInv, KnownInv, Known, Pending, PinnedInv,
                            PinnedAt, FreshInv, Fresh
  <2> QED
    BY <1>3, <2>3 DEF PipeInv
<1>5. CASE StopDevice \/ \E a \in Addresses : StartDevice(a)
  <2>1. InFlight = {}
    BY <1>5 DEF UrbInv, AtRest, StopDevice, StartDevice
  <2>2. \A i \in Irps : irp'[i].at = "free"
    BY <1>1, <2>1 DEF InFlight
  <2>3. \A h \in Handles : busPipe'[h] = Closed
    BY <1>5 DEF PipeInv, OffInv, StopDevice, StartDevice
  <2>4. OffInv' /\ KnownInv' /\ PinnedInv' /\ FreshInv'
    BY <2>2, <2>3 DEF OffInv, KnownInv, PinnedInv, FreshInv
  <2> QED
    BY <1>3, <2>4 DEF PipeInv
<1> QED
  BY <1>4, <1>5 DEF Apart

(* The filter has nothing to do with the pipes, and a new address makes    *)
(* every entry that is there early.                                        *)
LEMMA ReplacePipe ==
  ASSUME UrbInv, PipeInv, irp' = NoneWhole, UNCHANGED <<endpointTable, lost, busPipe>>,
         UNCHANGED start \/ start'.at # "stopped",
         UNCHANGED <<deviceAddress, early>> \/ early' = DOMAIN endpointTable
  PROVE  PipeInv'
<1>1. \A j \in Irps : /\ irp'[j].at = irp[j].at /\ irp'[j].urb = irp[j].urb
                      /\ irp'[j].fn = irp[j].fn
  BY ReplaceStep DEF UrbInv, Replaces
<1>3. FlightInv' /\ TableInv' /\ OffInv'
  BY <1>1 DEF PipeInv, FlightInv, FlightOf, TableInv, TableIsFunction, OffInv
<1>4. \A n : Pending(n)' <=> Pending(n)
  BY <1>1 DEF Pending
<1>5. KnownInv'
  BY <1>4 DEF PipeInv, KnownInv, Known
<1>6. PinnedInv' /\ FreshInv'
  BY <1>1 DEF PipeInv, PinnedInv, PinnedAt, FreshInv, Fresh
<1> QED
  BY <1>3, <1>5, <1>6 DEF PipeInv

(* An IRP that is done leaves.                                             *)
LEMMA ReturnPipe ==
  ASSUME UrbInv, PipeInv, NEW i \in Irps, Return(i)
  PROVE  PipeInv'
<1>1. /\ \A j \in Irps : j # i => irp'[j] = irp[j]
      /\ irp'[i].at = "free" /\ irp[i].at = "done"
  BY ReturnStep DEF UrbInv
<1>2. UNCHANGED <<deviceAddress, endpointTable, lost, early, busPipe, start>>
  BY DEF Return, device, bus, history
<1>3. FlightInv' /\ TableInv' /\ OffInv'
  BY <1>1, <1>2 DEF PipeInv, FlightInv, FlightOf, TableInv, TableIsFunction, OffInv
<1>4. \A n : Pending(n)' <=> Pending(n)
  BY <1>1 DEF Pending, Under
<1>5. KnownInv'
  BY <1>2, <1>4 DEF PipeInv, KnownInv, Known
<1>6. PinnedInv' /\ FreshInv'
  BY <1>1, <1>2 DEF PipeInv, PinnedInv, PinnedAt, FreshInv, Fresh
<1> QED
  BY <1>3, <1>5, <1>6 DEF PipeInv

(* MaySend: a pipe in use is open and no selection in flight covers it.    *)
LEMMA SubmitPipe ==
  ASSUME UrbInv, PipeInv, NEW i \in Irps, NEW u \in Urbs[i], Submit(i, u)
  PROVE  PipeInv'
<1>1. /\ \A j \in Irps : j # i => irp'[j] = irp[j]
      /\ irp[i].at = "free" /\ irp'[i].at \in {"submitting", "bus"}
      /\ irp'[i].urb = u /\ irp'[i].fn = u.fn
      /\ MaySend(u)
  BY SubmitStep DEF UrbInv
<1>2. UNCHANGED <<deviceAddress, endpointTable, lost, early, busPipe, start>>
  BY DEF Submit, device, bus, history
<1>3. IsUrb(u)
  BY URBAssumption
<1>4. FlightOf(i)'
  <2>1. Plain(u) /\ (u.fn = BULK => u.pipe # NoHandle)
    BY <1>3 DEF IsUrb, Plain, Isos, BULK
  <2>2. u.fn \notin KnownFns => u.fn # BULK
    BY DEF KnownFns, BULK
  <2> QED
    BY <1>1, <2>1, <2>2 DEF FlightOf, Plain
<1>5. FlightInv'
  BY <1>1, <1>4 DEF PipeInv, FlightInv, FlightOf
<1>6. TableInv' /\ OffInv'
  BY <1>2 DEF PipeInv, TableInv, TableIsFunction, OffInv
<1>7. \A n : Pending(n) => Pending(n)'
  BY <1>1 DEF Pending, Under
<1>8. KnownInv'
  BY <1>2, <1>7 DEF PipeInv, KnownInv, Known
<1>9. FreshInv'
  BY <1>1, <1>2 DEF PipeInv, FreshInv, Fresh
<1>10. ASSUME NEW j \in Irps, irp'[j].at # "free", irp'[j].urb.pipe # NoHandle
       PROVE  PinnedAt(irp[j].urb.pipe)'
  <2>1. PICK h, n : h = irp'[j].urb.pipe /\ n = busPipe[h].number
    OBVIOUS
  <2>2. ASSUME NEW k \in Irps, irp'[k].at # "free", Covers(irp'[k].urb, n)
        PROVE  FALSE
    <3>1. CASE k = i /\ j = i
      <4>1. Selects(u) /\ u.pipe # NoHandle
        BY <1>1, <1>10, <2>2, <3>1 DEF Covers, Selects, SelectFns
      <4> QED
        BY <4>1, <1>3 DEF IsUrb, Selects
    <3>2. CASE k = i /\ j # i
      <4>1. Selects(u) /\ j \in InFlight /\ irp[j].urb.pipe = h /\ h # NoHandle
        BY <1>1, <1>10, <2>1, <2>2, <3>2 DEF Covers, Selects, SelectFns, InFlight
      <4> QED
        BY <1>1, <2>1, <2>2, <3>2, <4>1 DEF MaySend
    <3>3. CASE k # i /\ j = i
      BY <1>1, <1>10, <2>1, <2>2, <3>3 DEF MaySend, Selecting, InFlight
    <3>4. CASE k # i /\ j # i
      BY <1>1, <1>10, <2>1, <2>2, <3>4 DEF PipeInv, PinnedInv, PinnedAt
    <3> QED
      BY <3>1, <3>2, <3>3, <3>4
  <2>3. busPipe[h] # Closed
    BY <1>1, <1>10, <2>1 DEF MaySend, PipeInv, PinnedInv, PinnedAt
  <2> QED
    BY <1>2, <2>1, <2>2, <2>3 DEF PinnedAt
<1>11. PinnedInv'
  BY <1>10 DEF PinnedInv
<1> QED
  BY <1>5, <1>6, <1>8, <1>9, <1>11 DEF PipeInv

(* The stack does not change what a selection covers.                      *)
LEMMA CoversReturned ==
  ASSUME NEW u, NEW v, Returned(u, v)
  PROVE  /\ \A n : Covers(v, n) <=> Covers(u, n)
         /\ Selects(v) <=> Selects(u)
BY DEF Returned, Covers, Selects, SelectFns

(* A selection closes and opens only pipes that it covers, which no other  *)
(* IRP uses.                                                               *)
LEMMA BusPipe ==
  ASSUME UrbInv, PipeInv, NEW i \in Irps, BusCompletes(i)
  PROVE  PipeInv'
<1>0. Shaped
  BY DEF UrbInv
<1>1. PICK v : /\ Returned(irp[i].urb, v)
               /\ Step(i, "returned", v, irp[i].logged, irp[i].dropped)
  BY <1>0, BusStep
<1>2. /\ irp[i].at = "bus"
      /\ UNCHANGED <<deviceAddress, endpointTable, lost, early, start>>
  BY <1>0, BusStep DEF device, history
<1>3. /\ \A j \in Irps : j # i => irp'[j] = irp[j]
      /\ irp'[i].at = "returned" /\ irp'[i].urb = v /\ irp'[i].fn = irp[i].fn
  BY <1>1 DEF Step
<1>4. IsUrb(irp[i].urb)
  BY <1>2, URBAssumption DEF PipeInv, FlightInv, FlightOf
<1>5. /\ \A n : Covers(v, n) <=> Covers(irp[i].urb, n)
      /\ Selects(v) <=> Selects(irp[i].urb)
      /\ v.pipe = irp[i].urb.pipe
  BY <1>1, CoversReturned DEF Returned
<1>6. \A j \in Irps :
        /\ \A n : Covers(irp'[j].urb, n) <=> Covers(irp[j].urb, n)
        /\ Selects(irp'[j].urb) <=> Selects(irp[j].urb)
        /\ irp'[j].urb.pipe = irp[j].urb.pipe
        /\ irp'[j].at \in Under <=> irp[j].at \in Under
        /\ irp'[j].at = "free" <=> irp[j].at = "free"
  BY <1>2, <1>3, <1>5 DEF Under
<1>7. \A n : Pending(n)' <=> Pending(n)
  BY <1>6 DEF Pending
<1>8. Plain(v)
  BY <1>0, <1>3, <1>4, BusOther, BusSelection
<1>9. FlightInv'
  <2>1. /\ irp[i].fn \notin KnownFns => v.fn # BULK
        /\ v.fn = BULK => v.pipe # NoHandle
    BY <1>1, <1>2 DEF PipeInv, FlightInv, FlightOf, Returned, BULK
  <2>2. FlightOf(i)'
    BY <1>3, <1>8, <2>1 DEF FlightOf, Plain
  <2> QED
    BY <1>3, <2>2 DEF PipeInv, FlightInv, FlightOf
<1>10. TableInv'
  BY <1>2 DEF PipeInv, TableInv, TableIsFunction
<1>11. start.at # "stopped"
  BY <1>2 DEF UrbInv, AtRest, InFlight
<1>12. OffInv'
  BY <1>2, <1>11 DEF OffInv
<1>13. CASE ~Selects(irp[i].urb)
  <2>1. UNCHANGED busPipe
    BY <1>0, <1>4, <1>13, BusOther
  <2>2. KnownInv'
    BY <1>2, <1>7, <2>1 DEF PipeInv, KnownInv, Known
  <2>3. PinnedInv'
    BY <1>6, <2>1 DEF PipeInv, PinnedInv, PinnedAt
  <2>4. FreshInv'
    BY <1>3, <1>5, <1>13, <2>1 DEF PipeInv, FreshInv, Fresh
  <2> QED
    BY <1>9, <1>10, <1>12, <2>2, <2>3, <2>4 DEF PipeInv
<1>14. CASE Selects(irp[i].urb)
  <2>1. Reopens(irp[i].urb) /\ Fresh(irp[i].urb)'
    BY <1>0, <1>4, <1>14, BusSelection
  <2>2. ASSUME NEW h \in Handles, busPipe'[h] # Closed, ~Pending(busPipe[h].number)'
        PROVE  Known(h)'
    <3>1. ~Covers(irp[i].urb, busPipe'[h].number)
      BY <1>3, <1>5, <2>2 DEF Pending, Under
    <3>2. busPipe[h] # Closed /\ busPipe'[h] = busPipe[h]
      BY <2>1, <2>2, <3>1 DEF Reopens
    <3>3. Known(h)
      BY <1>7, <2>2, <3>2 DEF PipeInv, KnownInv
    <3> QED
      BY <1>2, <3>2, <3>3 DEF Known
  <2>3. KnownInv'
    BY <2>2 DEF KnownInv
  <2>4. ASSUME NEW j \in Irps, irp'[j].at # "free", irp'[j].urb.pipe # NoHandle
        PROVE  PinnedAt(irp[j].urb.pipe)'
    <3>1. PICK h : h = irp[j].urb.pipe
      OBVIOUS
    <3>2. irp[j].at # "free" /\ h # NoHandle /\ irp'[j].urb.pipe = h
      BY <1>6, <2>4, <3>1
    <3>3. h \in Handles
      BY <3>1, <3>2 DEF PipeInv, FlightInv, FlightOf, Plain
    <3>4. PinnedAt(h)
      BY <3>1, <3>2 DEF PipeInv, PinnedInv
    <3>5. busPipe[h] # Closed /\ ~Covers(irp[i].urb, busPipe[h].number)
      BY <1>2, <3>4 DEF PinnedAt
    <3>6. busPipe'[h] = busPipe[h]
      BY <2>1, <3>3, <3>5 DEF Reopens
    <3> QED
      BY <1>6, <3>2, <3>4, <3>6 DEF PinnedAt
  <2>5. PinnedInv'
    BY <2>4 DEF PinnedInv
  <2>6. \A k \in Irps : irp'[k].at = "returned" /\ Selects(irp'[k].urb) => k = i
    BY <1>2, <1>6, <1>14 DEF UrbInv, OneSelection, InFlight
  <2>7. FreshInv'
    BY <2>1, <2>6 DEF FreshInv
  <2> QED
    BY <1>9, <1>10, <1>12, <2>3, <2>5, <2>7 DEF PipeInv
<1> QED
  BY <1>13, <1>14

(* The completion of a selection brings the table up to date before the    *)
(* pipes it opened count as usable.                                        *)
LEMMA AnalyzeCompletePipe ==
  ASSUME UrbInv, PipeInv, NEW i \in Irps, AnalyzeComplete(i)
  PROVE  PipeInv'
<1>0. Shaped
  BY DEF UrbInv
<1>1. PICK at \in {"done", "unknown", "completing"} :
        /\ Moves(i, at)
        /\ at = "unknown" => i \in DOMAIN URBIrpTable
  BY <1>0, MovesAnalyze
<1>2. PICK u : u = irp[i].urb
  OBVIOUS
<1>3. /\ irp[i].at = "returned" /\ AlwaysAnalyzed(u)
      /\ UNCHANGED <<deviceAddress, start, busPipe>>
  BY <1>2 DEF AnalyzeComplete, bus
<1>4. /\ \A j \in Irps : j # i => irp'[j] = irp[j]
      /\ irp'[i].at = at /\ irp'[i].urb = u /\ irp'[i].fn = irp[i].fn
  BY <1>1, <1>2 DEF Moves
<1>5. FlightInv'
  <2>1. at = "unknown" => irp[i].fn \notin KnownFns
    BY <1>1 DEF UrbInv, NotesUnknown
  <2>2. FlightOf(i)'
    BY <1>1, <1>2, <1>3, <1>4, <2>1 DEF PipeInv, FlightInv, FlightOf
  <2> QED
    BY <1>4, <2>2 DEF PipeInv, FlightInv, FlightOf
<1>6. OffInv'
  BY <1>3 DEF PipeInv, OffInv
<1>7. \A j \in Irps : /\ irp'[j].urb = irp[j].urb
                      /\ irp'[j].at = "free" <=> irp[j].at = "free"
                      /\ irp'[j].at = "returned" => irp[j].at = "returned"
  BY <1>1, <1>2, <1>3, <1>4
<1>8. PinnedInv'
  BY <1>3, <1>7 DEF PipeInv, PinnedInv, PinnedAt
<1>9. FreshInv'
  BY <1>3, <1>7 DEF PipeInv, FreshInv, Fresh
<1>10. \A n : Pending(n) => Pending(n)' \/ Covers(u, n)
  BY <1>2, <1>4 DEF Pending, Under
<1>11. CASE ~Selects(u)
  <2>1. UNCHANGED <<endpointTable, lost, early>>
    BY <1>3, <1>11 DEF AlwaysAnalyzed
  <2>2. \A n : ~Covers(u, n)
    BY <1>11 DEF Covers, Selects, SelectFns
  <2>3. TableInv' /\ KnownInv'
    BY <1>3, <1>10, <2>1, <2>2 DEF PipeInv, TableInv, TableIsFunction, KnownInv, Known
  <2> QED
    BY <1>5, <1>6, <1>8, <1>9, <2>3 DEF PipeInv
<1>12. CASE Selects(u)
  <2>1. Fresh(u)
    BY <1>2, <1>3, <1>12 DEF PipeInv, FreshInv
  <2>2. TableInv /\ UNCHANGED <<deviceAddress, busPipe>>
    BY <1>3 DEF PipeInv
  <2>3. /\ TableInv'
        /\ \A h \in Handles : busPipe[h] # Closed /\ Covers(u, busPipe[h].number) =>
             Known(h)'
        /\ \A h \in Handles : ~Covers(u, busPipe[h].number) =>
             /\ h \in lost' <=> h \in lost
             /\ h \in early' <=> h \in early
             /\ h \in DOMAIN endpointTable' <=> h \in DOMAIN endpointTable
             /\ h \in DOMAIN endpointTable => endpointTable'[h] = endpointTable[h]
    BY <1>3, <1>12, <2>1, <2>2, SelectionAnalyzed
  <2>4. ASSUME NEW h \in Handles, busPipe[h] # Closed, ~Pending(busPipe[h].number)'
        PROVE  Known(h)'
    <3>1. CASE Covers(u, busPipe[h].number)
      BY <2>3, <2>4, <3>1
    <3>2. CASE ~Covers(u, busPipe[h].number)
      <4>1. ~Pending(busPipe[h].number)
        BY <1>3, <1>10, <2>4, <3>2
      <4>2. Known(h)
        BY <2>4, <4>1 DEF PipeInv, KnownInv
      <4> QED
        BY <1>3, <2>3, <3>2, <4>2 DEF Known
    <3> QED
      BY <3>1, <3>2
  <2>5. KnownInv'
    BY <1>3, <2>4 DEF KnownInv
  <2> QED
    BY <1>5, <1>6, <1>8, <1>9, <2>3, <2>5 DEF PipeInv
<1> QED
  BY <1>11, <1>12

LEMMA PipeInit ==
  ASSUME Init
  PROVE  PipeInv
<1>1. PICK y : y = Idle
  OBVIOUS
<1>2. /\ irp = [i \in Irps |-> y] /\ y.at = "free"
      /\ endpointTable = <<>> /\ lost = {} /\ early = {} /\ busPipe = [h \in Handles |-> Closed]
  BY <1>1, IdleShape DEF Init
<1>3. FlightInv /\ PinnedInv /\ FreshInv
  BY <1>2 DEF FlightInv, FlightOf, PinnedInv, FreshInv
<1>4. OffInv /\ KnownInv
  BY <1>2 DEF OffInv, KnownInv
<1>5. TableInv
  <2>1. DOMAIN endpointTable = {}
    BY <1>2
  <2>2. endpointTable = [h \in DOMAIN endpointTable |-> endpointTable[h]]
    BY <1>2
  <2> QED
    BY <1>2, <2>1, <2>2 DEF TableInv, TableIsFunction
<1> QED
  BY <1>3, <1>4, <1>5 DEF PipeInv

LEMMA PipeStep ==
  ASSUME UrbInv, PipeInv, [Next]_vars
  PROVE  PipeInv'
<1>0. Shaped
  BY DEF UrbInv
<1>1. CASE Apart
  BY <1>1, ApartPipe
<1>2. CASE Replacing \/ Renewing
  <2>1. /\ irp' = NoneWhole /\ UNCHANGED <<endpointTable, lost, busPipe>>
        /\ UNCHANGED start \/ start'.at # "stopped"
    BY <1>2, ReplacingReplaces, RenewingReplaces DEF ReplaceFilter, device, bus
  <2>2. UNCHANGED <<deviceAddress, early>> \/ early' = DOMAIN endpointTable
    BY <1>2, ReplacingReplaces
       DEF ReplaceFilter, Renewing, Learns, GetDeviceUSBInfo, SetDeviceFiltered, device
  <2> QED
    BY <2>1, <2>2, ReplacePipe
<1>3. ASSUME NEW i \in Irps, NEW u \in Urbs[i], Submit(i, u)
      PROVE  PipeInv'
  BY <1>3, SubmitPipe
<1>4. ASSUME NEW i \in Irps, BusCompletes(i) \/ AnalyzeComplete(i) \/ Return(i)
      PROVE  PipeInv'
  BY <1>4, BusPipe, AnalyzeCompletePipe, ReturnPipe
<1>5. ASSUME NEW i \in Irps, AnalyzeSubmit(i)
      PROVE  PipeInv'
  <2>1. UNCHANGED <<deviceAddress, endpointTable, lost, early, busPipe, start>>
    BY <1>5 DEF AnalyzeSubmit, bus
  <2> QED
    BY <1>0, <1>5, <2>1, MovesSubmit, MovesPipe
<1>6. ASSUME NEW i \in Irps, LogUnknownSubmit(i)
      PROVE  PipeInv'
  <2>1. UNCHANGED <<deviceAddress, endpointTable, lost, early, busPipe, start>>
    BY <1>6 DEF LogUnknownSubmit, device, bus, history
  <2> QED
    BY <1>0, <1>6, <2>1, MovesUnknown, MovesPipe
<1>7. ASSUME NEW i \in Irps, LogComplete(i)
      PROVE  PipeInv'
  <2>1. UNCHANGED <<deviceAddress, endpointTable, lost, early, busPipe, start>>
    BY <1>7 DEF LogComplete, device, bus
  <2> QED
    BY <1>0, <1>7, <2>1, MovesComplete, MovesPipe
<1> QED
  BY <1>1, <1>2, <1>3, <1>4, <1>5, <1>6, <1>7, NextCases

LEMMA PipeTrue ==
  ASSUME PipeInv
  PROVE  EndpointsTrue
<1>1. \A n : Pending(n) => Selecting(n)
  BY DEF Pending, Under, Selecting, InFlight
<1> QED
  BY <1>1 DEF PipeInv, KnownInv, Known, EndpointsTrue

(* Whenever the function driver may use a pipe, the endpoint table has the *)
(* endpoint and the type behind its handle, or there was no memory for the *)
(* entry: handles that the USB stack gives out again never meet the entry  *)
(* of the pipe that had them before.  The device of the entry is the one   *)
(* the driver knows, but in entries that are older than its address.       *)
THEOREM EndpointsAlwaysTrue == Spec => []EndpointsTrue
<1>1. Init => UrbInv /\ PipeInv
  BY UrbInit, PipeInit
<1>2. UrbInv /\ PipeInv /\ [Next]_vars => UrbInv' /\ PipeInv'
  BY UrbStep, PipeStep
<1>3. PipeInv => EndpointsTrue
  BY PipeTrue
<1> QED
  BY <1>1, <1>2, <1>3, PTL DEF Spec
-----------------------------------------------------------------------------
(* Types. *)

LEMMA TypesOK ==
  ASSUME UrbInv, PipeInv, BitsInv
  PROVE  TypeOK
<1>1. /\ filter.addresses \in Bits
      /\ start.at \in {"stopped", "querying", "setBit", "started"}
  BY DEF BitsInv, FilterBits
<1>2. \A i \in Irps : irp[i].at \in Places
  BY DEF UrbInv, Shaped
<1>3. DOMAIN URBIrpTable \subseteq Irps
  BY DEF UrbInv, NotesUnknown
<1>4. /\ DOMAIN endpointTable \subseteq Handles \cup {NoHandle} /\ lost \subseteq Handles
      /\ early \subseteq DOMAIN endpointTable
  BY DEF PipeInv, TableInv
<1> QED
  BY <1>1, <1>2, <1>3, <1>4 DEF TypeOK, BitsInv, Bits, Places

(* The tables hold handles and IRPs of the device, the filter bits of      *)
(* addresses it can have, and each IRP is at one place of its way.         *)
THEOREM UrbTypes == Spec => []TypeOK
<1>1. Init => UrbInv /\ PipeInv /\ BitsInv
  BY UrbInit, PipeInit, BitsInit
<1>2. UrbInv /\ PipeInv /\ BitsInv /\ [Next]_vars => UrbInv' /\ PipeInv' /\ BitsInv'
  BY UrbStep, PipeStep, BitsStep
<1>3. UrbInv /\ PipeInv /\ BitsInv => TypeOK
  BY TypesOK
<1> QED
  BY <1>1, <1>2, <1>3, PTL DEF Spec
-----------------------------------------------------------------------------
(* What the packets of a URB say. *)

SetupFns == WrappedFns \cup ControlFns

(* The setup packet and the flags of a control transfer agree.             *)
Honest(u) == u.fn \in ControlFns => u.pipe = NoHandle /\ u.in = (u.type >= 128)

(* The request type and the direction of a control transfer agree.         *)
LEMMA Direction ==
  ASSUME NEW u, Plain(u), u.fn \in SetupFns, Honest(u)
  PROVE  /\ TransferType(u) \in Nat
         /\ TransferType(u) >= 128 <=> FromDevice(u)
<1>0. PICK fn : fn = u.fn
  OBVIOUS
<1>1. PICK in \in BOOLEAN, type \in 0 .. 255 :
        fn = u.fn /\ in = u.in /\ type = u.type
  BY <1>0 DEF Plain
<1>2. CASE fn \in DOMAIN StandardType
  <2>1. TransferType(u) = StandardType[fn] /\ (FromDevice(u) <=> fn \in GetFns)
    BY <1>1, <1>2 DEF TransferType, FromDevice
  <2>2. /\ StandardType[fn] \in Nat
        /\ StandardType[fn] >= 128 <=> fn \in GetFns
    BY <1>2 DEF StandardType, GetFns
  <2> QED
    BY <2>1, <2>2
<1>3. CASE fn \notin DOMAIN StandardType /\ fn \in DOMAIN VendorClassType
  <2>1. /\ TransferType(u) = VendorClassType[fn] + (IF in THEN 128 ELSE 0)
        /\ FromDevice(u) <=> in
    BY <1>1, <1>3 DEF TransferType, FromDevice
  <2>2. VendorClassType[fn] \in 0 .. 127
    BY <1>3 DEF VendorClassType
  <2> QED
    BY <2>1, <2>2
<1>4. CASE fn \notin DOMAIN StandardType /\ fn \notin DOMAIN VendorClassType
  <2>1. TransferType(u) = type /\ (FromDevice(u) <=> in)
    BY <1>1, <1>4 DEF TransferType, FromDevice
  <2>2. fn \in ControlFns
    BY <1>1, <1>4 DEF SetupFns, WrappedFns
  <2>3. in = (type >= 128)
    BY <1>1, <2>2 DEF Honest
  <2>4. FromDevice(u) <=> type >= 128
    BY <2>1, <2>3, Zenon
  <2>5. TransferType(u) \in Nat
    BY <2>1
  <2> QED
    BY <2>1, <2>4, <2>5
<1> QED
  BY <1>2, <1>3, <1>4

(* The endpoint of a control packet has the bit of the direction, and the  *)
(* data is on the way that goes with it.                                   *)
LEMMA ControlSays ==
  ASSUME NEW u, Plain(u), u.fn \in SetupFns, Honest(u), NEW post \in BOOLEAN,
         NEW table, NEW dev, NEW p, p = ControlPacket(u, post, table, dev)
  PROVE  /\ p.payload = <<>>
         /\ IsIn(p.endpoint) <=> FromDevice(u)
         /\ ~(FromDevice(u) <=> post) => p.data = 0
         /\ ~post => p.type = TransferType(u)
<1>1. PICK dir \in BOOLEAN : dir = FromDevice(u)
  <2>1. u.in \in BOOLEAN /\ (u.fn \in GetFns) \in BOOLEAN
    BY DEF Plain
  <2>2. FromDevice(u) \in BOOLEAN
    BY <2>1, Zenon DEF FromDevice
  <2> QED
    BY <2>2
<1>2. ~(u.fn \in ControlFns /\ u.pipe \in DOMAIN table \ {NoHandle})
  BY DEF Honest
<1>3. PICK ep, len : /\ ep = IF dir THEN SetIn(0) ELSE 0
                     /\ len = IF dir = post THEN DataLength(u) ELSE 0
  OBVIOUS
<1>4. PICK q : q = Packet(u, post, dev, ep, "control", len)
  OBVIOUS
<1>5. q.payload = <<>> /\ q.endpoint = ep /\ q.data = len
  BY <1>4 DEF Packet
<1>6. p = IF post THEN q ELSE [q EXCEPT !.type = TransferType(u)]
  BY <1>1, <1>2, <1>3, <1>4 DEF ControlPacket
<1>7. /\ p.payload = <<>> /\ p.endpoint = ep /\ p.data = len
      /\ ~post => p.type = TransferType(u)
  BY <1>4, <1>5, <1>6 DEF Packet
<1>8. IsIn(ep) <=> dir
  BY <1>3 DEF IsIn, SetIn
<1> QED
  BY <1>1, <1>3, <1>7, <1>8

(* The way that the data of a pipe goes: up when its endpoint is IN, or    *)
(* not in the table.                                                       *)
Way(h) == IF IsIn(busPipe[h].ep) \/ h \in lost THEN "up" ELSE "down"

(* The data of a bulk packet is on the way of its endpoint.                *)
LEMMA BulkSays ==
  ASSUME NEW u, TableInv, Known(u.pipe), NEW post \in BOOLEAN, NEW dev,
         NEW p, p = BulkPacket(u, post, endpointTable, dev)
  PROVE  /\ p.payload = <<>> /\ p.type = -1
         /\ u.len # 0 => (p.data # 0 <=> (post <=> Way(u.pipe) = "up"))
<1>1. PICK e : e = EndpointOf(u, endpointTable, dev)
  OBVIOUS
<1>2. IsIn(e.ep) <=> Way(u.pipe) = "up"
  <2>1. CASE u.pipe \in lost
    <3>1. u.pipe \notin DOMAIN endpointTable
      BY <2>1 DEF TableInv
    <3>2. e.ep = 255
      BY <1>1, <3>1 DEF EndpointOf, UnknownEndpoint
    <3> QED
      BY <2>1, <3>2 DEF Way, IsIn
  <2>2. CASE u.pipe \notin lost
    <3>1. e.ep = busPipe[u.pipe].ep
      BY <1>1, <2>2 DEF Known, EndpointOf
    <3> QED
      BY <2>2, <3>1 DEF Way
  <2> QED
    BY <2>1, <2>2
<1>3. PICK transfer, data :
        /\ data = IF IsIn(e.ep) = post THEN u.len ELSE 0
        /\ p = Packet(u, post, e.device, e.ep, transfer, data)
  BY <1>1 DEF BulkPacket
<1>4. p.payload = <<>> /\ p.type = -1 /\ p.data = data
  BY <1>3 DEF Packet
<1>5. u.len # 0 => (data # 0 <=> (post <=> IsIn(e.ep)))
  BY <1>3 DEF IsIn
<1> QED
  BY <1>2, <1>4, <1>5

LEMMA IsochSays ==
  ASSUME NEW u, NEW post, NEW table, NEW dev, NEW p, p = IsochPacket(u, post, table, dev)
  PROVE  p.type = -1
<1>1. PICK e : e = EndpointOf(u, table, dev)
  OBVIOUS
<1>2. PICK q : q = [Packet(u, post, e.device, e.ep, "isochronous", 0) EXCEPT !.iso = u.iso]
  OBVIOUS
<1>3. \/ p = [q EXCEPT !.data = IsoTotal(u.iso), !.iso = Compacted(u.iso),
                       !.payload = Gathered(u.iso)]
      \/ p = [q EXCEPT !.data = u.len]
      \/ p = q
  BY <1>1, <1>2 DEF IsochPacket
<1> QED
  BY <1>2, <1>3 DEF Packet

(* Which packet is written for which function.                             *)
LEMMA PacketIs ==
  ASSUME NEW u, NEW post \in BOOLEAN, NEW p, Packets(u, post) = <<p>>
  PROVE  \/ /\ u.fn \in SetupFns
            /\ p = ControlPacket(u, post, endpointTable, deviceAddress)
         \/ u.fn = BULK /\ p = BulkPacket(u, post, endpointTable, deviceAddress)
         \/ /\ u.fn = "ISOCH_TRANSFER" /\ ~IsoDropped(u, post)
            /\ p = IsochPacket(u, post, endpointTable, deviceAddress)
         \/ /\ u.fn \notin SetupFns /\ u.fn # BULK
            /\ p.type = -1 /\ p.payload = <<>>
<1>1. PICK fn : fn = u.fn
  OBVIOUS
<1>0. \A x, y : <<x>> = <<y>> => x = y
  OBVIOUS
<1>2. CASE fn \in WrappedFns \cup ControlFns
  <2>1. Packets(u, post) = IF Mute(u) THEN <<>>
                           ELSE <<ControlPacket(u, post, endpointTable, deviceAddress)>>
    BY <1>1, <1>2 DEF Packets, Mute, WrappedFns, ControlFns, StandardType,
                      VendorClassType, PipeFns
  <2>2. p = ControlPacket(u, post, endpointTable, deviceAddress)
    BY <1>0, <2>1
  <2> QED
    BY <1>1, <1>2, <2>2 DEF SetupFns
<1>3. CASE fn \notin WrappedFns \cup ControlFns
  <2>1. CASE fn = "BULK_OR_INTERRUPT_TRANSFER"
    <3>1. Packets(u, post) = <<BulkPacket(u, post, endpointTable, deviceAddress)>>
      BY <1>1, <1>3, <2>1 DEF Packets, PipeFns
    <3> QED
      BY <1>0, <1>1, <2>1, <3>1 DEF BULK
  <2>2. CASE fn = "ISOCH_TRANSFER"
    <3>1. Packets(u, post) = IF IsoDropped(u, post) THEN <<>>
                  ELSE <<IsochPacket(u, post, endpointTable, deviceAddress)>>
      BY <1>1, <1>3, <2>2 DEF Packets, PipeFns
    <3>2. ~IsoDropped(u, post) /\ p = IsochPacket(u, post, endpointTable, deviceAddress)
      BY <1>0, <3>1
    <3> QED
      BY <1>1, <2>2, <3>2
  <2>3. CASE fn \in PipeFns
    <3>1. Packets(u, post) = <<PipePacket(u, post, endpointTable, deviceAddress)>>
      BY <1>1, <1>3, <2>3 DEF Packets, PipeFns
    <3>2. p = PipePacket(u, post, endpointTable, deviceAddress)
      BY <1>0, <3>1
    <3>3. p.type = -1 /\ p.payload = <<>>
      BY <3>2 DEF PipePacket, Packet
    <3> QED
      BY <1>1, <1>3, <2>3, <3>3 DEF PipeFns, BULK, SetupFns
  <2>4. CASE fn = "GET_CURRENT_FRAME_NUMBER"
    <3>1. Packets(u, post) = <<FramePacket(u, post, deviceAddress)>>
      BY <1>1, <1>3, <2>4 DEF Packets, PipeFns
    <3>2. p = FramePacket(u, post, deviceAddress)
      BY <1>0, <3>1
    <3>3. p.type = -1 /\ p.payload = <<>>
      BY <3>2 DEF FramePacket, Packet
    <3> QED
      BY <1>1, <1>3, <2>4, <3>3 DEF BULK, SetupFns
  <2>5. CASE fn \notin KnownFns
    <3>1. Packets(u, post) = IF post THEN <<UnknownPacket(u, post, deviceAddress)>>
                             ELSE <<>>
      BY <1>1, <1>3, <2>5 DEF Packets, KnownFns
    <3>2. p = UnknownPacket(u, post, deviceAddress)
      BY <1>0, <3>1
    <3>3. p.type = -1 /\ p.payload = <<>>
      BY <3>2 DEF UnknownPacket, Packet
    <3> QED
      BY <1>1, <1>3, <2>5, <3>3 DEF KnownFns, BULK, SetupFns
  <2> QED
    BY <1>3, <2>1, <2>2, <2>3, <2>4, <2>5 DEF KnownFns
<1> QED
  BY <1>2, <1>3

(* What the packet of the submission and the one of the completion say of  *)
(* the URB, when the data of its pipe goes this way.                       *)
Down(p, u, way) ==
  /\ p.payload = <<>>
  /\ p.type # -1 =>
       /\ u.fn \in SetupFns /\ Honest(u) /\ p.type = TransferType(u)
       /\ IsIn(p.endpoint) <=> p.type >= 128
       /\ p.type >= 128 => p.data = 0
  /\ u.fn = BULK /\ u.len # 0 => (p.data # 0 <=> way = "down")

Up(p, u, way) ==
  /\ p.payload # <<>> => Readable(p, u)
  /\ u.fn \in SetupFns /\ Honest(u) =>
       /\ IsIn(p.endpoint) <=> TransferType(u) >= 128
       /\ TransferType(u) < 128 => p.data = 0
  /\ u.fn = BULK /\ u.len # 0 => (p.data # 0 <=> way = "up")

LEMMA FnsApart ==
  BULK \notin SetupFns /\ "ISOCH_TRANSFER" \notin SetupFns /\ BULK # "ISOCH_TRANSFER"
BY DEF BULK, SetupFns, WrappedFns, ControlFns, StandardType, VendorClassType

LEMMA Ways ==
  ASSUME NEW h
  PROVE  Way(h) = "up" <=> Way(h) # "down"
BY DEF Way

(* The packet on the way down.                                             *)
LEMMA DownSays ==
  ASSUME TableInv, NEW u, Plain(u), Honest(u), u.fn = BULK => Known(u.pipe),
         NEW p, Packets(u, FALSE) = <<p>>
  PROVE  Down(p, u, Way(u.pipe))
<1>1. CASE /\ u.fn \in SetupFns
           /\ p = ControlPacket(u, FALSE, endpointTable, deviceAddress)
  <2>1. /\ p.payload = <<>>
        /\ IsIn(p.endpoint) <=> FromDevice(u)
        /\ FromDevice(u) => p.data = 0
        /\ p.type = TransferType(u)
    BY <1>1, ControlSays
  <2>2. TransferType(u) >= 128 <=> FromDevice(u)
    BY <1>1, Direction
  <2> QED
    BY <1>1, <2>1, <2>2, FnsApart DEF Down
<1>2. CASE u.fn = BULK /\ p = BulkPacket(u, FALSE, endpointTable, deviceAddress)
  <2>1. /\ p.payload = <<>> /\ p.type = -1
        /\ u.len # 0 => (p.data # 0 <=> Way(u.pipe) # "up")
    BY <1>2, BulkSays
  <2> QED
    BY <2>1, Ways DEF Down
<1>3. CASE /\ u.fn = "ISOCH_TRANSFER" /\ ~IsoDropped(u, FALSE)
           /\ p = IsochPacket(u, FALSE, endpointTable, deviceAddress)
  <2>1. p.type = -1
    BY <1>3, IsochSays
  <2>2. p.payload = <<>>
    BY <1>3, IsochReadable DEF Plain
  <2> QED
    BY <1>3, <2>1, <2>2, FnsApart DEF Down
<1>4. CASE u.fn # BULK /\ p.type = -1 /\ p.payload = <<>>
  BY <1>4 DEF Down
<1> QED
  BY <1>1, <1>2, <1>3, <1>4, PacketIs

(* The packet on the way up.                                               *)
LEMMA UpSays ==
  ASSUME TableInv, NEW u, Plain(u), u.fn = BULK => Known(u.pipe),
         NEW p, Packets(u, TRUE) = <<p>>
  PROVE  Up(p, u, Way(u.pipe))
<1>1. CASE /\ u.fn \in SetupFns
           /\ p = ControlPacket(u, TRUE, endpointTable, deviceAddress)
  <2>1. p.payload = <<>>
    BY <1>1 DEF ControlPacket, Packet
  <2>2. ASSUME Honest(u)
        PROVE  /\ IsIn(p.endpoint) <=> TransferType(u) >= 128
               /\ TransferType(u) < 128 => p.data = 0
    <3>1. /\ IsIn(p.endpoint) <=> FromDevice(u)
          /\ ~FromDevice(u) => p.data = 0
      BY <1>1, <2>2, ControlSays
    <3>2. PICK t \in Nat : t = TransferType(u) /\ (t >= 128 <=> FromDevice(u))
      BY <1>1, <2>2, Direction
    <3> QED
      BY <3>1, <3>2
  <2> QED
    BY <1>1, <2>1, <2>2, FnsApart DEF Up
<1>2. CASE u.fn = BULK /\ p = BulkPacket(u, TRUE, endpointTable, deviceAddress)
  <2>1. /\ p.payload = <<>>
        /\ u.len # 0 => (p.data # 0 <=> Way(u.pipe) = "up")
    BY <1>2, BulkSays
  <2> QED
    BY <1>2, <2>1, FnsApart DEF Up
<1>3. CASE /\ u.fn = "ISOCH_TRANSFER" /\ ~IsoDropped(u, TRUE)
           /\ p = IsochPacket(u, TRUE, endpointTable, deviceAddress)
  <2>1. p.payload # <<>> => Readable(p, u)
    BY <1>3, IsochReadable DEF Plain
  <2> QED
    BY <1>3, <2>1, FnsApart DEF Up
<1>4. CASE u.fn \notin SetupFns /\ u.fn # BULK /\ p.type = -1 /\ p.payload = <<>>
  BY <1>4 DEF Up
<1> QED
  BY <1>1, <1>2, <1>3, <1>4, PacketIs
-----------------------------------------------------------------------------
(* What the log of an IRP says of its URB, step by step. *)

Sent(log, u, way) == \E d : log = <<d>> /\ Down(d.packet, u, way)
Came(log, u, way) == \E e : log = <<e>> /\ Up(e.packet, u, way)
Both(log, u, way) ==
  \E d, e : log = <<d, e>> /\ Down(d.packet, u, way) /\ Up(e.packet, u, way)

Story(at, log, u, way) ==
  \/ log = <<>>
  \/ at \in {"bus", "returned", "completing", "done"} /\ Sent(log, u, way)
  \/ at = "done" /\ (Came(log, u, way) \/ Both(log, u, way))

StoryOf(i) == Story(irp[i].at, irp[i].logged, irp[i].urb, Way(irp[i].urb.pipe))

StoryInv == \A i \in Irps : StoryOf(i)

LEMMA StorySame ==
  ASSUME NEW at, NEW log, NEW u, NEW way, NEW other, u.fn = BULK => other = way,
         Story(at, log, u, way)
  PROVE  Story(at, log, u, other)
<1>1. \A p : Down(p, u, way) => Down(p, u, other)
  BY DEF Down
<1>2. \A p : Up(p, u, way) => Up(p, u, other)
  BY DEF Up
<1> QED
  BY <1>1, <1>2 DEF Story, Sent, Came, Both

(* What the submission says stays true when the stack completes the URB.   *)
LEMMA DownReturned ==
  ASSUME NEW u, NEW v, Returned(u, v), NEW way, NEW other, u.fn = BULK => other = way,
         NEW p, Down(p, u, way)
  PROVE  Down(p, v, other)
<1>1. CASE /\ v.fn = u.fn /\ v.in = u.in /\ v.type = u.type
           /\ v.fn # "ISOCH_TRANSFER" => v.len = u.len
  <2>1. v.pipe = u.pipe
    BY DEF Returned
  <2>2. TransferType(v) = TransferType(u)
    BY <1>1, Zenon DEF TransferType
  <2>3. Honest(v) <=> Honest(u)
    BY <1>1, <2>1, Zenon DEF Honest
  <2>4. v.fn = BULK => v.len = u.len
    BY <1>1, FnsApart
  <2> QED
    BY <1>1, <2>2, <2>3, <2>4 DEF Down
<1>2. CASE u.fn = "UNKNOWN" /\ v.fn = "CONTROL_TRANSFER"
  <2>1. u.fn \notin SetupFns /\ v.fn # BULK
    BY <1>2 DEF SetupFns, WrappedFns, ControlFns, StandardType, VendorClassType, BULK
  <2> QED
    BY <2>1 DEF Down
<1> QED
  BY <1>1, <1>2 DEF Returned

(* The table knows the pipe that an IRP uses.                              *)
LEMMA PipeKnown ==
  ASSUME PipeInv, NEW i \in Irps, irp[i].at # "free", irp[i].urb.pipe # NoHandle
  PROVE  /\ irp[i].urb.pipe \in Handles /\ PinnedAt(irp[i].urb.pipe)
         /\ Known(irp[i].urb.pipe)
<1>1. PICK h : h = irp[i].urb.pipe
  OBVIOUS
<1>2. h \in Handles
  BY <1>1 DEF PipeInv, FlightInv, FlightOf, Plain
<1>3. PinnedAt(h)
  BY <1>1 DEF PipeInv, PinnedInv
<1>4. busPipe[h] # Closed /\ ~Pending(busPipe[h].number)
  BY <1>3 DEF PinnedAt, Pending, Under
<1>5. Known(h)
  BY <1>2, <1>4 DEF PipeInv, KnownInv
<1> QED
  BY <1>1, <1>2, <1>3, <1>5

(* The pipe that an IRP uses keeps its endpoint and its entry.             *)
LEMMA WaySteady ==
  ASSUME UrbInv, PipeInv, [Next]_vars, NEW j \in Irps, irp[j].at # "free",
         NEW h, h = irp[j].urb.pipe, h # NoHandle
  PROVE  Way(h)' = Way(h)
<1>0. Shaped
  BY DEF UrbInv
<1>1. h \in Handles /\ PinnedAt(h)
  BY PipeKnown
<1>2. ASSUME busPipe'[h] = busPipe[h], h \in lost' <=> h \in lost
      PROVE  Way(h)' = Way(h)
  BY <1>2 DEF Way
<1>3. CASE Apart
  <2>1. ~StopDevice
    BY DEF StopDevice, InFlight
  <2>2. UNCHANGED <<busPipe, lost>>
    BY <1>3, <2>1 DEF Apart, SetUpBuffer, CleanupBuffer, StartDevice, Asks,
                      GetDeviceUSBInfo, bus, history, vars
  <2> QED
    BY <1>2, <2>2
<1>4. CASE Replacing \/ Renewing
  <2>1. UNCHANGED <<busPipe, lost>>
    BY <1>4, ReplacingReplaces, RenewingReplaces DEF ReplaceFilter, bus
  <2> QED
    BY <1>2, <2>1
<1>5. ASSUME NEW i \in Irps, NEW u \in Urbs[i], Submit(i, u)
      PROVE  Way(h)' = Way(h)
  BY <1>2, <1>5 DEF Submit, bus, history
<1>6. ASSUME NEW i \in Irps, AnalyzeSubmit(i) \/ LogUnknownSubmit(i) \/ LogComplete(i) \/ Return(i)
      PROVE  Way(h)' = Way(h)
  BY <1>2, <1>6 DEF AnalyzeSubmit, LogUnknownSubmit, LogComplete, Return,
                     bus, history
<1>7. ASSUME NEW i \in Irps, BusCompletes(i)
      PROVE  Way(h)' = Way(h)
  <2>1. irp[i].at = "bus" /\ UNCHANGED lost
    BY <1>7 DEF BusCompletes, history
  <2>2. IsUrb(irp[i].urb)
    BY <2>1, URBAssumption DEF PipeInv, FlightInv, FlightOf
  <2>3. CASE ~Selects(irp[i].urb)
    BY <1>0, <1>2, <1>7, <2>1, <2>2, <2>3, BusOther
  <2>4. CASE Selects(irp[i].urb)
    <3>1. Reopens(irp[i].urb)
      BY <1>0, <1>7, <2>2, <2>4, BusSelection
    <3>2. busPipe[h] # Closed /\ ~Covers(irp[i].urb, busPipe[h].number)
      BY <1>1, <2>1 DEF PinnedAt
    <3>3. busPipe'[h] = busPipe[h]
      BY <1>1, <3>1, <3>2 DEF Reopens
    <3> QED
      BY <1>2, <2>1, <3>3
  <2> QED
    BY <2>3, <2>4
<1>8. ASSUME NEW i \in Irps, AnalyzeComplete(i)
      PROVE  Way(h)' = Way(h)
  <2>1. PICK u : u = irp[i].urb
    OBVIOUS
  <2>2. /\ irp[i].at = "returned" /\ AlwaysAnalyzed(u)
        /\ UNCHANGED <<deviceAddress, busPipe>>
    BY <1>8, <2>1 DEF AnalyzeComplete, bus
  <2>3. CASE ~Selects(u)
    BY <1>2, <2>2, <2>3 DEF AlwaysAnalyzed
  <2>4. CASE Selects(u)
    <3>1. Fresh(u) /\ TableInv
      BY <2>1, <2>2, <2>4 DEF PipeInv, FreshInv
    <3>2. \A x \in Handles : ~Covers(u, busPipe[x].number) => (x \in lost' <=> x \in lost)
      BY <2>2, <2>4, <3>1, SelectionAnalyzed
    <3>3. ~Covers(u, busPipe[h].number)
      BY <1>1, <2>1, <2>2 DEF PinnedAt
    <3> QED
      BY <1>1, <1>2, <2>2, <3>2, <3>3
  <2> QED
    BY <2>3, <2>4
<1> QED
  BY <1>3, <1>4, <1>5, <1>6, <1>7, <1>8, NextCases

LEMMA WayOf ==
  ASSUME UrbInv, PipeInv, [Next]_vars, NEW j \in Irps, irp[j].at # "free",
         irp[j].urb.fn = BULK
  PROVE  Way(irp[j].urb.pipe) = IF IsIn(busPipe'[irp[j].urb.pipe].ep)
                                   \/ irp[j].urb.pipe \in lost' THEN "up" ELSE "down"
<1>1. PICK h : h = irp[j].urb.pipe
  OBVIOUS
<1>2. h # NoHandle
  BY <1>1 DEF PipeInv, FlightInv, FlightOf
<1>3. Way(h)' = Way(h)
  BY <1>1, <1>2, WaySteady
<1>4. Way(h) = IF IsIn(busPipe'[h].ep) \/ h \in lost' THEN "up" ELSE "down"
  BY <1>3 DEF Way
<1> QED
  BY <1>1, <1>4

(* An IRP keeps its log and its URB: the log still says the same.          *)
LEMMA StoryKept ==
  ASSUME UrbInv, PipeInv, StoryInv, [Next]_vars, NEW j \in Irps,
         irp'[j].logged = irp[j].logged, irp'[j].urb = irp[j].urb,
         \/ irp'[j].at = irp[j].at
         \/ irp[j].at = "returned" /\ irp'[j].at \in {"completing", "done"}
         \/ irp[j].logged = <<>>
  PROVE  StoryOf(j)'
<1>1. PICK u, log, way, other :
        /\ u = irp[j].urb /\ log = irp[j].logged /\ way = Way(u.pipe)
        /\ other = IF IsIn(busPipe'[u.pipe].ep) \/ u.pipe \in lost' THEN "up" ELSE "down"
  OBVIOUS
<1>2. CASE log = <<>>
  BY <1>1, <1>2 DEF StoryOf, Story
<1>3. CASE log # <<>>
  <2>1. irp[j].at # "free"
    BY <1>1, <1>3 DEF UrbInv, AtRest
  <2>2. u.fn = BULK => other = way
    BY <1>1, <2>1, WayOf
  <2>3. Story(irp[j].at, log, u, way)
    BY <1>1 DEF StoryInv, StoryOf
  <2>4. Story(irp'[j].at, log, u, way)
    BY <1>1, <1>3, <2>3 DEF Story
  <2>5. Story(irp'[j].at, log, u, other)
    BY <2>2, <2>4, StorySame
  <2>6. irp'[j].urb = u /\ irp'[j].logged = log
    BY <1>1
  <2> QED
    BY <1>1, <2>5, <2>6, Zenon DEF StoryOf, Way
<1> QED
  BY <1>2, <1>3

(* The log of an IRP after at most one packet more.                        *)
LEMMA WritesStory ==
  ASSUME NEW i \in Irps, NEW at, NEW ps, Writes(i, at, ps), ps = <<>> \/ \E p : ps = <<p>>
  PROVE  /\ irp[i].logged = <<>> =>
              \/ irp'[i].logged = <<>>
              \/ \E p, e : ps = <<p>> /\ e.packet = p /\ irp'[i].logged = <<e>>
         /\ \A q : irp[i].logged = <<q>> =>
              \/ irp'[i].logged = <<q>>
              \/ \E p, e : ps = <<p>> /\ e.packet = p /\ irp'[i].logged = <<q, e>>
<1>1. PICK kept : irp'[i].logged = Longer(i, kept) /\ (kept = ps \/ kept = <<>>)
  BY DEF Writes, Step
<1>2. CASE kept = <<>>
  BY <1>1, <1>2, LongerNone
<1>3. CASE kept # <<>>
  <2>1. PICK p : kept = <<p>> /\ ps = <<p>>
    BY <1>1, <1>3
  <2>2. PICK e : /\ e.packet = p
                 /\ irp[i].logged = <<>> =>
                      Longer(i, <<p>>) = <<>> \/ Longer(i, <<p>>) = <<e>>
                 /\ \A q : irp[i].logged = <<q>> => Longer(i, <<p>>) \in {<<q>>, <<q, e>>}
    BY LongerOne
  <2> QED
    BY <1>1, <2>1, <2>2
<1> QED
  BY <1>2, <1>3

LEMMA UnknownStory ==
  ASSUME Shaped, NEW i \in Irps, LogUnknownSubmit(i)
  PROVE  \E p : p.type = -1 /\ p.payload = <<>> /\ Writes(i, "completing", <<p>>)
<1>1. PICK p : p = UnknownPacket([irp[i].urb EXCEPT !.fn = irp[i].info.fn], FALSE,
                                 irp[i].info.device)
  OBVIOUS
<1>2. p.type = -1 /\ p.payload = <<>>
  BY <1>1 DEF UnknownPacket, Packet
<1>3. PICK stored \in BOOLEAN :
        irp' = [irp EXCEPT ![i] = Logged(i, <<p>>, stored, "completing")]
  BY <1>1 DEF LogUnknownSubmit, Stored
<1>4. Writes(i, "completing", <<p>>)
  BY <1>3, LoggedWrites
<1> QED
  BY <1>2, <1>4

(* The pipes and the handles without an entry stay, and so does the way.   *)
LEMMA StoryStays ==
  ASSUME NEW i \in Irps, UNCHANGED <<busPipe, lost>>, NEW u, NEW way,
         irp'[i].urb = u, way = Way(u.pipe), Story(irp'[i].at, irp'[i].logged, u, way)
  PROVE  StoryOf(i)'
<1>1. way = IF IsIn(busPipe'[u.pipe].ep) \/ u.pipe \in lost' THEN "up" ELSE "down"
  BY DEF Way
<1> QED
  BY <1>1, Zenon DEF StoryOf, Way

LEMMA AnalyzeSubmitStory ==
  ASSUME UrbInv, PipeInv, StoryInv, NEW i \in Irps, AnalyzeSubmit(i)
  PROVE  StoryOf(i)'
<1>0. Shaped /\ TableInv
  BY DEF UrbInv, PipeInv
<1>1. /\ irp[i].at = "submitting" /\ UNCHANGED <<busPipe, lost>>
  BY DEF AnalyzeSubmit, bus
<1>2. irp[i].logged = <<>>
  BY <1>1 DEF StoryInv, StoryOf, Story
<1>3. PICK u : u = irp[i].urb
  OBVIOUS
<1>4. IsUrb(u)
  BY <1>1, <1>3, URBAssumption DEF PipeInv, FlightInv, FlightOf
<1>5. Plain(u) /\ Honest(u)
  BY <1>4 DEF IsUrb, Plain, Isos, Honest
<1>6. u.fn = BULK => Known(u.pipe)
  <2>1. u.fn = BULK => u.pipe # NoHandle
    BY <1>4 DEF IsUrb, BULK
  <2> QED
    BY <1>1, <1>3, <2>1, PipeKnown
<1>7. CASE Writes(i, "bus", Packets(u, FALSE))
  <2>1. PICK ps : ps = Packets(u, FALSE)
    OBVIOUS
  <2>2. ps = <<>> \/ \E p : ps = <<p>>
    BY <2>1, PacketsOne DEF OneFor
  <2>3. Writes(i, "bus", ps)
    BY <1>7, <2>1
  <2>4. irp'[i].at = "bus" /\ irp'[i].urb = u
    BY <1>3, <2>3 DEF Writes, Step
  <2>5. \/ irp'[i].logged = <<>>
        \/ \E p, e : ps = <<p>> /\ e.packet = p /\ irp'[i].logged = <<e>>
    BY <1>2, <2>2, <2>3, WritesStory
  <2>6. PICK way : way = Way(u.pipe)
    OBVIOUS
  <2>7. CASE irp'[i].logged = <<>>
    BY <2>7 DEF StoryOf, Story
  <2>8. CASE \E p, e : ps = <<p>> /\ e.packet = p /\ irp'[i].logged = <<e>>
    <3>1. PICK p, e : ps = <<p>> /\ e.packet = p /\ irp'[i].logged = <<e>>
      BY <2>8
    <3>2. Down(p, u, way)
      BY <1>0, <1>5, <1>6, <2>1, <2>6, <3>1, DownSays
    <3>3. Sent(irp'[i].logged, u, way)
      BY <3>1, <3>2 DEF Sent
    <3>4. Story(irp'[i].at, irp'[i].logged, u, way)
      BY <2>4, <3>3 DEF Story
    <3> QED
      BY <1>1, <2>4, <2>6, <3>4, StoryStays
  <2> QED
    BY <2>5, <2>7, <2>8
<1>8. CASE \E d : Step(i, "bus", u, irp[i].logged, d)
  BY <1>2, <1>8 DEF Step, StoryOf, Story
<1> QED
  BY <1>0, <1>3, <1>7, <1>8, AnalyzeSubmitStep

LEMMA BusStory ==
  ASSUME UrbInv, PipeInv, StoryInv, NEW i \in Irps, BusCompletes(i)
  PROVE  StoryOf(i)'
<1>0. Shaped
  BY DEF UrbInv
<1>1. PICK v : /\ Returned(irp[i].urb, v)
               /\ Step(i, "returned", v, irp[i].logged, irp[i].dropped)
  BY <1>0, BusStep
<1>2. /\ irp[i].at = "bus" /\ irp'[i].at = "returned" /\ irp'[i].urb = v
      /\ irp'[i].logged = irp[i].logged
  BY <1>1 DEF BusCompletes, Step
<1>3. PICK u, log, way, other :
        /\ u = irp[i].urb /\ log = irp[i].logged /\ way = Way(u.pipe)
        /\ other = IF IsIn(busPipe'[u.pipe].ep) \/ u.pipe \in lost' THEN "up" ELSE "down"
  OBVIOUS
<1>4. [Next]_vars
  BY DEF Next
<1>5. u.fn = BULK => other = way
  BY <1>2, <1>3, <1>4, WayOf
<1>6. log = <<>> \/ Sent(log, u, way)
  BY <1>2, <1>3 DEF StoryInv, StoryOf, Story
<1>7. CASE log = <<>>
  BY <1>2, <1>3, <1>7 DEF StoryOf, Story
<1>8. CASE Sent(log, u, way)
  <2>1. PICK d : log = <<d>> /\ Down(d.packet, u, way)
    BY <1>8 DEF Sent
  <2>2. Down(d.packet, v, other)
    BY <1>1, <1>3, <1>5, <2>1, DownReturned
  <2>3. Story("returned", log, v, other)
    BY <2>1, <2>2 DEF Story, Sent
  <2>4. v.pipe = u.pipe
    BY <1>1, <1>3 DEF Returned
  <2>5. other = IF IsIn(busPipe'[v.pipe].ep) \/ v.pipe \in lost' THEN "up" ELSE "down"
    BY <1>3, <2>4
  <2>6. irp'[i].logged = log
    BY <1>2, <1>3
  <2> QED
    BY <1>2, <2>3, <2>5, <2>6, Zenon DEF StoryOf, Way
<1> QED
  BY <1>6, <1>7, <1>8

(* The note of an unknown function says nothing of a setup packet.         *)
LEMMA LogUnknownStory ==
  ASSUME UrbInv, PipeInv, StoryInv, NEW i \in Irps, LogUnknownSubmit(i)
  PROVE  StoryOf(i)'
<1>0. Shaped
  BY DEF UrbInv
<1>1. irp[i].at = "unknown" /\ UNCHANGED <<busPipe, lost>>
  BY DEF LogUnknownSubmit, bus, history
<1>2. irp[i].logged = <<>>
  BY <1>1 DEF StoryInv, StoryOf, Story
<1>3. PICK u, way : u = irp[i].urb /\ way = Way(u.pipe)
  OBVIOUS
<1>4. u.fn # BULK
  BY <1>1, <1>3 DEF PipeInv, FlightInv, FlightOf
<1>5. PICK p : p.type = -1 /\ p.payload = <<>> /\ Writes(i, "completing", <<p>>)
  BY <1>0, UnknownStory
<1>6. irp'[i].at = "completing" /\ irp'[i].urb = u
  BY <1>3, <1>5 DEF Writes, Step
<1>7. \/ irp'[i].logged = <<>>
      \/ \E r, e : <<p>> = <<r>> /\ e.packet = r /\ irp'[i].logged = <<e>>
  BY <1>2, <1>5, WritesStory
<1>8. Down(p, u, way)
  BY <1>4, <1>5 DEF Down
<1>9. CASE irp'[i].logged = <<>>
  BY <1>9 DEF StoryOf, Story
<1>10. CASE irp'[i].logged # <<>>
  <2>1. PICK e : e.packet = p /\ irp'[i].logged = <<e>>
    BY <1>7, <1>10
  <2>2. Sent(irp'[i].logged, u, way)
    BY <1>8, <2>1 DEF Sent
  <2>3. Story(irp'[i].at, irp'[i].logged, u, way)
    BY <1>6, <2>2 DEF Story
  <2> QED
    BY <1>1, <1>3, <1>6, <2>3, StoryStays
<1> QED
  BY <1>9, <1>10

LEMMA LogCompleteStory ==
  ASSUME UrbInv, PipeInv, StoryInv, NEW i \in Irps, LogComplete(i)
  PROVE  StoryOf(i)'
<1>0. Shaped /\ TableInv
  BY DEF UrbInv, PipeInv
<1>1. irp[i].at = "completing" /\ UNCHANGED <<busPipe, lost>>
  BY DEF LogComplete, bus
<1>2. PICK u, way : u = irp[i].urb /\ way = Way(u.pipe)
  OBVIOUS
<1>3. irp[i].logged = <<>> \/ Sent(irp[i].logged, u, way)
  BY <1>1, <1>2 DEF StoryInv, StoryOf, Story
<1>4. Plain(u) /\ (u.fn = BULK => u.pipe # NoHandle)
  BY <1>1, <1>2 DEF PipeInv, FlightInv, FlightOf
<1>5. u.fn = BULK => Known(u.pipe)
  BY <1>1, <1>2, <1>4, PipeKnown
<1>6. PICK ps : ps = Packets(u, TRUE)
  OBVIOUS
<1>7. ps = <<>> \/ \E p : ps = <<p>>
  BY <1>6, PacketsOne DEF OneFor
<1>8. Writes(i, "done", ps)
  BY <1>0, <1>2, <1>6, LogCompleteStep
<1>9. irp'[i].at = "done" /\ irp'[i].urb = u
  BY <1>2, <1>8 DEF Writes, Step
<1>10. ASSUME NEW p, ps = <<p>>  PROVE Up(p, u, way)
  BY <1>0, <1>2, <1>4, <1>5, <1>6, <1>10, UpSays
<1>11. CASE irp[i].logged = <<>>
  <2>1. \/ irp'[i].logged = <<>>
        \/ \E p, e : ps = <<p>> /\ e.packet = p /\ irp'[i].logged = <<e>>
    BY <1>7, <1>8, <1>11, WritesStory
  <2>2. Story(irp'[i].at, irp'[i].logged, u, way)
    BY <1>9, <1>10, <2>1 DEF Story, Came
  <2> QED
    BY <1>1, <1>2, <1>9, <2>2, StoryStays
<1>12. CASE Sent(irp[i].logged, u, way)
  <2>1. PICK d : irp[i].logged = <<d>> /\ Down(d.packet, u, way)
    BY <1>12 DEF Sent
  <2>2. \/ irp'[i].logged = <<d>>
        \/ \E p, e : ps = <<p>> /\ e.packet = p /\ irp'[i].logged = <<d, e>>
    BY <1>7, <1>8, <2>1, WritesStory
  <2>3. Story(irp'[i].at, irp'[i].logged, u, way)
    BY <1>9, <1>10, <2>1, <2>2 DEF Story, Sent, Both
  <2> QED
    BY <1>1, <1>2, <1>9, <2>3, StoryStays
<1> QED
  BY <1>3, <1>11, <1>12

LEMMA StoryStep ==
  ASSUME UrbInv, PipeInv, LogInv, StoryInv, [Next]_vars
  PROVE  StoryInv'
<1>0. Shaped
  BY DEF UrbInv
<1>1. CASE Apart
  <2>1. UNCHANGED irp
    BY <1>1, ApartLeaves
  <2> QED
    BY <2>1, StoryKept DEF StoryInv
<1>2. CASE Replacing \/ Renewing
  <2>1. \A j \in Irps : /\ irp'[j].at = irp[j].at /\ irp'[j].urb = irp[j].urb
                        /\ irp'[j].logged = irp[j].logged
    BY <1>0, <1>2, ReplacingReplaces, RenewingReplaces, ReplaceStep DEF Replaces
  <2> QED
    BY <2>1, StoryKept DEF StoryInv
<1>3. ASSUME NEW i \in Irps, \A j \in Irps : j # i => irp'[j] = irp[j], StoryOf(i)'
      PROVE  StoryInv'
  <2>1. \A j \in Irps : j # i => StoryOf(j)'
    BY <1>3, StoryKept
  <2> QED
    BY <1>3, <2>1 DEF StoryInv
<1>4. ASSUME NEW i \in Irps, NEW u \in Urbs[i], Submit(i, u)
      PROVE  StoryInv'
  <2>1. (\A j \in Irps : j # i => irp'[j] = irp[j]) /\ irp'[i].logged = <<>>
    BY <1>0, <1>4, SubmitStep
  <2> QED
    BY <1>3, <2>1 DEF StoryOf, Story
<1>5. ASSUME NEW i \in Irps, AnalyzeSubmit(i)
      PROVE  StoryInv'
  BY <1>0, <1>3, <1>5, MovesSubmit, AnalyzeSubmitStory DEF Moves
<1>6. ASSUME NEW i \in Irps, BusCompletes(i)
      PROVE  StoryInv'
  <2>1. \A j \in Irps : j # i => irp'[j] = irp[j]
    BY <1>0, <1>6, BusStep DEF Step
  <2> QED
    BY <1>3, <1>6, <2>1, BusStory
<1>7. ASSUME NEW i \in Irps, AnalyzeComplete(i)
      PROVE  StoryInv'
  <2>1. PICK at : /\ at = IF ~Filtered THEN "done"
                          ELSE IF i \in DOMAIN URBIrpTable THEN "unknown" ELSE "completing"
                  /\ Step(i, at, irp[i].urb, irp[i].logged, irp[i].dropped)
    BY <1>0, <1>7, AnalyzeCompleteStep
  <2>2. /\ \A j \in Irps : j # i => irp'[j] = irp[j]
        /\ irp'[i].at = at /\ irp'[i].urb = irp[i].urb /\ irp'[i].logged = irp[i].logged
    BY <2>1 DEF Step
  <2>3. irp[i].at = "returned"
    BY <1>7 DEF AnalyzeComplete
  <2>4. i \in DOMAIN URBIrpTable => irp[i].logged = <<>>
    BY <2>3 DEF LogInv, SoFar
  <2>5. StoryOf(i)'
    BY <2>1, <2>2, <2>3, <2>4, StoryKept
  <2> QED
    BY <1>3, <2>2, <2>5
<1>8. ASSUME NEW i \in Irps, LogUnknownSubmit(i)
      PROVE  StoryInv'
  BY <1>0, <1>3, <1>8, MovesUnknown, LogUnknownStory DEF Moves
<1>9. ASSUME NEW i \in Irps, LogComplete(i)
      PROVE  StoryInv'
  BY <1>0, <1>3, <1>9, MovesComplete, LogCompleteStory DEF Moves
<1>10. ASSUME NEW i \in Irps, Return(i)
       PROVE  StoryInv'
  <2>1. (\A j \in Irps : j # i => irp'[j] = irp[j]) /\ irp'[i].logged = <<>>
    BY <1>0, <1>10, ReturnStep
  <2> QED
    BY <1>3, <2>1 DEF StoryOf, Story
<1> QED
  BY <1>1, <1>2, <1>4, <1>5, <1>6, <1>7, <1>8, <1>9, <1>10, NextCases
-----------------------------------------------------------------------------
(* What a dissector reads. *)

(* A pair is a submission and a completion of the same URB.                *)
LEMMA PairSays ==
  ASSUME StoryInv, NEW i \in Irps, Finished(i), Len(irp[i].logged) = 2
  PROVE  \E p, q : /\ LoggedPackets(i) = <<p, q>>
                   /\ Down(p, irp[i].urb, Way(irp[i].urb.pipe))
                   /\ Up(q, irp[i].urb, Way(irp[i].urb.pipe))
<1>1. PICK log, u, way : log = irp[i].logged /\ u = irp[i].urb /\ way = Way(u.pipe)
  OBVIOUS
<1>2. Story("done", log, u, way)
  BY <1>1 DEF StoryInv, StoryOf, Finished
<1>3. log # <<>> /\ \A d : log # <<d>>
  BY <1>1, SMTT(30)
<1>4. Both(log, u, way)
  BY <1>2, <1>3 DEF Story, Sent, Came
<1>5. PICK d, e : log = <<d, e>> /\ Down(d.packet, u, way) /\ Up(e.packet, u, way)
  BY <1>4 DEF Both
<1>6. LoggedPackets(i) = [n \in DOMAIN log |-> log[n].packet]
  BY <1>1 DEF LoggedPackets
<1>7. LoggedPackets(i) = <<d.packet, e.packet>>
  BY <1>5, <1>6
<1> QED
  BY <1>1, <1>5, <1>7

LEMMA StoryData ==
  ASSUME StoryInv
  PROVE  DataOnce
<1>1. SUFFICES ASSUME NEW i \in Irps, Finished(i), Len(irp[i].logged) = 2
               PROVE  LET u  == irp[i].urb
                          ps == LoggedPackets(i)
                          up == IsIn(busPipe[u.pipe].ep) \/ u.pipe \in lost
                      IN  u.fn = "BULK_OR_INTERRUPT_TRANSFER" /\ u.len # 0 =>
                            (ps[1].data # 0) = ~up /\ (ps[2].data # 0) = up
  BY DEF DataOnce
<1>2. PICK u, way : u = irp[i].urb /\ way = Way(u.pipe)
  OBVIOUS
<1>3. PICK p, q : LoggedPackets(i) = <<p, q>> /\ Down(p, u, way) /\ Up(q, u, way)
  BY <1>1, <1>2, PairSays
<1>4. /\ way = "up" <=> (IsIn(busPipe[u.pipe].ep) \/ u.pipe \in lost)
      /\ way = "down" <=> ~(IsIn(busPipe[u.pipe].ep) \/ u.pipe \in lost)
  BY <1>2 DEF Way
<1>5. u.fn = "BULK_OR_INTERRUPT_TRANSFER" /\ u.len # 0 =>
        (p.data # 0 <=> way = "down") /\ (q.data # 0 <=> way = "up")
  BY <1>3 DEF Down, Up, BULK
<1>6. PICK ps : ps = LoggedPackets(i)
  OBVIOUS
<1>7. ps[1] = p /\ ps[2] = q
  BY <1>3, <1>6
<1>8. u.fn = "BULK_OR_INTERRUPT_TRANSFER" /\ u.len # 0 =>
        /\ (ps[1].data # 0) = ~(IsIn(busPipe[u.pipe].ep) \/ u.pipe \in lost)
        /\ (ps[2].data # 0) = (IsIn(busPipe[u.pipe].ep) \/ u.pipe \in lost)
  BY <1>4, <1>5, <1>7
<1> QED
  BY <1>2, <1>6, <1>8, Zenon

LEMMA StorySetup ==
  ASSUME StoryInv, PipeInv
  PROVE  SetupAgrees
<1>1. SUFFICES ASSUME NEW i \in Irps, Finished(i), Len(irp[i].logged) = 2
               PROVE  LET ps == LoggedPackets(i) IN
                      ps[1].type # -1 =>
                        /\ \A n \in 1 .. 2 : IsIn(ps[n].endpoint) = (ps[1].type >= 128)
                        /\ ps[1].type >= 128 => ps[1].data = 0
                        /\ ps[1].type < 128 => ps[2].data = 0
  BY DEF SetupAgrees
<1>2. PICK u, way : u = irp[i].urb /\ way = Way(u.pipe)
  OBVIOUS
<1>3. PICK p, q : LoggedPackets(i) = <<p, q>> /\ Down(p, u, way) /\ Up(q, u, way)
  BY <1>1, <1>2, PairSays
<1>4. PICK ps : ps = LoggedPackets(i)
  OBVIOUS
<1>5. ps[1] = p /\ ps[2] = q
  BY <1>3, <1>4
<1>6. p.type # -1 =>
        /\ u.fn \in SetupFns /\ Honest(u) /\ p.type = TransferType(u)
        /\ IsIn(p.endpoint) <=> p.type >= 128
        /\ p.type >= 128 => p.data = 0
  BY <1>3 DEF Down
<1>7. p.type # -1 =>
        /\ IsIn(q.endpoint) <=> p.type >= 128
        /\ p.type < 128 => q.data = 0
  BY <1>3, <1>6 DEF Up
<1>8. ASSUME p.type # -1, NEW n \in 1 .. 2
      PROVE  IsIn(ps[n].endpoint) = (ps[1].type >= 128)
  <2>1. n = 1 \/ n = 2
    OBVIOUS
  <2>2. IsIn(p.endpoint) = (p.type >= 128) /\ IsIn(q.endpoint) = (p.type >= 128)
    BY <1>6, <1>7, <1>8 DEF IsIn
  <2> QED
    BY <1>5, <2>1, <2>2
<1>9. ps[1].type # -1 =>
        /\ \A n \in 1 .. 2 : IsIn(ps[n].endpoint) = (ps[1].type >= 128)
        /\ ps[1].type >= 128 => ps[1].data = 0
        /\ ps[1].type < 128 => ps[2].data = 0
  BY <1>5, <1>6, <1>7, <1>8
<1> QED
  BY <1>4, <1>9, Zenon

LEMMA StoryIso ==
  ASSUME StoryInv
  PROVE  IsoReadable
<1>1. ASSUME NEW i \in Irps, Finished(i), NEW n \in DOMAIN irp[i].logged,
             irp[i].logged[n].packet.payload # <<>>
      PROVE  Readable(irp[i].logged[n].packet, irp[i].urb)
  <2>1. PICK log, u, way : log = irp[i].logged /\ u = irp[i].urb /\ way = Way(u.pipe)
    OBVIOUS
  <2>2. Story("done", log, u, way)
    BY <1>1, <2>1 DEF StoryInv, StoryOf, Finished
  <2>3. n \in DOMAIN log /\ log[n].packet.payload # <<>>
    BY <1>1, <2>1
  <2>4. \A p : (Down(p, u, way) => p.payload = <<>>)
               /\ (Up(p, u, way) /\ p.payload # <<>> => Readable(p, u))
    BY DEF Down, Up
  <2>5. Readable(log[n].packet, u)
    <3>1. CASE Sent(log, u, way)
      BY <2>3, <2>4, <3>1 DEF Sent
    <3>2. CASE Came(log, u, way)
      BY <2>3, <2>4, <3>2 DEF Came
    <3>3. CASE Both(log, u, way)
      <4>1. PICK d, e : log = <<d, e>> /\ Down(d.packet, u, way) /\ Up(e.packet, u, way)
        BY <3>3 DEF Both
      <4>2. log[n] = d \/ log[n] = e
        BY <2>3, <4>1
      <4> QED
        BY <2>3, <2>4, <4>1, <4>2
    <3>4. log # <<>>
      BY <2>3
    <3> QED
      BY <2>2, <3>1, <3>2, <3>3, <3>4 DEF Story
  <2> QED
    BY <2>1, <2>5
<1> QED
  BY <1>1, Zenon DEF IsoReadable, Readable

LEMMA StoryInit ==
  ASSUME Init
  PROVE  StoryInv
<1>1. PICK y : y = Idle
  OBVIOUS
<1>2. irp = [i \in Irps |-> y] /\ y.logged = <<>>
  BY <1>1, IdleShape DEF Init
<1> QED
  BY <1>2 DEF StoryInv, StoryOf, Story

AllInv == UrbInv /\ PipeInv /\ BitsInv /\ TestedInv /\ LogInv /\ StoryInv

LEMMA AllInit ==
  ASSUME Init
  PROVE  AllInv
BY UrbInit, PipeInit, BitsInit, WantedInit, StoryInit DEF AllInv

LEMMA AllStep ==
  ASSUME AllInv, [Next]_vars
  PROVE  AllInv'
BY UrbStep, PipeStep, BitsStep, TestedStep, LogStep, StoryStep DEF AllInv

(* The data of a bulk or interrupt transfer that is logged as a pair is in *)
(* exactly one of its two packets, the one that the direction of the real  *)
(* endpoint asks for (USBPcapAnalyzeURB reads it from the endpoint table): *)
(* no selection under way changes the entry between the two packets.       *)
THEOREM DataAlwaysOnce == Spec => []DataOnce
<1>1. Init => AllInv
  BY AllInit
<1>2. AllInv /\ [Next]_vars => AllInv'
  BY AllStep
<1>3. AllInv => DataOnce
  BY StoryData DEF AllInv
<1> QED
  BY <1>1, <1>2, <1>3, PTL DEF Spec

(* In a logged control transfer the endpoints of both packets have bit 7   *)
(* of the request type, and the data is in the packet of that direction,   *)
(* for every function that USBPcapAnalyzeURB turns into a setup packet and *)
(* for the setup packets of the client.                                    *)
THEOREM SetupAlwaysAgrees == Spec => []SetupAgrees
<1>1. Init => AllInv
  BY AllInit
<1>2. AllInv /\ [Next]_vars => AllInv'
  BY AllStep
<1>3. AllInv => SetupAgrees
  BY StorySetup DEF AllInv
<1> QED
  BY <1>1, <1>2, <1>3, PTL DEF Spec

(* A reader of an isochronous completion finds every packet at the offset  *)
(* and with the length that its header gives, byte for byte as it was in   *)
(* the transfer buffer, and no byte beyond that buffer was read.           *)
THEOREM IsoAlwaysReadable == Spec => []IsoReadable
<1>1. Init => AllInv
  BY AllInit
<1>2. AllInv /\ [Next]_vars => AllInv'
  BY AllStep
<1>3. AllInv => IsoReadable
  BY StoryIso DEF AllInv
<1> QED
  BY <1>1, <1>2, <1>3, PTL DEF Spec
=============================================================================
