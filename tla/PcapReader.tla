------------------------------ MODULE PcapReader ------------------------------
(***************************************************************************)
(* The pcap reader of the service, USBPcapAI/internal/pcap: OpenReader,    *)
(* Reader.Next and the walk over the records that SummarizeReader and      *)
(* Analyze share, as operators on the bytes of CaptureStream.  The magic   *)
(* number and link type are right exactly when the file starts with the    *)
(* global header; what a record says about transfer, endpoint and device   *)
(* is left out, the counts by them follow from the count.                  *)
(*                                                                         *)
(* Definitions named Faulty... are deliberately wrong variants of the one  *)
(* that follows; they show which property would notice the mistake.        *)
(***************************************************************************)
EXTENDS Integers, Sequences

CONSTANTS
  GlobalHeaderLen, RecordHeaderLen,   \* lengths of the two headers
  GlobalId,                           \* name of the global header
  MaxRecordSize                       \* largest incl_len that is accepted

(* The first header of the file is there and is that of a USBPcap capture. *)
OpenReader(f) == Len(f) >= GlobalHeaderLen /\ f[1].id = GlobalId

FaultyNext(f, pos) ==                       \* refuses a record without a body
  LET rest    == Len(f) - pos
      inclLen == f[pos + 1].of - RecordHeaderLen
  IN IF rest = 0 THEN "eof"
     ELSE IF rest <= RecordHeaderLen \/ inclLen > MaxRecordSize THEN "error"
     ELSE IF rest < RecordHeaderLen + inclLen THEN "error" ELSE "record"

(* What Next returns behind the first pos bytes: a record, "eof" where the *)
(* callers find io.EOF in the error, or another error.  io.ReadFull gives  *)
(* io.EOF when there is not one byte of the body, and "truncated record"   *)
(* wraps it, so a file that ends right after a record header just ends.    *)
Next(f, pos) ==
  LET rest    == Len(f) - pos
      inclLen == f[pos + 1].of - RecordHeaderLen
  IN IF rest = 0 THEN "eof"
     ELSE IF rest < RecordHeaderLen \/ inclLen > MaxRecordSize THEN "error"
     ELSE IF rest = RecordHeaderLen /\ inclLen > 0 THEN "eof"
     ELSE IF rest < RecordHeaderLen + inclLen THEN "error" ELSE "record"

(* The records from pos on, counted until the file ends or an error gives  *)
(* the summary up.                                                         *)
SummarizeReader(f) ==
  LET walk[pos \in 0 .. Len(f)] ==
        IF Next(f, pos) = "record"
        THEN LET s == walk[pos + f[pos + 1].of]
             IN  [s EXCEPT !.packets = @ + 1]
        ELSE [error |-> Next(f, pos) = "error", packets |-> 0]
  IN IF OpenReader(f) THEN walk[GlobalHeaderLen]
                      ELSE [error |-> TRUE, packets |-> 0]
=============================================================================
