--------------------------- MODULE CaptureThread ---------------------------
(***************************************************************************)
(* One capture by USBPcapCMD: start_capture in USBPcapCMD/cmd.c and the    *)
(* thread it starts, read_thread in thread.c, which reads the capture      *)
(* stream, cuts it into records, keeps those the application filter wants  *)
(* and writes them to the output.                                          *)
(*                                                                         *)
(* The other end of the read handle is CaptureStream, which the driver's   *)
(* buffer is shown to implement.  It is read either directly, by an        *)
(* elevated process whose reads are as large as the driver's buffer and so *)
(* return all that is unread, or through the pipe of an elevated worker,   *)
(* which cuts the stream anywhere; then the output is standard output.  Or *)
(* the worker, another USBPcapCMD, writes the file itself, and there is no *)
(* thread.                                                                 *)
(* Bytes are those of CaptureStream.                                       *)
(*                                                                         *)
(* Definitions named Faulty... are deliberately wrong variants of the one  *)
(* that follows; they show which property would notice the mistake.        *)
(***************************************************************************)
EXTENDS Integers, Sequences, FiniteSets

CONSTANTS
  Ids,                                \* names of the packets
  Matching,                           \* those that pass app_packet_matches
  GlobalId, DescId, NoId,             \* global header, descriptors, no name
  GlobalHeaderLen, RecordHeaderLen,   \* lengths of the two headers
  Snaplen,                            \* data->snaplen
  MaxRecordSize,                      \* limit of the service's pcap reader
  MaxRecords                          \* bound: packets stored by the driver

ASSUME ThreadAssumption ==
  /\ Matching \subseteq Ids
  /\ {GlobalId, DescId, NoId} \cap Ids = {}
  /\ Cardinality({GlobalId, DescId, NoId}) = 3
  /\ {GlobalHeaderLen, RecordHeaderLen, Snaplen} \subseteq Nat \ {0}
  /\ MaxRecordSize \in Nat /\ Snaplen <= MaxRecordSize
  /\ MaxRecords \in Nat

VARIABLES
  open, queue, last, snaplen,   \* the stream, see CaptureStream
  stored,      \* packets the driver has stored in it
  cfg,         \* the options of the capture and the state of its output path
  data,        \* struct thread_data, as far as the two threads share it
  parser,      \* packet_parser_context; buf is data->descriptors.buf
  read,        \* the outstanding read: its progress and its bytes
  worker,      \* the elevated worker process; made: it created the output
  main,        \* where start_capture is
  thread,      \* where read_thread is
  file,        \* what this capture wrote, as long as no write failed
  report,      \* what is printed as JSON at the end
  received,    \* history: all bytes given to process_data
  broken       \* history: a write failed

Stream == INSTANCE CaptureStream
Reader == INSTANCE PcapReader
streamVars == <<open, queue, last, snaplen, stored>>
outputVars == <<file, broken>>
vars == <<streamVars, cfg, data, parser, read, worker, main, thread,
          outputVars, report, received>>

Header == Stream!Chunk(GlobalId, GlobalHeaderLen)
Raw    == ~cfg.filter /\ cfg.store = "immediate"

(* Descriptors, a record here, are injected by the process that opens the  *)
(* driver.                                                                 *)
Descriptors == IF cfg.inject THEN Stream!Chunk(DescId, RecordHeaderLen) ELSE <<>>

Options ==
  {c \in [source : {"driver", "pipe", "worker"}, filter : BOOLEAN,
          store : {"immediate", "on-match"}, inject : BOOLEAN,
          output : {"new", "exists", "denied", "stdout"}] :
     /\ c.source = "pipe" => c.output = "stdout" /\ ~c.inject
     /\ c.source = "worker" => c.output # "stdout" /\ ~c.inject}

Init ==
  /\ Stream!Init /\ stored = 0
  /\ cfg \in Options
  /\ data = [process |-> TRUE, exit_event |-> FALSE, read_handle |-> FALSE,
             write_handle |-> FALSE, triggered |-> FALSE,
             output_created |-> FALSE, dropped_packets |-> 0]
  /\ parser = [pending |-> <<>>, have_pcap_header |-> FALSE,
               wrote_pcap_header |-> FALSE, buf |-> <<>>]
  /\ read = [at |-> "none", bytes |-> <<>>]
  /\ worker = [at |-> "none", made |-> FALSE]
  /\ main = "start" /\ thread = "none"
  /\ file = <<>> /\ broken = FALSE
  /\ report = [done |-> FALSE]
  /\ received = <<>>

Drop(s, n) == SubSeq(s, n + 1, Len(s))
-----------------------------------------------------------------------------
(* The driver. *)

StorePacket(id, inclLen) ==
  /\ stored < MaxRecords
  /\ cfg.source = "pipe" => worker.at = "running"
  /\ Stream!Store(id, inclLen, 0)
  /\ stored' = stored + 1
  /\ UNCHANGED <<cfg, worker, data, parser, read, main, thread, outputVars,
                 report, received>>

(* The outstanding read completes with data, or fails.                     *)
ReadCompletes(n) ==
  /\ read.at = "issued"
  /\ cfg.source # "pipe" => n = Len(queue)
  /\ Stream!Read(n)
  /\ read' = [at |-> "done", bytes |-> SubSeq(queue, 1, n)]
  /\ UNCHANGED <<stored, cfg, worker, data, parser, main, thread, outputVars,
                 report, received>>

ReadFails ==
  /\ read.at = "issued"
  /\ read' = [at |-> "done", bytes |-> <<>>]
  /\ UNCHANGED <<streamVars, cfg, worker, data, parser, main, thread,
                 outputVars, report, received>>
-----------------------------------------------------------------------------
(* Output. *)

(* CreateFile with CREATE_NEW; standard output is always there.            *)
OpenOutput(d) ==
  IF d.write_handle \/ cfg.output \in {"exists", "denied"} THEN d
  ELSE [d EXCEPT !.write_handle = TRUE, !.output_created = TRUE]

(* How a write may end: complete, short or refused with the capture        *)
(* stopped, or lost with nothing but a message.                            *)
Outcomes == {"ok", "failed", "lost"}

(* write_data of each of the non-empty pieces ws, one after the other.     *)
(* What the file holds is followed until a write has failed.               *)
write_data(d, ws) ==
  LET used == {i \in 1 .. 3 : ws[i] # <<>>}
  IN \E o \in [1 .. 3 -> Outcomes] :
       /\ \A i \in 1 .. 3 : i \notin used => o[i] = "ok"
       /\ \A i \in used : ~d.write_handle => o[i] = "failed"
       /\ data' = [d EXCEPT !.process =
                     @ /\ \A i \in used : o[i] \in {"ok", "lost"}]
       /\ broken' = (broken \/ \E i \in used : o[i] # "ok")
       /\ file' = IF broken' THEN <<>>
                             ELSE file \o ws[1] \o ws[2] \o ws[3]
-----------------------------------------------------------------------------
(* read_thread. *)

(* The thread starts: without a read handle it is finished, otherwise the  *)
(* first read is issued.  On a pipe it first waits for the worker to       *)
(* connect; that may fail, and if the worker was there first (ERROR_PIPE_  *)
(* CONNECTED) no event tells of it and nothing is ever read.               *)
BeginThread ==
  /\ thread = "begin"
  /\ \/ /\ thread' = "leave"               \* also if there is no memory
        /\ UNCHANGED <<read, data>>
     \/ /\ data.read_handle /\ cfg.source = "driver"
        /\ thread' = "loop"
        /\ read' = [read EXCEPT !.at = "issued"]
        /\ UNCHANGED data
     \/ /\ data.read_handle /\ cfg.source = "pipe"
        /\ thread' = "loop"
        /\ \/ /\ read' = [read EXCEPT !.at = "connecting"]
              /\ UNCHANGED data
           \/ /\ data' = [data EXCEPT !.process = FALSE]
              /\ UNCHANGED read
           \/ UNCHANGED <<read, data>>
  /\ UNCHANGED <<streamVars, cfg, worker, parser, main, outputVars, report,
                 received>>

CheckProcess ==
  /\ thread = "loop"
  /\ thread' = IF data.process THEN "wait" ELSE "leave"
  /\ UNCHANGED <<streamVars, cfg, worker, data, parser, read, main,
                 outputVars, report, received>>

PipeConnected ==
  /\ thread = "wait"
  /\ read.at = "connecting"
  /\ read' = [read EXCEPT !.at = "issued"]
  /\ thread' = "loop"
  /\ UNCHANGED <<streamVars, cfg, worker, data, parser, main, outputVars,
                 report, received>>

(* The exit event is set, or nobody reads the output pipe any more.  The   *)
(* event of a completed read comes first in the table.                     *)
StopThread ==
  /\ thread = "wait"
  /\ read.at # "done"
  /\ data.exit_event \/ cfg.output = "stdout"
  /\ data' = [data EXCEPT !.process = FALSE]
  /\ thread' = "loop"
  /\ UNCHANGED <<streamVars, cfg, worker, parser, read, main, outputVars,
                 report, received>>

FaultyToWrite(missing, bytes) ==            \* runs over the end of buf
  IF missing > 0 THEN bytes ELSE 0

(* How many of the bytes read go to descriptors.buf.                       *)
ToWrite(missing, bytes) == IF missing > bytes THEN bytes ELSE missing

(* process_data without a filter: the stream is copied as it comes, with   *)
(* the descriptors after the global header, which is collected first.      *)
process_data_raw ==
  LET missing == GlobalHeaderLen - Len(parser.buf)
      n       == ToWrite(missing, Len(read.bytes))
      buf     == parser.buf \o SubSeq(read.bytes, 1, n)
      filled  == missing > 0 /\ Len(buf) = GlobalHeaderLen
  IN /\ thread = "wait" /\ read.at = "done" /\ Raw
     /\ write_data(data, <<IF filled THEN buf ELSE <<>>,
                           IF filled THEN Descriptors ELSE <<>>,
                           Drop(read.bytes, n)>>)
     /\ parser' = [parser EXCEPT !.buf = buf]
     /\ received' = received \o read.bytes
     /\ thread' = "reread"
     /\ UNCHANGED <<streamVars, cfg, worker, read, main, report>>

(* process_data with a filter or a trigger: the bytes join the pending     *)
(* ones, unless there is no memory for them.                               *)
process_data ==
  /\ thread = "wait" /\ read.at = "done" /\ ~Raw
  /\ \/ /\ parser' = [parser EXCEPT !.pending = @ \o read.bytes]
        /\ received' = received \o read.bytes
        /\ thread' = "parse"
        /\ UNCHANGED data
     \/ /\ data' = [data EXCEPT !.process = FALSE]
        /\ thread' = "reread"
        /\ UNCHANGED <<parser, received>>
  /\ UNCHANGED <<streamVars, cfg, worker, read, main, outputVars, report>>

FaultyTakeHeader(p) ==                      \* keeps it among the records
  IF ~p.have_pcap_header /\ Len(p.pending) >= GlobalHeaderLen
  THEN [p EXCEPT !.have_pcap_header = TRUE]
  ELSE p

TakeHeader(p) ==
  IF ~p.have_pcap_header /\ Len(p.pending) >= GlobalHeaderLen
  THEN [p EXCEPT !.pending = Drop(p.pending, GlobalHeaderLen),
                 !.have_pcap_header = TRUE]
  ELSE p

FaultyNextRecord(p) ==                      \* does not wait for all of it
  IF p.have_pcap_header /\ Len(p.pending) >= RecordHeaderLen
  THEN SubSeq(p.pending, 1, IF p.pending[1].of <= Len(p.pending)
                            THEN p.pending[1].of ELSE Len(p.pending))
  ELSE <<>>

(* The first record among the pending bytes, if all of it is there.        *)
NextRecord(p) ==
  IF /\ p.have_pcap_header
     /\ Len(p.pending) >= RecordHeaderLen
     /\ Len(p.pending) >= p.pending[1].of
  THEN SubSeq(p.pending, 1, p.pending[1].of)
  ELSE <<>>

app_packet_matches(id) == ~cfg.filter \/ id \in Matching

(* One round of the loop of process_data: the global header if it has just *)
(* become complete, the next record if there is one, and before the first  *)
(* thing that is written begin_output_stream.                              *)
ParseRecord ==
  LET p      == TakeHeader(parser)
      rec    == NextRecord(p)
      match  == rec # <<>> /\ app_packet_matches(rec[1].id)
      begins == /\ p.have_pcap_header /\ ~p.wrote_pcap_header
                /\ cfg.store = "immediate" \/ match
      d      == IF begins THEN OpenOutput(data) ELSE data
  IN /\ thread = "parse" /\ data.process
     /\ \/ /\ begins /\ ~d.write_handle
           /\ parser' = p
           /\ data' = [d EXCEPT !.process = FALSE]
           /\ thread' = "reread"
           /\ UNCHANGED outputVars
        \/ /\ begins => d.write_handle
           /\ parser' = [p EXCEPT !.pending = Drop(@, Len(rec)),
                                  !.wrote_pcap_header = @ \/ begins]
           /\ write_data(
                [d EXCEPT !.triggered = @ \/ begins,
                          !.dropped_packets =
                             IF rec # <<>> /\ ~match THEN @ + 1 ELSE @],
                <<IF begins THEN Header ELSE <<>>,
                  IF begins THEN Descriptors ELSE <<>>,
                  IF match THEN rec ELSE <<>>>>)
           /\ thread' = IF rec = <<>> THEN "reread" ELSE "parse"
     /\ UNCHANGED <<streamVars, cfg, worker, read, main, report, received>>

ParseStopped ==
  /\ thread = "parse" /\ ~data.process
  /\ thread' = "reread"
  /\ UNCHANGED <<streamVars, cfg, worker, data, parser, read, main,
                 outputVars, report, received>>

(* ReadFile, which fails at once when the device is gone.                  *)
ReadAgain ==
  /\ thread = "reread"
  /\ read' \in {[at |-> "issued", bytes |-> <<>>],
                [at |-> "none", bytes |-> <<>>]}
  /\ thread' = "loop"
  /\ UNCHANGED <<streamVars, cfg, worker, data, parser, main, outputVars,
                 report, received>>

FaultyLeaveThread ==                        \* does not tell the main thread
  /\ thread = "leave"
  /\ thread' = "exited"
  /\ read' = [at |-> "none", bytes |-> <<>>]
  /\ UNCHANGED <<streamVars, cfg, worker, data, parser, main, outputVars,
                 report, received>>

(* CancelIo, and the exit event for the main thread.                       *)
LeaveThread ==
  /\ thread = "leave"
  /\ thread' = "exited"
  /\ read' = [at |-> "none", bytes |-> <<>>]
  /\ data' = [data EXCEPT !.exit_event = TRUE]
  /\ UNCHANGED <<streamVars, cfg, worker, parser, main, outputVars, report,
                 received>>
-----------------------------------------------------------------------------
(* The main thread. *)

Answer(d) ==
  [done      |-> TRUE,
   triggered |-> d.triggered \/ cfg.store = "immediate" \/ d.output_created,
   output    |-> d.output_created,
   dropped   |-> d.dropped_packets]

(* start_capture gives up: the options select no device, or there is no    *)
(* memory for the filter,                                                  *)
GiveUp ==
  /\ main = "start"
  /\ main' = "reported"
  /\ report' = Answer(data)
  /\ UNCHANGED <<streamVars, cfg, worker, parser, read, thread, outputVars,
                 received>>

RejectCapture == GiveUp /\ UNCHANGED data

(* or there is no job object for the worker.                               *)
RejectWorker ==
  GiveUp /\ cfg.source # "driver" /\ data' = [data EXCEPT !.process = FALSE]

(* start_capture up to the wait.  Elevated: in immediate mode the output   *)
(* is created, the driver is opened, told the snaplen, given a buffer and  *)
(* a filter (or any of it fails), and the thread is started (or that       *)
(* fails).  Otherwise the worker is started, and only then, if it is to    *)
(* write to the pipe, the thread; its failure goes unnoticed.              *)
start_capture ==
  /\ main = "start"
  /\ \E opened, started \in BOOLEAN :
       LET d == CASE cfg.source = "pipe" ->
                       [data EXCEPT !.write_handle = opened,
                                    !.process = opened]
                  [] cfg.source = "worker" -> [data EXCEPT !.process = opened]
                  [] cfg.source = "driver"
                     /\ (cfg.store = "immediate" \/ cfg.output = "stdout") ->
                       [OpenOutput(data) EXCEPT !.process = started]
                  [] OTHER -> [data EXCEPT !.process = started]
           reads == opened /\ cfg.source # "worker"
       IN /\ cfg.source = "driver" \/ reads \/ ~started
          /\ data' = [d EXCEPT !.read_handle = reads]
          /\ thread' = IF started THEN "begin" ELSE "none"
          /\ worker' = [worker EXCEPT !.at =
                          IF opened /\ cfg.source # "driver"
                          THEN "running" ELSE @]
          /\ IF reads THEN snaplen' = Snaplen /\ Stream!Open
                      ELSE UNCHANGED <<open, queue, last, snaplen>>
  /\ main' = "waiting"
  /\ UNCHANGED <<stored, cfg, parser, read, outputVars, report, received>>

(* wait_for_exit_signal: the duration has passed, a key was pressed, or    *)
(* the thread has set the exit event.                                      *)
wait_for_exit_signal ==
  /\ main = "waiting"
  /\ main' = "stopping"
  /\ data' = [data EXCEPT !.process = FALSE]
  /\ UNCHANGED <<streamVars, cfg, worker, parser, read, thread, outputVars,
                 report, received>>

SetExitEvent ==
  /\ main = "stopping"
  /\ main' = "joining"
  /\ data' = [data EXCEPT !.exit_event = TRUE]
  /\ UNCHANGED <<streamVars, cfg, worker, parser, read, thread, outputVars,
                 report, received>>

(* The thread has ended: a worker that has no pipe is terminated, and the  *)
(* handles are closed.                                                     *)
CloseHandles ==
  /\ main = "joining" /\ thread \in {"none", "exited"}
  /\ main' = "reaping"
  /\ worker' = [worker EXCEPT !.at =
                  IF ~data.read_handle /\ ~data.write_handle /\ @ = "running"
                  THEN "gone" ELSE @]
  /\ IF data.read_handle THEN Stream!Close
                         ELSE UNCHANGED <<open, queue, last, snaplen>>
  /\ UNCHANGED <<stored, cfg, data, parser, read, thread, outputVars, report,
                 received>>

(* The worker, if there is one, has ended: the output counts as created if *)
(* the path exists, and the result is printed.                             *)
Report ==
  LET d == [data EXCEPT !.output_created =
              @ \/ cfg.output = "exists" \/ worker.made]
  IN /\ main = "reaping" /\ worker.at # "running"
     /\ main' = "reported"
     /\ data' = d
     /\ report' = Answer(d)
     /\ UNCHANGED <<streamVars, cfg, worker, parser, read, thread, outputVars,
                    received>>
-----------------------------------------------------------------------------
(* The worker is the same program, see start_capture with the source       *)
(* "driver".  It creates its output, on a match or at once, and ends when  *)
(* its duration has passed, its capture fails or its pipe breaks.          *)
WorkerCreates ==
  /\ worker.at = "running"
  /\ cfg.source = "worker" /\ cfg.output = "new"
  /\ worker' = [worker EXCEPT !.made = TRUE]
  /\ UNCHANGED <<streamVars, cfg, data, parser, read, main, thread,
                 outputVars, report, received>>

WorkerEnds ==
  /\ worker.at = "running"
  /\ worker' = [worker EXCEPT !.at = "gone"]
  /\ UNCHANGED <<streamVars, cfg, data, parser, read, main, thread,
                 outputVars, report, received>>

(* The worker learns that it has to end: its pipe is broken, and it had    *)
(* opened the pipe when its thread began, so that a read waits on it.      *)
WorkerTold ==
  main = "reaping" /\ cfg.source = "pipe" /\ cfg.store = "immediate"
-----------------------------------------------------------------------------
ThreadStep ==
  \/ BeginThread \/ CheckProcess \/ StopThread
  \/ process_data_raw \/ process_data \/ ParseRecord \/ ParseStopped
  \/ ReadAgain \/ LeaveThread

Next ==
  \/ \E id \in Ids, inclLen \in 0 .. snaplen : StorePacket(id, inclLen)
  \/ \E n \in 1 .. Len(queue) : ReadCompletes(n)
  \/ ReadFails
  \/ PipeConnected \/ ThreadStep
  \/ RejectCapture \/ RejectWorker
  \/ start_capture \/ wait_for_exit_signal \/ SetExitEvent
  \/ CloseHandles \/ Report
  \/ WorkerCreates \/ WorkerEnds

(* What makes wait_for_exit_signal return for certain: the exit event,     *)
(* data->process cleared before it is called, or the end of the worker.  A *)
(* key and the duration need never come.                                   *)
Signalled ==
  data.exit_event \/ (thread = "none" /\ ~data.process) \/ worker.at = "gone"

(* Threads are scheduled; neither the driver nor the worker need ever      *)
(* deliver anything, and a worker need not end before it is told.          *)
Fairness ==
  /\ WF_vars(ThreadStep)
  /\ WF_vars(wait_for_exit_signal /\ Signalled)
  /\ WF_vars(SetExitEvent) /\ WF_vars(CloseHandles) /\ WF_vars(Report)
  /\ WF_vars(WorkerEnds /\ WorkerTold)

Spec == Init /\ [][Next]_vars /\ Fairness
-----------------------------------------------------------------------------
(* Properties. *)

Byte == [id : Ids \cup {GlobalId, DescId, NoId}, at : Nat, of : Nat]

(* Type invariant. *)
TypeOK ==
  /\ cfg \in Options
  /\ data \in [process : BOOLEAN, exit_event : BOOLEAN,
               read_handle : BOOLEAN, write_handle : BOOLEAN,
               triggered : BOOLEAN, output_created : BOOLEAN,
               dropped_packets : 0 .. MaxRecords]
  /\ parser \in [pending : Seq(Byte), have_pcap_header : BOOLEAN,
                 wrote_pcap_header : BOOLEAN, buf : Seq(Byte)]
  /\ Len(parser.buf) <= GlobalHeaderLen
  /\ read \in [at : {"none", "connecting", "issued", "done"},
               bytes : Seq(Byte)]
  /\ worker \in [at : {"none", "running", "gone"}, made : BOOLEAN]
  /\ main \in {"start", "waiting", "stopping", "joining", "reaping",
              "reported"}
  /\ thread \in {"none", "begin", "loop", "wait", "parse", "reread",
                 "leave", "exited"}
  /\ file \in Seq(Byte) /\ received \in Seq(Byte)
  /\ broken \in BOOLEAN /\ stored \in 0 .. MaxRecords

(* The elements of s that are in K, in order: SelectSeq, as a recursive    *)
(* function of the number of elements that were looked at.                 *)
Chosen(s, K) ==
  LET chosen[i \in 0 .. Len(s)] ==
        IF i = 0 THEN <<>>
        ELSE IF s[i] \in K THEN Append(chosen[i - 1], s[i]) ELSE chosen[i - 1]
  IN chosen[Len(s)]

(* The bytes that belong into the output, and those of s.                  *)
Kept      == {b \in Byte : b.id = GlobalId \/ app_packet_matches(b.id)}
Wanted(s) == Chosen(s, Kept)

(* What process_data was given and has not dealt with: a header it could   *)
(* not yet write, and incomplete records.                                  *)
Held ==
  IF Raw
  THEN IF Len(parser.buf) < GlobalHeaderLen THEN parser.buf ELSE <<>>
  ELSE (IF parser.have_pcap_header /\ ~parser.wrote_pcap_header
        THEN Header ELSE <<>>) \o parser.pending

(* The stream s with the descriptors put after its global header.          *)
Injected(s) ==
  IF s = <<>> THEN <<>>
  ELSE SubSeq(s, 1, GlobalHeaderLen) \o Descriptors \o Drop(s, GlobalHeaderLen)

(* However reads cut the stream, and whatever the filter and the trigger,  *)
(* the output and what is still held make up exactly the wanted part of    *)
(* the stream, in order, with the descriptors once and after the header;   *)
(* provided no write failed.                                               *)
OutputIsFilteredStream ==
  ~broken =>
    LET all == Wanted(received)
        n   == Len(all) - Len(Wanted(Held))
    IN /\ n >= 0
       /\ Drop(all, n) = Wanted(Held)
       /\ file = Injected(SubSeq(all, 1, n))

(* A finished capture ends with a whole record: a parser finds no torn one *)
(* at its end, although the thread may be stopped at any time.  Through a  *)
(* pipe this takes the record parser; a plain copy may stop anywhere.      *)
EndsWithRecord ==
  report.done /\ ~broken /\ file # <<>> /\ (cfg.source = "pipe" => ~Raw)
    => file[Len(file)].at = file[Len(file)].of

(* The service summarizes the file when the capture has ended and may      *)
(* analyze it while it grows: whenever it looks, the packets it counts are *)
(* exactly the complete records, and it refuses no file but one whose last *)
(* record is torn.                                                         *)
SummaryAgrees ==
  ~broken /\ file # <<>> =>
    LET s        == Reader!SummarizeReader(file)
        complete == {i \in DOMAIN file : file[i].at = file[i].of
                                          /\ file[i].id # GlobalId}
    IN  IF s.error THEN file[Len(file)].at # file[Len(file)].of
                   ELSE s.packets = Cardinality(complete)

(* droppedPackets in the answer is the number of packets the filter        *)
(* rejected: those received completely, not wanted and not pending.        *)
DroppedCounted ==
  LET Rejected(s) == {i \in 1 .. Len(s) : s[i].at = 1 /\ s[i].id \in Ids
                                          /\ ~app_packet_matches(s[i].id)}
  IN ~Raw => data.dropped_packets = Cardinality(Rejected(received))
                                      - Cardinality(Rejected(parser.pending))

(* An on-match worker opened its pipe, if at all, when a packet matched,   *)
(* long after its thread began: no read on it tells of its end, and with   *)
(* no further match and no duration the worker stays.                      *)
WorkerUntold ==
  /\ main = "reaping" /\ worker.at = "running"
  /\ cfg.source = "pipe" /\ cfg.store = "on-match"

(* Once either thread has cleared data->process (a failed write, no        *)
(* memory, a stop) or left, or the worker has ended, the capture ends and  *)
(* answers the service: the two threads and the worker never wait for each *)
(* other for ever.  The exception is exact: the main thread's wait for an  *)
(* on-match worker that nothing tells to end.                              *)
CaptureEnds ==
  ~data.process \/ thread = "leave" \/ worker.at = "gone"
    ~> report.done \/ WorkerUntold

(* "If the output file has already been created by the worker, we missed   *)
(* the triggered flag": an on-match capture that reports triggered has     *)
(* seen a match and written its output, unless a write failed.             *)
TriggeredMeansWritten ==
  report.done /\ report.triggered /\ cfg.store = "on-match"
    => file # <<>> \/ broken \/ worker.made
=============================================================================
