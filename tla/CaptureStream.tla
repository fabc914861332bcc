---------------------------- MODULE CaptureStream ----------------------------
(***************************************************************************)
(* What the capture buffer promises its reader, without any ring: a FIFO   *)
(* of bytes that starts with the global header and grows by whole records, *)
(* of which the reader takes prefixes.  A record may be dropped, never     *)
(* stored in part, and a step that stores a record may also deliver the    *)
(* oldest bytes to a reader that was waiting.                              *)
(***************************************************************************)
EXTENDS Integers, Sequences

CONSTANTS
  GlobalHeaderLen, RecordHeaderLen,   \* lengths of the two headers
  Ids,                                \* names of the packets
  GlobalId, NoId                      \* name of the global header; no name

(* The at-th byte of the chunk id, which declares itself `of' bytes long.  *)
ByteAt(id, at, of) == [id |-> id, at |-> at, of |-> of]

(* The last byte taken from a stream nothing has been taken from.          *)
NoByte == ByteAt(NoId, 0, 0)

VARIABLES
  open,      \* a stream exists
  queue,     \* its unread bytes, oldest first
  last,      \* the last byte its reader took
  snaplen    \* the snaplen its global header declares, 0 when not open

streamVars == <<open, queue, last, snaplen>>

Chunk(id, of) == [i \in 1 .. of |-> ByteAt(id, i, of)]

Init ==
  /\ open = FALSE
  /\ queue = <<>>
  /\ last = NoByte
  /\ snaplen = 0

(* The reader takes the first n bytes of q.                                *)
TakeFrom(q, n) ==
  /\ queue' = SubSeq(q, n + 1, Len(q))
  /\ last' = IF n = 0 THEN last ELSE q[n]

Open ==
  /\ ~open
  /\ open' = TRUE
  /\ queue' = Chunk(GlobalId, GlobalHeaderLen)
  /\ last' = NoByte
  /\ snaplen' \in Nat \ {0}

Read(n) ==
  /\ open
  /\ TakeFrom(queue, n)
  /\ UNCHANGED <<open, snaplen>>

Store(id, inclLen, n) ==
  /\ open
  /\ inclLen <= snaplen
  /\ LET q == queue \o Chunk(id, RecordHeaderLen + inclLen)
     IN n <= Len(q) /\ TakeFrom(q, n)
  /\ UNCHANGED <<open, snaplen>>

Close ==
  /\ open' = FALSE
  /\ queue' = <<>>
  /\ last' = NoByte
  /\ snaplen' = 0

Next ==
  \/ Open
  \/ \E n \in 1 .. Len(queue) : Read(n)
  \/ \E id \in Ids, inclLen \in 0 .. snaplen :
       \E n \in 0 .. Len(queue) + RecordHeaderLen + inclLen :
         Store(id, inclLen, n)
  \/ Close

Spec == Init /\ [][Next]_streamVars
=============================================================================
