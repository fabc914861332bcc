------------------------ MODULE CaptureThread_proofs ------------------------
(***************************************************************************)
(* The capture thread for packets, headers and snaplens of any size, cut   *)
(* by reads in any way: the output ends with a whole record whenever the   *)
(* thread is stopped, and the count of rejected packets is exact.          *)
(***************************************************************************)
EXTENDS CaptureThread, SequenceTheorems, FiniteSetTheorems, TLAPS

(* Bytes of whole chunks: whichever byte of s one looks at, the bytes of   *)
(* its chunk are at their places, as far as s reaches.                     *)
Aligned(s) ==
  \A k, j \in 1 .. Len(s) :
    /\ 1 <= s[k].at /\ s[k].at <= s[k].of
    /\ k - s[k].at < j /\ j <= k - s[k].at + s[k].of =>
         /\ s[j].id = s[k].id /\ s[j].of = s[k].of
         /\ s[j].at = j - (k - s[k].at)

(* s ends with the last byte of a chunk, and starts with the first of one. *)
Ended(s) == s # <<>> => s[Len(s)].at = s[Len(s)].of
Begun(s) == s # <<>> => s[1].at = 1

(* The lengths a record may have.                                          *)
Sizes == {n \in Nat \ {0} : RecordHeaderLen <= n /\ n <= RecordHeaderLen + Snaplen}

(* A sequence of whole records.                                            *)
Records(s) ==
  /\ s \in Seq(Byte) /\ Aligned(s) /\ Ended(s) /\ Begun(s)
  /\ \A k \in 1 .. Len(s) : s[k].id \in Ids /\ s[k].of \in Sizes

(* What was read and not yet given to process_data, and all that the       *)
(* parser has still to see.                                                *)
Given  == IF read.at = "done" /\ thread \notin {"parse", "reread"} THEN read.bytes ELSE <<>>
Unseen == parser.pending \o (Given \o queue)

(* The thread may still parse what it gets.                                *)
Live == data.process /\ thread \notin {"leave", "exited"} /\ ~Raw

(* What is unseen is the rest of a well-formed stream.                     *)
Rest(s, have, isOpen) ==
  \E r \in Seq(Byte) :
    /\ Records(r)
    /\ s = IF have THEN r ELSE IF isOpen THEN Header \o r ELSE <<>>

StreamInv == Live => Rest(Unseen, parser.have_pcap_header, open)

(* Shapes, with a count of rejected packets that is only a number.         *)
Datas   == [process : BOOLEAN, exit_event : BOOLEAN,
            read_handle : BOOLEAN, write_handle : BOOLEAN,
            triggered : BOOLEAN, output_created : BOOLEAN,
            dropped_packets : Nat]
Parsers == [pending : Seq(Byte), have_pcap_header : BOOLEAN,
            wrote_pcap_header : BOOLEAN, buf : Seq(Byte)]
Reads   == [at : {"none", "connecting", "issued", "done"}, bytes : Seq(Byte)]

Shapes ==
  /\ cfg \in Options /\ data \in Datas /\ parser \in Parsers /\ read \in Reads
  /\ Len(parser.buf) <= GlobalHeaderLen
  /\ main \in {"start", "waiting", "stopping", "joining", "reaping", "reported"}
  /\ thread \in {"none", "begin", "loop", "wait", "parse", "reread",
                 "leave", "exited"}
  /\ file \in Seq(Byte) /\ received \in Seq(Byte)
  /\ broken \in BOOLEAN /\ stored \in 0 .. MaxRecords
  /\ queue \in Seq(Byte) /\ snaplen \in 0 .. Snaplen /\ open \in BOOLEAN

(* Which steps the two threads have behind them.                           *)
Progress ==
  /\ main = "start" =>
       /\ thread = "none" /\ queue = <<>> /\ ~open
       /\ data.dropped_packets = 0 /\ parser.pending = <<>>
       /\ ~parser.have_pcap_header
  /\ main \in {"stopping", "joining", "reaping"} => ~data.process
  /\ thread \in {"none", "begin"} => read.at = "none" /\ read.bytes = <<>>
  /\ thread \in {"parse", "reread"} => read.at = "done"
  /\ read.at # "done" => read.bytes = <<>>
  /\ thread = "parse" => ~Raw
  /\ Raw => data.dropped_packets = 0

(* The unread bytes end with a record; so does what a read of the driver   *)
(* returned, which is all of them; and so does the output.                 *)
EndInv ==
  /\ Ended(queue)
  /\ cfg.source # "pipe" => Ended(read.bytes)
  /\ ~broken /\ (cfg.source = "pipe" => ~Raw) => Ended(file)

(* The bytes of s that are in P.                                           *)
Count(s, P) == Cardinality({i \in 1 .. Len(s) : s[i] \in P})

(* The first bytes of packets, and of packets that the filter rejects.     *)
Starts    == {b \in Byte : b.at = 1 /\ b.id \in Ids}
Unwanted  == {b \in Byte : b.at = 1 /\ b.id \in Ids /\ ~app_packet_matches(b.id)}

CountInv ==
  /\ ~Raw => data.dropped_packets = Count(received, Unwanted)
                                      - Count(parser.pending, Unwanted)
  /\ data.dropped_packets <= stored
  /\ Live => data.dropped_packets + Count(Unseen, Starts) <= stored

ThreadInv == Shapes /\ Progress /\ StreamInv /\ EndInv /\ CountInv
-----------------------------------------------------------------------------
(* Sequences. *)

LEMMA DropProperties ==
  ASSUME NEW S, NEW s \in Seq(S), NEW n \in 0 .. Len(s)
  PROVE  /\ Drop(s, n) \in Seq(S) /\ Len(Drop(s, n)) = Len(s) - n
         /\ \A i \in 1 .. Len(s) - n : Drop(s, n)[i] = s[n + i]
BY DEF Drop

LEMMA FirstProperties ==
  ASSUME NEW S, NEW s \in Seq(S), NEW n \in 0 .. Len(s)
  PROVE  /\ SubSeq(s, 1, n) \in Seq(S) /\ Len(SubSeq(s, 1, n)) = n
         /\ \A i \in 1 .. n : SubSeq(s, 1, n)[i] = s[i]
OBVIOUS

(* A sequence is its first n elements and the rest.                        *)
LEMMA Split ==
  ASSUME NEW S, NEW s \in Seq(S), NEW n \in 0 .. Len(s)
  PROVE  SubSeq(s, 1, n) \o Drop(s, n) = s
<1>1. PICK a, b : a = SubSeq(s, 1, n) /\ b = Drop(s, n)
  OBVIOUS
<1>2. /\ a \in Seq(S) /\ Len(a) = n
      /\ \A i \in 1 .. n : a[i] = s[i]
  BY <1>1, FirstProperties
<1>3. /\ b \in Seq(S) /\ Len(b) = Len(s) - n
      /\ \A i \in 1 .. Len(s) - n : b[i] = s[n + i]
  BY <1>1, DropProperties
<1>4. PICK t : t = a \o b
  OBVIOUS
<1>5. /\ t \in Seq(S) /\ Len(t) = Len(s)
      /\ \A i \in 1 .. Len(s) : t[i] = IF i <= n THEN a[i] ELSE b[i - n]
  BY <1>2, <1>3, <1>4, ConcatProperties
<1>6. \A i \in 1 .. Len(t) : t[i] = s[i]
  BY <1>2, <1>3, <1>5
<1>7. t = s
  BY <1>5, <1>6, SeqEqual
<1> QED
  BY <1>1, <1>4, <1>7

LEMMA DropConcat ==
  ASSUME NEW S, NEW s \in Seq(S), NEW t \in Seq(S), NEW n \in 0 .. Len(s)
  PROVE  Drop(s, n) \o t = Drop(s \o t, n)
<1>1. PICK c, d, u, v : c = s \o t /\ d = Drop(s, n) /\ u = d \o t /\ v = Drop(c, n)
  OBVIOUS
<1>2. /\ c \in Seq(S) /\ Len(c) = Len(s) + Len(t)
      /\ \A i \in 1 .. Len(s) + Len(t) : c[i] = IF i <= Len(s) THEN s[i] ELSE t[i - Len(s)]
  BY <1>1, ConcatProperties
<1>3. /\ d \in Seq(S) /\ Len(d) = Len(s) - n
      /\ \A i \in 1 .. Len(s) - n : d[i] = s[n + i]
  BY <1>1, DropProperties
<1>4. /\ u \in Seq(S) /\ Len(u) = Len(d) + Len(t)
      /\ \A i \in 1 .. Len(d) + Len(t) : u[i] = IF i <= Len(d) THEN d[i] ELSE t[i - Len(d)]
  BY <1>1, <1>3, ConcatProperties
<1>5. /\ v \in Seq(S) /\ Len(v) = Len(c) - n
      /\ \A i \in 1 .. Len(c) - n : v[i] = c[n + i]
  <2>1. c \in Seq(S) /\ n \in 0 .. Len(c)
    BY <1>2
  <2>2. /\ Drop(c, n) \in Seq(S) /\ Len(Drop(c, n)) = Len(c) - n
        /\ \A i \in 1 .. Len(c) - n : Drop(c, n)[i] = c[n + i]
    BY <2>1, DropProperties
  <2> QED
    BY <1>1, <2>2
<1>6. Len(u) = Len(v)
  BY <1>2, <1>3, <1>4, <1>5
<1>7. \A i \in 1 .. Len(u) : u[i] = v[i]
  <2>1. SUFFICES ASSUME NEW i \in 1 .. Len(u)
                 PROVE  u[i] = v[i]
    OBVIOUS
  <2>2. CASE i <= Len(d)
    BY <1>2, <1>3, <1>4, <1>5, <2>2
  <2>3. CASE i > Len(d)
    <3>1. u[i] = t[i - Len(d)]
      BY <1>3, <1>4, <2>3
    <3>2. v[i] = c[n + i]
      BY <1>4, <1>5, <1>6
    <3>3. n + i \in 1 .. Len(s) + Len(t) /\ n + i > Len(s) /\ n + i - Len(s) = i - Len(d)
      BY <1>3, <1>4, <2>3
    <3>4. c[n + i] = t[(n + i) - Len(s)]
      BY <1>2, <3>3
    <3> QED
      BY <3>1, <3>2, <3>3, <3>4
  <2> QED
    BY <1>3, <2>2, <2>3
<1>8. u = v
  BY <1>4, <1>5, <1>6, <1>7, SeqEqual
<1> QED
  BY <1>1, <1>8

LEMMA DropOfConcat ==
  ASSUME NEW S, NEW s \in Seq(S), NEW t \in Seq(S)
  PROVE  Drop(s \o t, Len(s)) = t
<1>1. Drop(s, Len(s)) \o t = Drop(s \o t, Len(s))
  BY DropConcat, SMTT(30)
<1>2. Drop(s, Len(s)) = <<>>
  BY DEF Drop
<1> QED
  BY <1>1, <1>2

LEMMA FirstOfConcat ==
  ASSUME NEW S, NEW s \in Seq(S), NEW t \in Seq(S), NEW n \in 0 .. Len(s)
  PROVE  SubSeq(s \o t, 1, n) = SubSeq(s, 1, n)
<1>1. PICK c, u, v : c = s \o t /\ u = SubSeq(s, 1, n) /\ v = SubSeq(c, 1, n)
  OBVIOUS
<1>2. /\ c \in Seq(S) /\ Len(c) = Len(s) + Len(t)
      /\ \A i \in 1 .. Len(s) + Len(t) : c[i] = IF i <= Len(s) THEN s[i] ELSE t[i - Len(s)]
  BY <1>1, ConcatProperties
<1>3. /\ u \in Seq(S) /\ Len(u) = n
      /\ \A i \in 1 .. n : u[i] = s[i]
  BY <1>1, FirstProperties
<1>4. /\ v \in Seq(S) /\ Len(v) = n
      /\ \A i \in 1 .. n : v[i] = c[i]
  <2>1. n \in 0 .. Len(c)
    BY <1>2
  <2> QED
    BY <1>1, <1>2, <2>1, FirstProperties
<1>5. \A i \in 1 .. Len(u) : u[i] = v[i]
  BY <1>2, <1>3, <1>4
<1>6. u = v
  BY <1>3, <1>4, <1>5, SeqEqual
<1> QED
  BY <1>1, <1>6
-----------------------------------------------------------------------------
(* Counting bytes. *)

LEMMA CountFinite ==
  ASSUME NEW s \in Seq(Byte), NEW P
  PROVE  IsFiniteSet({i \in 1 .. Len(s) : s[i] \in P}) /\ Count(s, P) \in Nat
<1>1. IsFiniteSet(1 .. Len(s))
  BY FS_Interval
<1>2. PICK A : A = {i \in 1 .. Len(s) : s[i] \in P}
  OBVIOUS
<1>3. A \in SUBSET (1 .. Len(s))
  BY <1>2
<1>4. IsFiniteSet(A)
  BY <1>1, <1>3, FS_Subset
<1>5. Cardinality(A) \in Nat
  BY <1>4, FS_CardinalityType
<1> QED
  BY <1>2, <1>4, <1>5 DEF Count

LEMMA CountConcat ==
  ASSUME NEW s \in Seq(Byte), NEW t \in Seq(Byte), NEW P
  PROVE  Count(s \o t, P) = Count(s, P) + Count(t, P)
<1>1. PICK c : c = s \o t
  OBVIOUS
<1>2. /\ c \in Seq(Byte) /\ Len(c) = Len(s) + Len(t)
      /\ \A i \in 1 .. Len(s) + Len(t) : c[i] = IF i <= Len(s) THEN s[i] ELSE t[i - Len(s)]
  BY <1>1, ConcatProperties
<1>3. PICK A, B, C : /\ A = {i \in 1 .. Len(s) : s[i] \in P}
                     /\ B = {i \in 1 .. Len(t) : t[i] \in P}
                     /\ C = {i \in 1 .. Len(c) : c[i] \in P}
  OBVIOUS
<1>4. IsFiniteSet(A) /\ IsFiniteSet(B)
  BY <1>3, CountFinite
<1>5. PICK D : D = {i \in Len(s) + 1 .. Len(c) : t[i - Len(s)] \in P}
  OBVIOUS
<1>6. ExistsBijection(B, D)
  <2>1. PICK f : f = [i \in B |-> i + Len(s)]
    OBVIOUS
  <2>2. f \in [B -> D]
    BY <1>2, <1>3, <1>5, <2>1
  <2>3. \A i, j \in B : f[i] = f[j] => i = j
    BY <1>3, <2>1
  <2>4. \A k \in D : \E i \in B : f[i] = k
    <3>1. SUFFICES ASSUME NEW k \in D PROVE \E i \in B : f[i] = k
      OBVIOUS
    <3>2. k - Len(s) \in B
      BY <1>2, <1>3, <1>5
    <3>3. f[k - Len(s)] = k
      BY <1>5, <2>1, <3>2
    <3> QED
      BY <3>2, <3>3
  <2> QED
    BY <2>2, <2>3, <2>4 DEF ExistsBijection, Bijection, Injection, Surjection, IsInjective
<1>7. IsFiniteSet(D) /\ Cardinality(D) = Cardinality(B)
  BY <1>4, <1>6, FS_Bijection
<1>8. C = A \cup D /\ A \cap D = {}
  BY <1>2, <1>3, <1>5
<1>9. Cardinality(C) = Cardinality(A) + Cardinality(D) - Cardinality({})
  BY <1>4, <1>7, <1>8, FS_Union
<1>10. Cardinality(A) \in Nat /\ Cardinality(D) \in Nat /\ Cardinality({}) = 0
  BY <1>4, <1>7, FS_CardinalityType, FS_EmptySet
<1>11. /\ Count(s, P) = Cardinality(A) /\ Count(t, P) = Cardinality(B)
       /\ Count(c, P) = Cardinality(C)
  BY <1>3 DEF Count
<1> QED
  BY <1>1, <1>7, <1>9, <1>10, <1>11

LEMMA CountEmpty ==
  ASSUME NEW P
  PROVE  Count(<<>>, P) = 0
<1>1. {i \in 1 .. Len(<<>>) : <<>>[i] \in P} = {}
  OBVIOUS
<1> QED
  BY <1>1, FS_EmptySet DEF Count

(* No byte of s is counted, or exactly its first one.                      *)
LEMMA CountNone ==
  ASSUME NEW s \in Seq(Byte), NEW P, \A i \in 1 .. Len(s) : s[i] \notin P
  PROVE  Count(s, P) = 0
<1>1. {i \in 1 .. Len(s) : s[i] \in P} = {}
  OBVIOUS
<1> QED
  BY <1>1, FS_EmptySet DEF Count

LEMMA CountFirst ==
  ASSUME NEW s \in Seq(Byte), NEW P, Len(s) > 0, s[1] \in P,
         \A i \in 2 .. Len(s) : s[i] \notin P
  PROVE  Count(s, P) = 1
<1>1. {i \in 1 .. Len(s) : s[i] \in P} = {1}
  <2>1. \A i \in 1 .. Len(s) : i = 1 \/ i \in 2 .. Len(s)
    OBVIOUS
  <2> QED
    BY <2>1
<1> QED
  BY <1>1, FS_Singleton DEF Count
-----------------------------------------------------------------------------
(* Chunks and sequences of records. *)

Names == Ids \cup {GlobalId, DescId, NoId}

LEMMA ChunkProperties ==
  ASSUME NEW id \in Names, NEW of \in Nat \ {0}, NEW c, c = Stream!Chunk(id, of)
  PROVE  /\ c \in Seq(Byte) /\ Len(c) = of /\ c # <<>>
         /\ \A i \in 1 .. of : c[i].id = id /\ c[i].at = i /\ c[i].of = of
<1>1. c = [i \in 1 .. of |-> [id |-> id, at |-> i, of |-> of]]
  BY DEF Stream!Chunk, Stream!ByteAt
<1>2. \A i \in 1 .. of : [id |-> id, at |-> i, of |-> of] \in Byte
  BY DEF Byte, Names
<1>3. c \in [1 .. of -> Byte]
  BY <1>1, <1>2
<1>4. c \in Seq(Byte) /\ Len(c) = of
  BY <1>3
<1>5. c # <<>>
  BY <1>4
<1> QED
  BY <1>1, <1>4, <1>5

LEMMA ByteFields ==
  ASSUME NEW s \in Seq(Byte), NEW i \in 1 .. Len(s)
  PROVE  /\ s[i] \in Byte /\ s[i].id \in Names
         /\ s[i].at \in Nat /\ s[i].of \in Nat
<1>1. s[i] \in Byte
  OBVIOUS
<1> QED
  BY <1>1 DEF Byte, Names

LEMMA ChunkEnded ==
  ASSUME NEW id \in Names, NEW of \in Nat \ {0}
  PROVE  Ended(Stream!Chunk(id, of))
<1>1. PICK c : c = Stream!Chunk(id, of)
  OBVIOUS
<1>2. Len(c) = of /\ \A i \in 1 .. of : c[i].at = i /\ c[i].of = of
  BY <1>1, ChunkProperties
<1>3. c[of].at = of /\ c[of].of = of
  BY <1>2
<1> QED
  BY <1>1, <1>2, <1>3 DEF Ended

LEMMA HeaderProperties ==
  /\ Header \in Seq(Byte) /\ Len(Header) = GlobalHeaderLen /\ Ended(Header)
  /\ \A i \in 1 .. GlobalHeaderLen : Header[i].id = GlobalId
<1>1. GlobalId \in Names /\ GlobalHeaderLen \in Nat \ {0}
  BY ThreadAssumption DEF Names
<1> QED
  BY <1>1, ChunkProperties, ChunkEnded DEF Header

LEMMA EndedConcat ==
  ASSUME NEW s \in Seq(Byte), NEW t \in Seq(Byte), Ended(t), t = <<>> => Ended(s)
  PROVE  Ended(s \o t)
<1>1. PICK c : c = s \o t
  OBVIOUS
<1>2. /\ c \in Seq(Byte) /\ Len(c) = Len(s) + Len(t)
      /\ \A i \in 1 .. Len(s) + Len(t) : c[i] = IF i <= Len(s) THEN s[i] ELSE t[i - Len(s)]
  BY <1>1, ConcatProperties
<1>3. CASE t = <<>>
  BY <1>3
<1>4. CASE t # <<>>
  <2>1. Len(t) > 0
    BY <1>4
  <2>2. PICK k : k = Len(s) + Len(t)
    OBVIOUS
  <2>3. k \in 1 .. Len(s) + Len(t) /\ k > Len(s) /\ k - Len(s) = Len(t)
    BY <2>1, <2>2
  <2>4. c[k] = t[Len(t)]
    BY <1>2, <2>3
  <2> QED
    BY <1>1, <1>2, <1>4, <2>2, <2>4 DEF Ended
<1> QED
  BY <1>3, <1>4

LEMMA EndedDrop ==
  ASSUME NEW s \in Seq(Byte), NEW n \in 0 .. Len(s), Ended(s)
  PROVE  Ended(Drop(s, n))
<1>1. PICK d : d = Drop(s, n)
  OBVIOUS
<1>2. /\ d \in Seq(Byte) /\ Len(d) = Len(s) - n
      /\ \A i \in 1 .. Len(s) - n : d[i] = s[n + i]
  BY <1>1, DropProperties
<1>3. CASE d # <<>>
  <2>1. Len(d) > 0 /\ s # <<>>
    BY <1>2, <1>3
  <2>2. d[Len(d)] = s[Len(s)]
    <3>1. Len(d) \in 1 .. Len(s) - n /\ n + Len(d) = Len(s)
      BY <1>2, <2>1
    <3> QED
      BY <1>2, <3>1
  <2> QED
    BY <1>1, <2>1, <2>2 DEF Ended
<1> QED
  BY <1>1, <1>3 DEF Ended

LEMMA SnaplenRange == 0 \in 0 .. Snaplen /\ Snaplen \in 0 .. Snaplen
<1>1. Snaplen \in Nat
  BY ThreadAssumption
<1> QED
  BY <1>1

LEMMA SizesNat == \A n \in Sizes : n \in Nat \ {0}
BY DEF Sizes

LEMMA NoRecords == Records(<<>>)
BY DEF Records, Aligned, Ended, Begun

(* A record more at the end.                                               *)
LEMMA RecordsStore ==
  ASSUME NEW r, Records(r), NEW id \in Ids, NEW of \in Sizes
  PROVE  Records(r \o Stream!Chunk(id, of))
<1> of \in Nat \ {0}
  BY SizesNat
<1>1. PICK c, t : c = Stream!Chunk(id, of) /\ t = r \o c
  OBVIOUS
<1>2. /\ c \in Seq(Byte) /\ Len(c) = of /\ c # <<>>
      /\ \A i \in 1 .. of : c[i].id = id /\ c[i].at = i /\ c[i].of = of
  BY <1>1, ChunkProperties DEF Names
<1>3. r \in Seq(Byte)
  BY DEF Records
<1>4. /\ t \in Seq(Byte) /\ Len(t) = Len(r) + of
      /\ \A i \in 1 .. Len(t) : t[i] = IF i <= Len(r) THEN r[i] ELSE c[i - Len(r)]
  <2>1. /\ t \in Seq(Byte) /\ Len(t) = Len(r) + Len(c)
        /\ \A i \in 1 .. Len(r) + Len(c) : t[i] = IF i <= Len(r) THEN r[i] ELSE c[i - Len(r)]
    <3>1. c \in Seq(Byte)
      BY <1>2
    <3>2. /\ r \o c \in Seq(Byte) /\ Len(r \o c) = Len(r) + Len(c)
          /\ \A i \in 1 .. Len(r) + Len(c) :
               (r \o c)[i] = IF i <= Len(r) THEN r[i] ELSE c[i - Len(r)]
      BY <1>3, <3>1, ConcatProperties
    <3> QED
      BY <1>1, <3>2
  <2> QED
    BY <1>2, <2>1
<1>5. \A i \in 1 .. Len(r) : t[i] = r[i]
  BY <1>3, <1>4
<1>6. \A i \in 1 .. Len(t) : i > Len(r) =>
        t[i].id = id /\ t[i].at = i - Len(r) /\ t[i].of = of
  BY <1>2, <1>3, <1>4
<1>7. \A i \in 1 .. Len(r) : r[i].at \in Nat /\ r[i].of \in Nat
  BY <1>3, ByteFields
<1>8. \A k \in 1 .. Len(r) : k - r[k].at + r[k].of <= Len(r)
  <2>1. SUFFICES ASSUME NEW k \in 1 .. Len(r), k - r[k].at + r[k].of > Len(r)
                 PROVE  FALSE
    BY <1>3, <1>7
  <2>2. PICK n : n = Len(r)
    OBVIOUS
  <2>3. n \in 1 .. Len(r) /\ r[n].at = r[n].of
    BY <1>3, <2>1, <2>2 DEF Records, Ended
  <2>4. r[n].of = r[k].of /\ r[n].at = n - (k - r[k].at)
    BY <1>3, <1>7, <2>1, <2>2, <2>3 DEF Records, Aligned
  <2> QED
    BY <1>3, <1>7, <2>1, <2>2, <2>3, <2>4
<1>9. Aligned(t)
  <2>1. SUFFICES ASSUME NEW k \in 1 .. Len(t), NEW j \in 1 .. Len(t)
                 PROVE  /\ 1 <= t[k].at /\ t[k].at <= t[k].of
                        /\ k - t[k].at < j /\ j <= k - t[k].at + t[k].of =>
                             /\ t[j].id = t[k].id /\ t[j].of = t[k].of
                             /\ t[j].at = j - (k - t[k].at)
    BY DEF Aligned
  <2>2. CASE k <= Len(r)
    <3>1. k \in 1 .. Len(r) /\ t[k] = r[k]
      BY <1>3, <1>5, <2>2
    <3>2. 1 <= r[k].at /\ r[k].at <= r[k].of
      BY <3>1 DEF Records, Aligned
    <3>3. ASSUME k - r[k].at < j, j <= k - r[k].at + r[k].of
          PROVE  /\ t[j].id = r[k].id /\ t[j].of = r[k].of
                 /\ t[j].at = j - (k - r[k].at)
      <4>1. j \in 1 .. Len(r)
        BY <1>3, <1>7, <1>8, <3>1, <3>3
      <4>2. t[j] = r[j]
        BY <1>5, <4>1
      <4> QED
        BY <3>1, <3>3, <4>1, <4>2 DEF Records, Aligned
    <3> QED
      BY <3>1, <3>2, <3>3
  <2>3. CASE k > Len(r)
    <3>1. t[k].id = id /\ t[k].at = k - Len(r) /\ t[k].of = of
      BY <1>6, <2>3
    <3>2. k - t[k].at = Len(r)
      BY <1>3, <3>1
    <3>3. j > Len(r) => t[j].id = id /\ t[j].at = j - Len(r) /\ t[j].of = of
      BY <1>6
    <3>4. 1 <= k - Len(r) /\ k - Len(r) <= of
      BY <1>3, <1>4, <2>3
    <3> QED
      BY <3>1, <3>2, <3>3, <3>4
  <2> QED
    BY <1>3, <2>2, <2>3
<1>10. Ended(t)
  BY <1>1, <1>2, <1>3, ChunkEnded, EndedConcat DEF Names
<1>11. Begun(t)
  <2>1. CASE r = <<>>
    BY <1>2, <1>4, <1>6, <2>1 DEF Begun
  <2>2. CASE r # <<>>
    <3>1. 1 \in 1 .. Len(r) /\ r[1].at = 1
      BY <1>3, <2>2 DEF Records, Begun
    <3> QED
      BY <1>5, <3>1 DEF Begun
  <2> QED
    BY <2>1, <2>2
<1>12. \A k \in 1 .. Len(t) : t[k].id \in Ids /\ t[k].of \in Sizes
  BY <1>3, <1>4, <1>5, <1>6 DEF Records
<1> QED
  BY <1>1, <1>4, <1>9, <1>10, <1>11, <1>12 DEF Records

(* The first record taken away.                                            *)
LEMMA RecordsTake ==
  ASSUME NEW r, Records(r), r # <<>>, NEW n \in Nat, r[1].of = n, n <= Len(r)
  PROVE  /\ n \in Sizes /\ n \in Nat \ {0} /\ n \in 0 .. Len(r)
         /\ SubSeq(r, 1, n) = Stream!Chunk(r[1].id, n)
         /\ Records(Drop(r, n))
<1>1. r \in Seq(Byte) /\ 1 \in 1 .. Len(r) /\ r[1] \in Byte
  BY DEF Records
<1>2. r[1].id \in Ids /\ r[1].at = 1 /\ n \in Nat /\ n \in Sizes
  BY <1>1 DEF Records, Begun, Byte
<1>3. n >= 1
  BY <1>1, <1>2 DEF Records, Aligned
<1>4. \A j \in 1 .. n : r[j].id = r[1].id /\ r[j].at = j /\ r[j].of = n
  <2>1. SUFFICES ASSUME NEW j \in 1 .. n
                 PROVE  r[j].id = r[1].id /\ r[j].at = j /\ r[j].of = n
    OBVIOUS
  <2>2. j \in 1 .. Len(r) /\ 1 - r[1].at < j /\ j <= 1 - r[1].at + r[1].of
    BY <1>1, <1>2
  <2>3. r[j].id = r[1].id /\ r[j].of = r[1].of /\ r[j].at = j - (1 - r[1].at)
    BY <1>1, <2>2 DEF Records, Aligned
  <2> QED
    BY <1>2, <2>3
<1>5. PICK c, f, d : /\ c = Stream!Chunk(r[1].id, n) /\ f = SubSeq(r, 1, n)
                     /\ d = Drop(r, n)
  OBVIOUS
<1>6. /\ c \in Seq(Byte) /\ Len(c) = n
      /\ \A i \in 1 .. n : c[i].id = r[1].id /\ c[i].at = i /\ c[i].of = n
  BY <1>2, <1>3, <1>5, ChunkProperties, SMTT(30) DEF Names
<1>7. /\ f \in Seq(Byte) /\ Len(f) = n
      /\ \A i \in 1 .. n : f[i] = r[i]
  BY <1>1, <1>2, <1>5, FirstProperties
<1>8. f = c
  <2>1. \A i \in 1 .. n : f[i] = c[i]
    <3>1. SUFFICES ASSUME NEW i \in 1 .. n
                   PROVE  f[i] = c[i]
      OBVIOUS
    <3>2. f[i] \in Byte /\ c[i] \in Byte
      BY <1>6, <1>7
    <3>3. f[i].id = c[i].id /\ f[i].at = c[i].at /\ f[i].of = c[i].of
      BY <1>4, <1>6, <1>7
    <3> QED
      BY <3>2, <3>3 DEF Byte
  <2> QED
    BY <1>6, <1>7, <2>1, SeqEqual
<1>9. /\ d \in Seq(Byte) /\ Len(d) = Len(r) - n
      /\ \A i \in 1 .. Len(r) - n : d[i] = r[n + i]
  <2>1. n \in 0 .. Len(r)
    BY <1>1, <1>2
  <2>2. /\ Drop(r, n) \in Seq(Byte) /\ Len(Drop(r, n)) = Len(r) - n
        /\ \A i \in 1 .. Len(r) - n : Drop(r, n)[i] = r[n + i]
    BY <1>1, <2>1, DropProperties, ZenonT(60)
  <2> QED
    BY <1>5, <2>2
<1>10. Aligned(d)
  <2>1. SUFFICES ASSUME NEW k \in 1 .. Len(d), NEW j \in 1 .. Len(d)
                 PROVE  /\ 1 <= d[k].at /\ d[k].at <= d[k].of
                        /\ k - d[k].at < j /\ j <= k - d[k].at + d[k].of =>
                             /\ d[j].id = d[k].id /\ d[j].of = d[k].of
                             /\ d[j].at = j - (k - d[k].at)
    BY DEF Aligned
  <2>2. n \in Int /\ k \in Int /\ j \in Int
    BY <1>2, <1>9
  <2> PICK a \in Int, b \in Int : a = n + k /\ b = n + j
    BY <2>2
  <2>3. a \in 1 .. Len(r) /\ b \in 1 .. Len(r) /\ d[k] = r[a] /\ d[j] = r[b]
    <3>1. k \in 1 .. Len(r) - n /\ j \in 1 .. Len(r) - n /\ Len(r) \in Nat
      BY <1>1, <1>9
    <3>2. a \in 1 .. Len(r) /\ b \in 1 .. Len(r)
      <4>1. PICK l : l = Len(r)
        OBVIOUS
      <4>2. l \in Nat /\ n \in Nat /\ k \in 1 .. l - n /\ j \in 1 .. l - n
        BY <1>2, <3>1, <4>1
      <4>3. a \in 1 .. l /\ b \in 1 .. l
        BY <4>2
      <4> QED
        BY <4>1, <4>3
    <3>3. d[k] = r[n + k] /\ d[j] = r[n + j]
      BY <1>9, <3>1
    <3> QED
      BY <2>2, <3>2, <3>3
  <2>4. /\ 1 <= r[a].at /\ r[a].at <= r[a].of
        /\ a - r[a].at < b /\ b <= a - r[a].at + r[a].of =>
             /\ r[b].id = r[a].id /\ r[b].of = r[a].of
             /\ r[b].at = b - (a - r[a].at)
    BY <2>3 DEF Records, Aligned
  <2>5. r[a].at \in Nat /\ r[a].of \in Nat
    BY <1>1, <2>3, ByteFields
  <2>6. /\ k - r[a].at < j <=> a - r[a].at < b
        /\ j <= k - r[a].at + r[a].of <=> b <= a - r[a].at + r[a].of
        /\ j - (k - r[a].at) = b - (a - r[a].at)
    <3>2. PICK at \in Nat, of \in Nat : at = r[a].at /\ of = r[a].of
      BY <2>5
    <3>4. /\ k - at < j <=> a - at < b
          /\ j <= k - at + of <=> b <= a - at + of
          /\ j - (k - at) = b - (a - at)
      BY <2>2
    <3> QED
      BY <3>2, <3>4
  <2> QED
    BY <2>3, <2>4, <2>6
<1>11. Ended(d)
  BY <1>1, <1>2, <1>5, EndedDrop DEF Records
<1>12. Begun(d)
  <2>1. SUFFICES ASSUME d # <<>>, d[1].at # 1
                 PROVE  FALSE
    BY DEF Begun
  <2>2. PICK k : k = n + 1
    OBVIOUS
  <2>3. k \in 1 .. Len(r) /\ n \in 1 .. Len(r) /\ d[1] = r[k]
    BY <1>1, <1>2, <1>3, <1>9, <2>1, <2>2
  <2>4. r[k].at \in Nat /\ r[k].of \in Nat /\ 1 <= r[k].at /\ r[k].at <= r[k].of
    BY <1>1, <2>3, ByteFields DEF Records, Aligned
  <2>5. k - r[k].at < n /\ n <= k - r[k].at + r[k].of
    BY <1>2, <2>1, <2>2, <2>3, <2>4
  <2>6. r[n].of = r[k].of /\ r[n].at = n - (k - r[k].at)
    BY <2>3, <2>5 DEF Records, Aligned
  <2>7. r[n].at = n /\ r[n].of = n
    BY <1>2, <1>3, <1>4
  <2> QED
    BY <1>2, <2>2, <2>4, <2>6, <2>7
<1>13. \A k \in 1 .. Len(d) : d[k].id \in Ids /\ d[k].of \in Sizes
  <2>1. SUFFICES ASSUME NEW k \in 1 .. Len(d)
                 PROVE  d[k].id \in Ids /\ d[k].of \in Sizes
    OBVIOUS
  <2>2. n + k \in 1 .. Len(r) /\ d[k] = r[n + k]
    BY <1>1, <1>2, <1>9
  <2> QED
    BY <2>2 DEF Records
<1> QED
  BY <1>1, <1>2, <1>3, <1>5, <1>8, <1>9, <1>10, <1>11, <1>12, <1>13 DEF Records
-----------------------------------------------------------------------------
(* Steps that only move a thread. *)

LEMMA CountStaysRight ==
  ASSUME CountInv, UNCHANGED <<cfg, parser, received, stored>>,
         data'.dropped_packets = data.dropped_packets,
         Live' => Live /\ Unseen' = Unseen
  PROVE  CountInv'
<1>1. (Raw <=> Raw') /\ (Unwanted' = Unwanted) /\ Starts' = Starts
  BY DEF Raw, Unwanted, Starts, app_packet_matches
<1>2. /\ Count(received, Unwanted)' = Count(received, Unwanted)
      /\ Count(parser.pending, Unwanted)' = Count(parser.pending, Unwanted)
  BY <1>1 DEF Count
<1>3. Live' => Count(Unseen, Starts)' = Count(Unseen, Starts)
  BY <1>1 DEF Count
<1> QED
  BY <1>1, <1>2, <1>3 DEF CountInv

LEMMA Quiet ==
  ASSUME ThreadInv, Shapes', Progress',
         UNCHANGED <<cfg, parser, received, file, broken, stored, queue, open>>,
         data'.dropped_packets = data.dropped_packets,
         Live' => Live /\ Given' = Given,
         cfg.source # "pipe" => Ended(read'.bytes)
  PROVE  ThreadInv'
<1>1. Live' => Unseen' = Unseen
  BY DEF Unseen
<1>2. StreamInv'
  BY <1>1 DEF ThreadInv, StreamInv, Rest, Header
<1>3. EndInv'
  BY DEF ThreadInv, EndInv, Raw, Ended
<1>4. CountInv'
  BY <1>1, CountStaysRight DEF ThreadInv
<1> QED
  BY <1>2, <1>3, <1>4 DEF ThreadInv

LEMMA EndedEmpty == Ended(<<>>)
BY DEF Ended

LEMMA ReadFailsStep == ASSUME ThreadInv, ReadFails PROVE ThreadInv'
<1>1. Shapes'
  BY DEF ThreadInv, Shapes, ReadFails, streamVars, outputVars, Reads
<1>2. Progress'
  BY DEF ThreadInv, Progress, ReadFails, streamVars, outputVars, Raw
<1>3. Live' => Live /\ Given' = Given
  BY DEF ThreadInv, Progress, ReadFails, Live, Raw, Given
<1> QED
  BY <1>1, <1>2, <1>3, Quiet, EndedEmpty DEF ReadFails, streamVars, outputVars

LEMMA BeginThreadStep == ASSUME ThreadInv, BeginThread PROVE ThreadInv'
<1>1. Shapes'
  BY DEF ThreadInv, Shapes, BeginThread, streamVars, outputVars, Reads, Datas
<1>2. Progress'
  BY DEF ThreadInv, Shapes, Datas, Reads, Progress, BeginThread, streamVars, outputVars, Raw
<1>3. Live' => Live /\ Given' = Given
  BY DEF ThreadInv, Shapes, Datas, Reads, Progress, BeginThread, Live, Raw, Given
<1>4. read'.bytes = <<>> /\ data'.dropped_packets = data.dropped_packets
  BY DEF ThreadInv, Shapes, Datas, Reads, Progress, BeginThread
<1> QED
  BY <1>1, <1>2, <1>3, <1>4, Quiet, EndedEmpty DEF BeginThread, streamVars, outputVars

LEMMA CheckProcessStep == ASSUME ThreadInv, CheckProcess PROVE ThreadInv'
<1>1. Shapes'
  BY DEF ThreadInv, Shapes, CheckProcess, streamVars, outputVars
<1>2. Progress'
  BY DEF ThreadInv, Progress, CheckProcess, streamVars, outputVars, Raw
<1>3. Live' => Live /\ Given' = Given
  BY DEF CheckProcess, Live, Raw, Given
<1> QED
  BY <1>1, <1>2, <1>3, Quiet DEF CheckProcess, streamVars, outputVars, ThreadInv, EndInv

LEMMA PipeConnectedStep == ASSUME ThreadInv, PipeConnected PROVE ThreadInv'
<1>1. Shapes' /\ read' = [at |-> "issued", bytes |-> <<>>]
  BY DEF ThreadInv, Shapes, PipeConnected, streamVars, outputVars, Reads, Progress
<1>2. Progress'
  BY <1>1 DEF ThreadInv, Progress, PipeConnected, streamVars, outputVars, Raw
<1>3. Live' => Live /\ Given' = Given
  BY <1>1 DEF PipeConnected, Live, Raw, Given
<1> QED
  BY <1>1, <1>2, <1>3, Quiet, EndedEmpty DEF PipeConnected, streamVars, outputVars

LEMMA StopThreadStep == ASSUME ThreadInv, StopThread PROVE ThreadInv'
<1>1. Shapes' /\ data'.dropped_packets = data.dropped_packets /\ ~data'.process
  BY DEF ThreadInv, Shapes, StopThread, streamVars, outputVars, Datas
<1>2. Progress'
  BY <1>1 DEF ThreadInv, Progress, StopThread, streamVars, outputVars, Raw
<1>3. ~Live'
  BY <1>1 DEF Live
<1> QED
  BY <1>1, <1>2, <1>3, Quiet DEF StopThread, streamVars, outputVars, ThreadInv, EndInv

LEMMA ParseStoppedStep == ASSUME ThreadInv, ParseStopped PROVE ThreadInv'
<1>1. Shapes'
  BY DEF ThreadInv, Shapes, ParseStopped, streamVars, outputVars
<1>2. Progress'
  BY DEF ThreadInv, Progress, ParseStopped, streamVars, outputVars, Raw
<1>3. ~Live'
  BY DEF ParseStopped, Live
<1> QED
  BY <1>1, <1>2, <1>3, Quiet DEF ParseStopped, streamVars, outputVars, ThreadInv, EndInv

LEMMA ReadAgainStep == ASSUME ThreadInv, ReadAgain PROVE ThreadInv'
<1>1. Shapes' /\ read'.bytes = <<>> /\ read'.at # "done"
  <2>1. read' \in Reads /\ read'.bytes = <<>> /\ read'.at # "done"
    <3>1. PICK a \in {"issued", "none"} : read' = [at |-> a, bytes |-> <<>>]
      BY DEF ReadAgain
    <3> QED
      BY <3>1 DEF Reads
  <2> QED
    BY <2>1 DEF ThreadInv, Shapes, ReadAgain, streamVars, outputVars
<1>2. Progress'
  BY <1>1 DEF ThreadInv, Progress, ReadAgain, streamVars, outputVars, Raw
<1>3. Live' => Live /\ Given' = Given
  BY <1>1 DEF ReadAgain, Live, Raw, Given
<1> QED
  BY <1>1, <1>2, <1>3, Quiet, EndedEmpty DEF ReadAgain, streamVars, outputVars

LEMMA LeaveThreadStep == ASSUME ThreadInv, LeaveThread PROVE ThreadInv'
<1>1. Shapes' /\ data'.dropped_packets = data.dropped_packets /\ data'.process = data.process
  <2>1. read' \in Reads
    BY DEF LeaveThread, Reads
  <2>2. data' \in Datas /\ data'.dropped_packets = data.dropped_packets /\ data'.process = data.process
    BY DEF ThreadInv, Shapes, LeaveThread, Datas
  <2> QED
    BY <2>1, <2>2 DEF ThreadInv, Shapes, LeaveThread, streamVars, outputVars
<1>2. Progress'
  BY <1>1 DEF ThreadInv, Progress, LeaveThread, streamVars, outputVars, Raw
<1>3. ~Live'
  BY DEF LeaveThread, Live
<1> QED
  BY <1>1, <1>2, <1>3, Quiet, EndedEmpty DEF LeaveThread, streamVars, outputVars

LEMMA RejectCaptureStep ==
  ASSUME ThreadInv, RejectCapture \/ RejectWorker
  PROVE  ThreadInv'
<1>0. GiveUp
  BY DEF RejectCapture, RejectWorker
<1>1. /\ Shapes' /\ data'.dropped_packets = data.dropped_packets
      /\ data'.process => data.process
  <2>1. /\ data' \in Datas /\ data'.dropped_packets = data.dropped_packets
        /\ data'.process => data.process
    BY DEF ThreadInv, Shapes, RejectCapture, RejectWorker, Datas
  <2> QED
    BY <1>0, <2>1 DEF ThreadInv, Shapes, GiveUp, streamVars, outputVars
<1>2. Progress'
  BY <1>0, <1>1 DEF ThreadInv, Progress, GiveUp, streamVars, outputVars, Raw
<1>3. Live' => Live /\ Given' = Given
  BY <1>0, <1>1 DEF GiveUp, Live, Raw, Given
<1> QED
  BY <1>0, <1>1, <1>2, <1>3, Quiet DEF GiveUp, streamVars, outputVars, ThreadInv, EndInv

LEMMA WorkerStep ==
  ASSUME ThreadInv, WorkerCreates \/ WorkerEnds
  PROVE  ThreadInv'
<1>1. UNCHANGED <<open, queue, snaplen, stored, cfg, data, parser, read, main, thread,
                  file, broken, received>>
  BY DEF WorkerCreates, WorkerEnds, streamVars, outputVars
<1>2. Shapes'
  BY <1>1 DEF ThreadInv, Shapes
<1>3. Progress'
  BY <1>1 DEF ThreadInv, Progress, Raw
<1>4. Live' => Live /\ Given' = Given
  BY <1>1 DEF Live, Given, Raw
<1> QED
  BY <1>1, <1>2, <1>3, <1>4, Quiet DEF ThreadInv, EndInv

LEMMA WaitStep == ASSUME ThreadInv, wait_for_exit_signal PROVE ThreadInv'
<1>1. Shapes' /\ data'.dropped_packets = data.dropped_packets /\ ~data'.process
  BY DEF ThreadInv, Shapes, wait_for_exit_signal, streamVars, outputVars, Datas
<1>2. Progress'
  BY <1>1 DEF ThreadInv, Progress, wait_for_exit_signal, streamVars, outputVars, Raw
<1>3. ~Live'
  BY <1>1 DEF Live
<1> QED
  BY <1>1, <1>2, <1>3, Quiet DEF wait_for_exit_signal, streamVars, outputVars, ThreadInv, EndInv

LEMMA SetExitEventStep == ASSUME ThreadInv, SetExitEvent PROVE ThreadInv'
<1>1. Shapes' /\ data'.dropped_packets = data.dropped_packets /\ data'.process = data.process
  BY DEF ThreadInv, Shapes, SetExitEvent, streamVars, outputVars, Datas
<1>2. Progress'
  BY <1>1 DEF ThreadInv, Progress, SetExitEvent, streamVars, outputVars, Raw
<1>3. ~Live'
  BY <1>1 DEF ThreadInv, Progress, SetExitEvent, Live
<1> QED
  BY <1>1, <1>2, <1>3, Quiet DEF SetExitEvent, streamVars, outputVars, ThreadInv, EndInv
-----------------------------------------------------------------------------
(* The stream grows, and a read takes from it. *)

LEMMA DropNothing ==
  ASSUME NEW S, NEW s \in Seq(S)
  PROVE  Drop(s, 0) = s /\ SubSeq(s, 1, Len(s)) = s
<1>1. PICK d, f : d = Drop(s, 0) /\ f = SubSeq(s, 1, Len(s))
  OBVIOUS
<1>2. d \in Seq(S) /\ Len(d) = Len(s) /\ \A i \in 1 .. Len(s) : d[i] = s[i]
  <2>1. 0 \in 0 .. Len(s) /\ Len(s) - 0 = Len(s) /\ \A i \in 1 .. Len(s) : 0 + i = i
    OBVIOUS
  <2>2. /\ Drop(s, 0) \in Seq(S) /\ Len(Drop(s, 0)) = Len(s) - 0
        /\ \A i \in 1 .. Len(s) - 0 : Drop(s, 0)[i] = s[0 + i]
    BY <2>1, DropProperties
  <2> QED
    BY <1>1, <2>1, <2>2
<1>3. f \in Seq(S) /\ Len(f) = Len(s) /\ \A i \in 1 .. Len(s) : f[i] = s[i]
  BY <1>1, FirstProperties
<1>4. d = s /\ f = s
  BY <1>2, <1>3, SeqEqual
<1> QED
  BY <1>1, <1>4

LEMMA RestStore ==
  ASSUME NEW s, NEW have \in BOOLEAN, Rest(s, have, TRUE),
         NEW id \in Ids, NEW of \in Sizes
  PROVE  Rest(s \o Stream!Chunk(id, of), have, TRUE)
<1> of \in Nat \ {0}
  BY SizesNat
<1>1. PICK r \in Seq(Byte) : Records(r) /\ s = IF have THEN r ELSE Header \o r
  BY DEF Rest
<1>2. PICK c : c = Stream!Chunk(id, of)
  OBVIOUS
<1>3. c \in Seq(Byte) /\ Header \in Seq(Byte)
  BY <1>2, ChunkProperties, HeaderProperties DEF Names
<1>4. Records(r \o c) /\ r \o c \in Seq(Byte)
  BY <1>1, <1>2, RecordsStore DEF Records
<1>5. (Header \o r) \o c = Header \o (r \o c)
  BY <1>3, ConcatAssociative
<1>6. s \o c = IF have THEN r \o c ELSE Header \o (r \o c)
  BY <1>1, <1>5
<1> QED
  BY <1>2, <1>4, <1>6 DEF Rest

LEMMA ChunkCount ==
  ASSUME NEW id \in Ids, NEW of \in Nat \ {0}
  PROVE  /\ Count(Stream!Chunk(id, of), Starts) = 1
         /\ Count(Stream!Chunk(id, of), Unwanted) = IF app_packet_matches(id) THEN 0 ELSE 1
<1>1. PICK c : c = Stream!Chunk(id, of)
  OBVIOUS
<1>2. /\ c \in Seq(Byte) /\ Len(c) = of
      /\ \A i \in 1 .. of : c[i].id = id /\ c[i].at = i /\ c[i].of = of
  BY <1>1, ChunkProperties DEF Names
<1>3. \A i \in 2 .. Len(c) : c[i].at # 1
  BY <1>2
<1>4. \A i \in 2 .. Len(c) : c[i] \notin Starts /\ c[i] \notin Unwanted
  BY <1>3 DEF Starts, Unwanted
<1>5. 1 \in 1 .. of /\ c[1] \in Byte /\ Len(c) > 0
  BY <1>2
<1>6. c[1].id = id /\ c[1].at = 1
  BY <1>2, <1>5
<1>7. c[1] \in Starts /\ (~app_packet_matches(id) <=> c[1] \in Unwanted)
  BY <1>5, <1>6 DEF Starts, Unwanted
<1>8. Count(c, Starts) = 1
  BY <1>2, <1>4, <1>5, <1>7, CountFirst
<1>9. CASE app_packet_matches(id)
  <2>1. \A i \in 1 .. Len(c) : i = 1 \/ i \in 2 .. Len(c)
    BY <1>2
  <2>2. \A i \in 1 .. Len(c) : c[i] \notin Unwanted
    BY <1>4, <1>7, <1>9, <2>1
  <2> QED
    BY <1>1, <1>2, <1>8, <1>9, <2>2, CountNone
<1>10. CASE ~app_packet_matches(id)
  BY <1>1, <1>2, <1>4, <1>5, <1>7, <1>8, <1>10, CountFirst
<1> QED
  BY <1>9, <1>10

LEMMA UnseenBytes ==
  ASSUME Shapes
  PROVE  /\ Given \in Seq(Byte) /\ Unseen \in Seq(Byte) /\ Given \o queue \in Seq(Byte)
         /\ parser.pending \in Seq(Byte) /\ read.bytes \in Seq(Byte)
<1>1. parser.pending \in Seq(Byte) /\ read.bytes \in Seq(Byte) /\ queue \in Seq(Byte)
  BY DEF Shapes, Parsers, Reads
<1>2. Given \in Seq(Byte)
  BY <1>1 DEF Given
<1>3. Given \o queue \in Seq(Byte)
  BY <1>1, <1>2, ConcatProperties
<1> QED
  BY <1>1, <1>2, <1>3, ConcatProperties DEF Unseen

LEMMA StorePacketStep ==
  ASSUME ThreadInv, NEW id \in Ids, NEW inclLen \in 0 .. snaplen, StorePacket(id, inclLen)
  PROVE  ThreadInv'
<1>1. Shapes /\ snaplen \in Nat /\ inclLen \in Nat
  BY DEF ThreadInv, Shapes
<1>2. PICK of, c : of = RecordHeaderLen + inclLen /\ c = Stream!Chunk(id, of)
  OBVIOUS
<1>3. of \in Nat \ {0} /\ of \in Sizes
  BY <1>1, <1>2, ThreadAssumption, SMTT(30) DEF Shapes, Sizes
<1>4. c \in Seq(Byte) /\ Ended(c)
  BY <1>2, <1>3, ChunkProperties, ChunkEnded DEF Names
<1>5. PICK q : q = queue \o c
  OBVIOUS
<1>6. queue \in Seq(Byte) /\ q \in Seq(Byte)
  BY <1>1, <1>4, <1>5, ConcatProperties DEF Shapes
<1>7. /\ open /\ open' = open /\ snaplen' = snaplen /\ stored' = stored + 1
      /\ stored < MaxRecords /\ queue' = Drop(q, 0)
      /\ UNCHANGED <<cfg, data, parser, read, main, thread, file, broken, report, received>>
  BY <1>2, <1>5 DEF StorePacket, Stream!Store, Stream!TakeFrom, Drop, outputVars
<1>8. queue' = queue \o c
  BY <1>5, <1>6, <1>7, DropNothing
<1>9. Shapes'
  <2>1. stored' \in 0 .. MaxRecords
    BY <1>1, <1>7, ThreadAssumption DEF Shapes
  <2>2. queue' \in Seq(Byte)
    BY <1>5, <1>6, <1>8
  <2> QED
    BY <1>1, <1>7, <2>1, <2>2 DEF Shapes
<1>10. Progress'
  BY <1>7 DEF ThreadInv, Progress, Raw
<1>11. Given' = Given /\ (Live' <=> Live)
  BY <1>7 DEF Given, Live, Raw
<1>12. Unseen' = Unseen \o c
  <2>1. /\ Given \in Seq(Byte) /\ Given \o queue \in Seq(Byte)
        /\ parser.pending \in Seq(Byte)
    BY <1>1, UnseenBytes
  <2>2. PICK p \in Seq(Byte), g \in Seq(Byte), u \in Seq(Byte), v \in Seq(Byte) :
          p = parser.pending /\ g = Given /\ u = queue /\ v = g \o u
    BY <1>6, <2>1
  <2>3. g \o (u \o c) = v \o c
    <3>1. (g \o u) \o c = g \o (u \o c)
      BY <1>4, ConcatAssociative, SMTT(30)
    <3> QED
      BY <2>2, <3>1
  <2>4. (p \o v) \o c = p \o (v \o c)
    BY <1>4, ConcatAssociative, SMTT(30)
  <2>5. Unseen' = p \o (g \o (u \o c)) /\ Unseen = p \o v
    BY <1>7, <1>8, <1>11, <2>2 DEF Unseen
  <2> QED
    BY <2>3, <2>4, <2>5
<1>13. StreamInv'
  <2>1. SUFFICES ASSUME Live PROVE Rest(Unseen', parser'.have_pcap_header, open')
    BY <1>11 DEF StreamInv, Rest, Header
  <2>2. Rest(Unseen, parser.have_pcap_header, TRUE)
    BY <1>7, <2>1 DEF ThreadInv, StreamInv, Rest
  <2>3. parser.have_pcap_header \in BOOLEAN
    BY <1>1 DEF Shapes, Parsers
  <2>4. Rest(Unseen \o c, parser.have_pcap_header, TRUE)
    BY <1>2, <1>3, <2>2, <2>3, RestStore
  <2> QED
    BY <1>7, <1>12, <2>4 DEF Rest
<1>14. EndInv'
  <2>1. Ended(queue')
    BY <1>4, <1>6, <1>8, EndedConcat DEF ThreadInv, EndInv
  <2> QED
    BY <1>7, <2>1 DEF ThreadInv, EndInv, Raw, Ended
<1>15. CountInv'
  <2>1. Raw' = Raw /\ Unwanted' = Unwanted /\ Starts' = Starts
    BY <1>7 DEF Raw, Unwanted, Starts, app_packet_matches
  <2>2. data.dropped_packets \in Nat /\ stored \in Nat
    BY <1>1, ThreadAssumption DEF Shapes, Datas
  <2>3. Count(Unseen \o c, Starts) = Count(Unseen, Starts) + Count(c, Starts)
    BY <1>1, <1>4, UnseenBytes, CountConcat
  <2>4. Count(c, Starts) = 1
    BY <1>2, <1>3, ChunkCount
  <2>5. Count(Unseen, Starts) \in Nat
    BY <1>1, UnseenBytes, CountFinite
  <2>6. Count(Unseen, Starts)' = Count(Unseen, Starts) + 1
    BY <1>12, <2>1, <2>3, <2>4 DEF Count
  <2>7. /\ Count(received, Unwanted)' = Count(received, Unwanted)
        /\ Count(parser.pending, Unwanted)' = Count(parser.pending, Unwanted)
    BY <1>7, <2>1 DEF Count
  <2>8. ~Raw' => data'.dropped_packets = Count(received, Unwanted)'
                                          - Count(parser.pending, Unwanted)'
    BY <1>7, <2>1, <2>7 DEF ThreadInv, CountInv
  <2>9. data'.dropped_packets <= stored'
    BY <1>7, <2>2 DEF ThreadInv, CountInv
  <2>10. Live' => data'.dropped_packets + Count(Unseen, Starts)' <= stored'
    BY <1>7, <1>11, <2>2, <2>5, <2>6 DEF ThreadInv, CountInv
  <2> QED
    BY <2>8, <2>9, <2>10 DEF CountInv
<1> QED
  BY <1>9, <1>10, <1>13, <1>14, <1>15 DEF ThreadInv

LEMMA ReadCompletesStep ==
  ASSUME ThreadInv, NEW n \in 1 .. Len(queue), ReadCompletes(n)
  PROVE  ThreadInv'
<1>1. Shapes /\ queue \in Seq(Byte) /\ n \in 0 .. Len(queue)
  BY DEF ThreadInv, Shapes
<1>2. PICK f, d : f = SubSeq(queue, 1, n) /\ d = Drop(queue, n)
  OBVIOUS
<1>3. f \in Seq(Byte) /\ d \in Seq(Byte) /\ f \o d = queue
  BY <1>1, <1>2, Split, FirstProperties, DropProperties
<1>4. /\ read.at = "issued" /\ open' = open /\ snaplen' = snaplen
      /\ queue' = d /\ read' = [at |-> "done", bytes |-> f]
      /\ cfg.source # "pipe" => n = Len(queue)
      /\ UNCHANGED <<stored, cfg, data, parser, main, thread, file, broken, report, received>>
  BY <1>2 DEF ReadCompletes, Stream!Read, Stream!TakeFrom, Drop, outputVars
<1>5. Shapes'
  <2>1. read' \in Reads
    BY <1>3, <1>4 DEF Reads
  <2> QED
    BY <1>1, <1>3, <1>4, <2>1 DEF Shapes
<1>6. thread \notin {"none", "begin", "parse", "reread"} /\ main # "start" /\ read.bytes = <<>>
  BY <1>4 DEF ThreadInv, Progress
<1>7. Progress'
  BY <1>4, <1>6 DEF ThreadInv, Progress, Raw
<1>8. Given' = f /\ Given = <<>> /\ (Live' <=> Live)
  BY <1>4, <1>6 DEF Given, Live, Raw
<1>9. Unseen' = Unseen
  <2>1. Given' \o queue' = queue /\ Given \o queue = queue
    BY <1>1, <1>3, <1>4, <1>8, ConcatEmptySeq
  <2> QED
    BY <1>4, <2>1 DEF Unseen
<1>10. StreamInv'
  BY <1>4, <1>8, <1>9 DEF ThreadInv, StreamInv, Rest, Header
<1>11. Ended(queue) /\ Ended(d)
  BY <1>1, <1>2, EndedDrop DEF ThreadInv, EndInv
<1>12. cfg.source # "pipe" => Ended(f)
  <2>1. ASSUME n = Len(queue) PROVE f = queue
    BY <1>1, <1>2, <2>1, DropNothing
  <2> QED
    BY <1>4, <1>11, <2>1
<1>13. EndInv'
  <2>1. read'.bytes = f
    BY <1>4
  <2> QED
    BY <1>4, <1>11, <1>12, <2>1 DEF ThreadInv, EndInv, Raw, Ended
<1>14. CountInv'
  BY <1>4, <1>8, <1>9, CountStaysRight DEF ThreadInv
<1> QED
  BY <1>5, <1>7, <1>10, <1>13, <1>14 DEF ThreadInv

LEMMA process_dataStep == ASSUME ThreadInv, process_data PROVE ThreadInv'
<1>1. Shapes /\ Progress
  BY DEF ThreadInv
<1>2. /\ thread = "wait" /\ read.at = "done" /\ ~Raw
      /\ UNCHANGED <<open, queue, snaplen, stored, cfg, read, main, file, broken, report>>
  BY DEF process_data, streamVars, outputVars
<1>3. CASE UNCHANGED <<parser, received>> /\ data' = [data EXCEPT !.process = FALSE]
           /\ thread' = "reread"
  <2>1. Shapes' /\ data'.dropped_packets = data.dropped_packets /\ ~data'.process
    BY <1>1, <1>2, <1>3 DEF Shapes, Datas
  <2>2. Progress'
    BY <1>1, <1>2, <1>3, <2>1 DEF Progress, Raw
  <2>3. ~Live'
    BY <2>1 DEF Live
  <2> QED
    BY <1>2, <1>3, <2>1, <2>2, <2>3, Quiet DEF ThreadInv, EndInv
<1>4. CASE /\ parser' = [parser EXCEPT !.pending = @ \o read.bytes]
           /\ received' = received \o read.bytes
           /\ thread' = "parse" /\ data' = data
  <2>1. PICK p \in Seq(Byte), b \in Seq(Byte), q \in Seq(Byte), w \in Seq(Byte) :
          p = parser.pending /\ b = read.bytes /\ q = queue /\ w = received
    BY <1>1 DEF Shapes, Parsers, Reads
  <2>2. p \o b \in Seq(Byte) /\ w \o b \in Seq(Byte)
    BY ConcatProperties
  <2>3. /\ parser' \in Parsers /\ parser'.pending = p \o b /\ parser'.buf = parser.buf
        /\ parser'.have_pcap_header = parser.have_pcap_header
    BY <1>1, <1>4, <2>1, <2>2 DEF Shapes, Parsers
  <2>4. Shapes'
    BY <1>1, <1>2, <1>4, <2>1, <2>2, <2>3 DEF Shapes
  <2>5. Progress'
    BY <1>1, <1>2, <1>4, <2>3 DEF Progress, Raw
  <2>6. Given = b /\ Given' = <<>> /\ (Live' <=> Live)
    BY <1>2, <1>4, <2>1 DEF Given, Live, Raw
  <2>7. Unseen' = Unseen
    <3>1. (p \o b) \o q = p \o (b \o q)
      BY ConcatAssociative, SMTT(30)
    <3>2. <<>> \o q = q
      BY ConcatEmptySeq
    <3>3. Unseen = p \o (b \o q) /\ Unseen' = (p \o b) \o (<<>> \o q)
      BY <1>2, <2>1, <2>3, <2>6 DEF Unseen
    <3> QED
      BY <3>1, <3>2, <3>3
  <2>8. StreamInv'
    BY <1>2, <2>3, <2>6, <2>7 DEF ThreadInv, StreamInv, Rest, Header
  <2>9. EndInv'
    BY <1>2 DEF ThreadInv, EndInv, Raw, Ended
  <2>10. CountInv'
    <3>1. Raw' = Raw /\ Unwanted' = Unwanted /\ Starts' = Starts
      BY <1>2 DEF Raw, Unwanted, Starts, app_packet_matches
    <3>2. /\ Count(w \o b, Unwanted) = Count(w, Unwanted) + Count(b, Unwanted)
          /\ Count(p \o b, Unwanted) = Count(p, Unwanted) + Count(b, Unwanted)
      BY CountConcat
    <3>3. Count(w, Unwanted) \in Nat /\ Count(b, Unwanted) \in Nat /\ Count(p, Unwanted) \in Nat
      BY CountFinite
    <3>4. /\ Count(received, Unwanted)' = Count(w \o b, Unwanted)
          /\ Count(parser.pending, Unwanted)' = Count(p \o b, Unwanted)
          /\ Count(Unseen, Starts)' = Count(Unseen, Starts)
      <4>1. received' = w \o b /\ parser'.pending = p \o b
        BY <1>4, <2>1, <2>3
      <4>2. Count(received, Unwanted)' = Count(w \o b, Unwanted)
        BY <3>1, <4>1 DEF Count
      <4>3. Count(parser.pending, Unwanted)' = Count(p \o b, Unwanted)
        BY <3>1, <4>1 DEF Count
      <4>4. Count(Unseen, Starts)' = Count(Unseen, Starts)
        BY <2>7, <3>1 DEF Count
      <4> QED
        BY <4>2, <4>3, <4>4
    <3>5. data.dropped_packets = Count(w, Unwanted) - Count(p, Unwanted)
      BY <1>2, <2>1 DEF ThreadInv, CountInv
    <3>6. data.dropped_packets = Count(received, Unwanted)' - Count(parser.pending, Unwanted)'
      BY <3>2, <3>3, <3>4, <3>5
    <3> QED
      BY <1>2, <1>4, <2>6, <3>1, <3>4, <3>6 DEF ThreadInv, CountInv
  <2> QED
    BY <2>4, <2>5, <2>8, <2>9, <2>10 DEF ThreadInv
<1> QED
  BY <1>3, <1>4 DEF process_data

LEMMA ReportStep == ASSUME ThreadInv, Report PROVE ThreadInv'
<1>1. /\ Shapes /\ main = "reaping" /\ ~data.process
      /\ UNCHANGED <<open, queue, snaplen, stored, cfg, parser, read, thread, file,
                     broken, received>>
      /\ main' = "reported"
  BY DEF ThreadInv, Progress, Report, streamVars, outputVars
<1>2. data' \in Datas /\ data'.dropped_packets = data.dropped_packets /\ ~data'.process
  <2>1. PICK o : data' = [data EXCEPT !.output_created = o] /\ o \in BOOLEAN
    <3>1. worker.made \/ cfg.output = "exists" \/ data.output_created
          \/ ~(data.output_created \/ cfg.output = "exists" \/ worker.made)
      OBVIOUS
    <3> QED
      BY <3>1 DEF Report
  <2> QED
    BY <1>1, <2>1 DEF Shapes, Datas
<1>3. Shapes'
  BY <1>1, <1>2 DEF Shapes
<1>4. Progress'
  BY <1>1, <1>2 DEF ThreadInv, Progress, Raw
<1>5. ~Live'
  BY <1>2 DEF Live
<1> QED
  BY <1>1, <1>2, <1>3, <1>4, <1>5, Quiet DEF ThreadInv, EndInv

LEMMA CloseHandlesStep == ASSUME ThreadInv, CloseHandles PROVE ThreadInv'
<1>1. /\ Shapes /\ main = "joining" /\ ~data.process
      /\ UNCHANGED <<stored, cfg, data, parser, read, thread, file, broken, received>>
      /\ main' = "reaping"
  BY DEF ThreadInv, Progress, CloseHandles, outputVars
<1>2. open' \in BOOLEAN /\ snaplen' \in 0 .. Snaplen /\ (queue' = <<>> \/ queue' = queue)
  <2>1. CASE data.read_handle
    <3>1. Stream!Close
      BY <2>1 DEF CloseHandles
    <3> QED
      BY <3>1, SnaplenRange DEF Stream!Close
  <2>2. CASE ~data.read_handle
    BY <1>1, <2>2 DEF CloseHandles, Shapes
  <2> QED
    BY <2>1, <2>2
<1>3. Shapes'
  <2>1. queue' \in Seq(Byte)
    <3>1. queue \in Seq(Byte) /\ <<>> \in Seq(Byte)
      BY <1>1 DEF Shapes
    <3> QED
      BY <1>2, <3>1
  <2> QED
    BY <1>1, <1>2, <2>1 DEF Shapes
<1>4. Progress'
  BY <1>1 DEF ThreadInv, Progress, Raw
<1>5. ~Live'
  BY <1>1 DEF Live
<1>6. StreamInv'
  BY <1>5 DEF StreamInv
<1>7. EndInv'
  BY <1>1, <1>2, EndedEmpty DEF ThreadInv, EndInv, Raw, Ended
<1>8. CountInv'
  BY <1>1, <1>5, CountStaysRight DEF ThreadInv
<1> QED
  BY <1>3, <1>4, <1>6, <1>7, <1>8 DEF ThreadInv

LEMMA OpenOutputProperties ==
  ASSUME NEW d \in Datas
  PROVE  /\ OpenOutput(d) \in Datas
         /\ OpenOutput(d).dropped_packets = d.dropped_packets
         /\ OpenOutput(d).process = d.process
BY DEF OpenOutput, Datas

LEMMA HeaderCount ==
  ASSUME NEW P, P \subseteq Starts
  PROVE  Count(Header, P) = 0
<1>1. GlobalId \notin Ids
  BY ThreadAssumption
<1>2. \A i \in 1 .. Len(Header) : Header[i] \notin P
  BY <1>1, HeaderProperties DEF Starts
<1> QED
  BY <1>2, HeaderProperties, CountNone

LEMMA start_captureStep == ASSUME ThreadInv, start_capture PROVE ThreadInv'
<1>1. /\ Shapes /\ main = "start" /\ thread = "none" /\ queue = <<>> /\ ~open
      /\ data.dropped_packets = 0 /\ parser.pending = <<>>
      /\ ~parser.have_pcap_header /\ read.at = "none" /\ read.bytes = <<>>
  BY DEF ThreadInv, Progress, start_capture
<1>2. /\ UNCHANGED <<stored, cfg, parser, read, file, broken, report, received>>
      /\ main' = "waiting"
  BY DEF start_capture, outputVars
<1>3. PICK opened \in BOOLEAN, started \in BOOLEAN :
        LET d == CASE cfg.source = "pipe" ->
                        [data EXCEPT !.write_handle = opened,
                                     !.process = opened]
                   [] cfg.source = "worker" -> [data EXCEPT !.process = opened]
                   [] cfg.source = "driver"
                      /\ (cfg.store = "immediate" \/ cfg.output = "stdout") ->
                        [OpenOutput(data) EXCEPT !.process = started]
                   [] OTHER -> [data EXCEPT !.process = started]
            reads == opened /\ cfg.source # "worker"
        IN /\ data' = [d EXCEPT !.read_handle = reads]
           /\ thread' = IF started THEN "begin" ELSE "none"
           /\ IF reads THEN snaplen' = Snaplen /\ Stream!Open
                       ELSE UNCHANGED <<open, queue, last, snaplen>>
  BY DEF start_capture
<1> DEFINE reads == opened /\ cfg.source # "worker"
<1>4. cfg.source \in {"driver", "pipe", "worker"} /\ reads \in BOOLEAN
  BY <1>1 DEF Shapes, Options
<1>5. data' \in Datas /\ data'.dropped_packets = 0
  <2>1. data \in Datas
    BY <1>1 DEF Shapes
  <2>2. CASE cfg.source = "pipe"
    BY <1>1, <1>3, <2>1, <2>2 DEF Datas
  <2>5. CASE cfg.source = "worker"
    BY <1>1, <1>3, <2>1, <2>5 DEF Datas
  <2>3. CASE cfg.source = "driver" /\ (cfg.store = "immediate" \/ cfg.output = "stdout")
    <3>1. PICK o \in Datas : o = OpenOutput(data) /\ o.dropped_packets = 0
      BY <1>1, <2>1, OpenOutputProperties
    <3>2. data' = [[o EXCEPT !.process = started] EXCEPT !.read_handle = reads]
      BY <1>3, <2>3, <3>1
    <3> QED
      BY <1>4, <3>1, <3>2 DEF Datas
  <2>4. CASE cfg.source = "driver" /\ ~(cfg.store = "immediate" \/ cfg.output = "stdout")
    BY <1>1, <1>3, <2>1, <2>4 DEF Datas
  <2> QED
    BY <1>4, <2>2, <2>3, <2>4, <2>5
<1>6. thread' \in {"none", "begin"}
  BY <1>3
<1>7. \/ queue' = Header /\ open' = TRUE /\ snaplen' = Snaplen
      \/ queue' = <<>> /\ open' = FALSE /\ snaplen' = snaplen
  <2>1. CASE reads
    BY <1>3, <2>1 DEF Stream!Open, Header
  <2>2. CASE ~reads
    BY <1>1, <1>3, <2>2 DEF Shapes
  <2> QED
    BY <2>1, <2>2
<1>8. queue' \in Seq(Byte) /\ Ended(queue')
  <2>1. <<>> \in Seq(Byte)
    OBVIOUS
  <2> QED
    BY <1>7, <2>1, HeaderProperties, EndedEmpty
<1>9. Shapes'
  <2>1. snaplen' \in 0 .. Snaplen /\ open' \in BOOLEAN
    BY <1>1, <1>7, SnaplenRange DEF Shapes
  <2> QED
    BY <1>1, <1>2, <1>5, <1>6, <1>8, <2>1 DEF Shapes
<1>10. Progress'
  BY <1>1, <1>2, <1>5, <1>6 DEF ThreadInv, Progress, Raw
<1>11. Unseen' = queue'
  <2>1. Given' = <<>> /\ parser'.pending = <<>>
    BY <1>1, <1>2 DEF Given
  <2> QED
    BY <1>8, <2>1, ConcatEmptySeq DEF Unseen
<1>12. StreamInv'
  <2>1. Header \o <<>> = Header /\ <<>> \in Seq(Byte)
    BY HeaderProperties, ConcatEmptySeq
  <2>2. Rest(queue', FALSE, open')
    BY <1>7, <2>1, NoRecords DEF Rest
  <2>3. parser'.have_pcap_header = FALSE
    BY <1>1, <1>2 DEF Shapes, Parsers
  <2> QED
    BY <1>11, <2>2, <2>3 DEF StreamInv, Rest, Header
<1>13. EndInv'
  BY <1>2, <1>8 DEF ThreadInv, EndInv, Raw, Ended
<1>14. CountInv'
  <2>1. Raw' = Raw /\ Unwanted' = Unwanted /\ Starts' = Starts
    BY <1>2 DEF Raw, Unwanted, Starts, app_packet_matches
  <2>2. /\ Count(received, Unwanted)' = Count(received, Unwanted)
        /\ Count(parser.pending, Unwanted)' = Count(parser.pending, Unwanted)
    BY <1>2, <2>1 DEF Count
  <2>3. Count(queue', Starts) = 0
    BY <1>7, HeaderCount, CountEmpty
  <2>4. Count(Unseen, Starts)' = 0
    BY <1>11, <2>1, <2>3 DEF Count
  <2>5. stored \in Nat
    BY <1>1, ThreadAssumption DEF Shapes
  <2> QED
    BY <1>1, <1>2, <1>5, <2>1, <2>2, <2>4, <2>5 DEF ThreadInv, CountInv
<1> QED
  BY <1>9, <1>10, <1>12, <1>13, <1>14 DEF ThreadInv
-----------------------------------------------------------------------------
(* What is written. *)

LEMMA write_dataProperties ==
  ASSUME Shapes, NEW d \in Datas, NEW a \in Seq(Byte), NEW b \in Seq(Byte),
         NEW c \in Seq(Byte), write_data(d, <<a, b, c>>)
  PROVE  /\ data' \in Datas /\ data'.dropped_packets = d.dropped_packets
         /\ data'.process => d.process
         /\ broken' \in BOOLEAN /\ file' \in Seq(Byte)
         /\ ~broken' => ~broken /\ file' = ((file \o a) \o b) \o c
         /\ broken' => file' = <<>>
<1> DEFINE ws   == <<a, b, c>>
           used == {i \in 1 .. 3 : ws[i] # <<>>}
<1>1. PICK o \in [1 .. 3 -> Outcomes] :
        /\ data' = [d EXCEPT !.process = @ /\ \A i \in used : o[i] \in {"ok", "lost"}]
        /\ broken' = (broken \/ \E i \in used : o[i] # "ok")
        /\ file' = IF broken' THEN <<>> ELSE ((file \o ws[1]) \o ws[2]) \o ws[3]
  BY DEF write_data
<1>2. PICK fine \in BOOLEAN, bad \in BOOLEAN :
        /\ fine <=> \A i \in used : o[i] \in {"ok", "lost"}
        /\ bad  <=> \E i \in used : o[i] # "ok"
  OBVIOUS
<1> HIDE DEF used
<1>3. data' = [d EXCEPT !.process = @ /\ fine] /\ broken' = (broken \/ bad)
  BY <1>1, <1>2
<1>4. ws[1] = a /\ ws[2] = b /\ ws[3] = c
  OBVIOUS
<1> HIDE DEF ws
<1>5. file' = IF broken' THEN <<>> ELSE ((file \o a) \o b) \o c
  BY <1>1, <1>4
<1>6. /\ data' \in Datas /\ data'.dropped_packets = d.dropped_packets
      /\ data'.process => d.process
  BY <1>3 DEF Datas
<1>7. broken \in BOOLEAN /\ file \in Seq(Byte)
  BY DEF Shapes
<1>8. file \o a \in Seq(Byte)
  BY <1>7, ConcatProperties
<1>9. (file \o a) \o b \in Seq(Byte)
  BY <1>8, ConcatProperties
<1>10. ((file \o a) \o b) \o c \in Seq(Byte)
  BY <1>9, ConcatProperties
<1>11. file' \in Seq(Byte)
  <2>1. <<>> \in Seq(Byte)
    OBVIOUS
  <2> QED
    BY <1>5, <1>10, <2>1
<1> QED
  BY <1>3, <1>5, <1>6, <1>7, <1>11

(* A file that ends with a record still does after pieces that do.         *)
LEMMA EndedPieces ==
  ASSUME NEW f \in Seq(Byte), NEW a \in Seq(Byte), NEW b \in Seq(Byte), NEW c \in Seq(Byte),
         Ended(f), Ended(b), Ended(c), c = <<>> => Ended(a)
  PROVE  Ended(((f \o a) \o b) \o c)
<1>1. PICK u, v : u = f \o a /\ v = u \o b
  OBVIOUS
<1>2. u \in Seq(Byte) /\ v \in Seq(Byte)
  BY <1>1, ConcatProperties
<1>3. CASE c = <<>>
  <2>1. Ended(u)
    BY <1>1, <1>3, EndedConcat
  <2>2. Ended(v)
    BY <1>1, <1>2, <2>1, EndedConcat
  <2> QED
    BY <1>1, <1>2, <2>2, EndedConcat
<1>4. CASE c # <<>>
  BY <1>1, <1>2, <1>4, EndedConcat
<1> QED
  BY <1>3, <1>4

LEMMA DescriptorsProperties == Descriptors \in Seq(Byte) /\ Ended(Descriptors)
<1>1. DescId \in Names /\ RecordHeaderLen \in Nat \ {0}
  BY ThreadAssumption DEF Names
<1>2. <<>> \in Seq(Byte)
  OBVIOUS
<1>3. PICK c : c = Stream!Chunk(DescId, RecordHeaderLen)
  OBVIOUS
<1>4. c \in Seq(Byte) /\ Ended(c)
  BY <1>1, <1>3, ChunkProperties, ChunkEnded
<1> QED
  BY <1>2, <1>3, <1>4, EndedEmpty DEF Descriptors

LEMMA process_data_rawStep == ASSUME ThreadInv, process_data_raw PROVE ThreadInv'
<1> DEFINE missing == GlobalHeaderLen - Len(parser.buf)
           n       == ToWrite(missing, Len(read.bytes))
           buf     == parser.buf \o SubSeq(read.bytes, 1, n)
           filled  == missing > 0 /\ Len(buf) = GlobalHeaderLen
           a       == IF filled THEN buf ELSE <<>>
           b       == IF filled THEN Descriptors ELSE <<>>
           c       == Drop(read.bytes, n)
<1>1. /\ thread = "wait" /\ read.at = "done" /\ Raw
      /\ write_data(data, <<a, b, c>>)
      /\ parser' = [parser EXCEPT !.buf = buf]
      /\ received' = received \o read.bytes
      /\ thread' = "reread"
      /\ UNCHANGED <<open, queue, snaplen, stored, cfg, read, main, report>>
  BY DEF process_data_raw, streamVars
<1>2. Shapes /\ Progress
  BY DEF ThreadInv
<1>3. PICK r \in Seq(Byte), h \in Seq(Byte) : r = read.bytes /\ h = parser.buf /\ Len(h) <= GlobalHeaderLen
  BY <1>2 DEF Shapes, Parsers, Reads
<1>4. missing \in Nat /\ missing = GlobalHeaderLen - Len(h)
  BY <1>3, ThreadAssumption
<1>5. n \in 0 .. Len(r) /\ n <= missing
  BY <1>3, <1>4 DEF ToWrite
<1>6. c = Drop(r, n) /\ buf = h \o SubSeq(r, 1, n)
  BY <1>3
<1> HIDE DEF n, missing
<1>7. c \in Seq(Byte) /\ Len(c) = Len(r) - n /\ SubSeq(r, 1, n) \in Seq(Byte) /\ Len(SubSeq(r, 1, n)) = n
  BY <1>5, <1>6, DropProperties, FirstProperties
<1>8. buf \in Seq(Byte) /\ Len(buf) = Len(h) + n
  BY <1>6, <1>7, ConcatProperties
<1>9. a \in Seq(Byte) /\ b \in Seq(Byte)
  <2>1. <<>> \in Seq(Byte)
    OBVIOUS
  <2> QED
    BY <1>8, <2>1, DescriptorsProperties
<1> HIDE DEF buf, c
<1>10. filled => missing > 0 /\ missing = n
  <2>1. GlobalHeaderLen \in Nat /\ Len(h) \in Nat /\ n \in Nat
    BY <1>5, ThreadAssumption
  <2> QED
    BY <1>4, <1>8, <2>1
<1>11. /\ Ended(b)
  BY DescriptorsProperties, EndedEmpty
<1>12. ASSUME Ended(r) PROVE Ended(c) /\ (c = <<>> => Ended(a))
  <2>1. Ended(c)
    BY <1>5, <1>6, <1>12, EndedDrop
  <2>2. ASSUME c = <<>>, filled PROVE Ended(buf)
    <3>1. Len(c) = 0
      BY <2>2
    <3>2. n = Len(r) /\ n > 0
      BY <1>3, <1>4, <1>5, <1>7, <1>10, <2>2, <3>1
    <3>3. SubSeq(r, 1, n) = r /\ r # <<>>
      BY <3>2, DropNothing
    <3> QED
      BY <1>6, <1>12, <3>3, EndedConcat
  <2> QED
    BY <2>1, <2>2, EndedEmpty
<1> HIDE DEF a, b, filled
<1>13. data \in Datas /\ file \in Seq(Byte)
  BY <1>2 DEF Shapes
<1>14. /\ data' \in Datas /\ data'.dropped_packets = data.dropped_packets
       /\ data'.process => data.process
       /\ broken' \in BOOLEAN /\ file' \in Seq(Byte)
       /\ ~broken' => ~broken /\ file' = ((file \o a) \o b) \o c
       /\ broken' => file' = <<>>
  BY <1>1, <1>2, <1>7, <1>9, <1>13, write_dataProperties
<1>15. Shapes'
  <2>1. parser' \in Parsers /\ parser'.buf = buf
    BY <1>1, <1>2, <1>8 DEF Shapes, Parsers
  <2>2. Len(buf) <= GlobalHeaderLen
    BY <1>3, <1>4, <1>5, <1>8, ThreadAssumption
  <2>3. received' \in Seq(Byte)
    BY <1>1, <1>2, <1>3, ConcatProperties DEF Shapes
  <2> QED
    BY <1>1, <1>2, <1>14, <2>1, <2>2, <2>3 DEF Shapes
<1>16. Raw' = Raw
  BY <1>1 DEF Raw
<1>17. Progress'
  <2>1. /\ parser'.pending = parser.pending
        /\ parser'.have_pcap_header = parser.have_pcap_header
    BY <1>1, <1>2 DEF Shapes, Parsers
  <2> QED
    BY <1>1, <1>2, <1>14, <1>16, <2>1 DEF Progress
<1>18. ~Live'
  BY <1>1, <1>16 DEF Live
<1>19. EndInv'
  <2>1. ASSUME ~broken', cfg.source = "pipe" => ~Raw PROVE Ended(file')
    <3>1. Ended(r) /\ ~broken
      BY <1>1, <1>2, <1>3, <1>14, <2>1 DEF ThreadInv, EndInv, Shapes, Options
    <3>2. Ended(file)
      BY <2>1, <3>1 DEF ThreadInv, EndInv
    <3>3. Ended(((file \o a) \o b) \o c)
      BY <1>7, <1>9, <1>11, <1>12, <1>13, <3>1, <3>2, EndedPieces
    <3> QED
      BY <1>14, <2>1, <3>3
  <2>2. Ended(queue') /\ (cfg'.source # "pipe" => Ended(read'.bytes))
    BY <1>1 DEF ThreadInv, EndInv
  <2> QED
    BY <1>1, <1>16, <2>1, <2>2 DEF EndInv, Ended
<1>20. CountInv'
  BY <1>1, <1>14, <1>16, <1>18 DEF ThreadInv, CountInv
<1>21. StreamInv'
  BY <1>18 DEF StreamInv
<1> QED
  BY <1>15, <1>17, <1>19, <1>20, <1>21 DEF ThreadInv
-----------------------------------------------------------------------------
(* One round of the parser. *)

(* The parser x has q still to come.                                       *)
Feed(x, q) == x.pending \o q

LEMMA TakeHeaderProperties ==
  ASSUME NEW x \in Parsers, NEW q \in Seq(Byte), NEW isOpen \in BOOLEAN,
         Rest(Feed(x, q), x.have_pcap_header, isOpen)
  PROVE  /\ TakeHeader(x) \in Parsers /\ TakeHeader(x).buf = x.buf
         /\ Rest(Feed(TakeHeader(x), q), TakeHeader(x).have_pcap_header, isOpen)
         /\ Count(Feed(TakeHeader(x), q), Starts) = Count(Feed(x, q), Starts)
         /\ Count(TakeHeader(x).pending, Unwanted) = Count(x.pending, Unwanted)
         /\ \/ TakeHeader(x) = x
            \/ /\ ~x.have_pcap_header /\ TakeHeader(x).have_pcap_header
               /\ TakeHeader(x).wrote_pcap_header = x.wrote_pcap_header
               /\ x.pending = Header \o TakeHeader(x).pending
<1>1. CASE ~(~x.have_pcap_header /\ Len(x.pending) >= GlobalHeaderLen)
  <2>1. TakeHeader(x) = x
    BY <1>1 DEF TakeHeader
  <2> QED
    BY <2>1
<1>2. CASE ~x.have_pcap_header /\ Len(x.pending) >= GlobalHeaderLen
  <2>1. PICK s \in Seq(Byte) : s = x.pending
    BY DEF Parsers
  <2>2. PICK l \in Nat \ {0} : l = GlobalHeaderLen
    BY ThreadAssumption
  <2>3. l \in 0 .. Len(s)
    BY <1>2, <2>1, <2>2
  <2>4. PICK u, d : u = s \o q /\ d = Drop(s, l)
    OBVIOUS
  <2>5. u \in Seq(Byte) /\ Len(u) = Len(s) + Len(q)
    BY <2>4, ConcatProperties
  <2>6. u # <<>>
    BY <2>2, <2>3, <2>5
  <2>7. PICK r \in Seq(Byte) : Records(r) /\ u = Header \o r
    BY <1>2, <2>1, <2>4, <2>6 DEF Rest, Feed
  <2>8. Header \in Seq(Byte) /\ Len(Header) = l
    BY <2>2, HeaderProperties
  <2>9. Drop(u, l) = r
    BY <2>7, <2>8, DropOfConcat
  <2>10. d \o q = r /\ d \in Seq(Byte)
    BY <2>3, <2>4, <2>9, DropConcat, DropProperties
  <2>11. SubSeq(u, 1, l) = SubSeq(s, 1, l)
    BY <2>3, <2>4, FirstOfConcat
  <2>12. SubSeq(Header \o r, 1, l) = SubSeq(Header, 1, l)
    BY <2>8, FirstOfConcat
  <2>13. SubSeq(Header, 1, l) = Header
    BY <2>8, DropNothing
  <2>14. Header \o d = s
    BY <2>3, <2>4, <2>7, <2>11, <2>12, <2>13, Split
  <2>15. PICK p : p = [x EXCEPT !.pending = d, !.have_pcap_header = TRUE]
    OBVIOUS
  <2>16. TakeHeader(x) = p
    BY <1>2, <2>1, <2>2, <2>4, <2>15 DEF TakeHeader
  <2>17. /\ p \in Parsers /\ p.buf = x.buf /\ p.pending = d /\ p.have_pcap_header = TRUE
         /\ p.wrote_pcap_header = x.wrote_pcap_header
    BY <2>10, <2>15 DEF Parsers
  <2>18. Rest(Feed(p, q), p.have_pcap_header, isOpen)
    BY <2>7, <2>10, <2>17 DEF Rest, Feed
  <2>19. Starts \subseteq Starts /\ Unwanted \subseteq Starts
    BY DEF Starts, Unwanted
  <2>20. Count(Header, Starts) = 0 /\ Count(Header, Unwanted) = 0
    BY <2>19, HeaderCount
  <2>21. /\ Count(Header \o r, Starts) = Count(Header, Starts) + Count(r, Starts)
         /\ Count(Header \o d, Unwanted) = Count(Header, Unwanted) + Count(d, Unwanted)
    BY <2>8, <2>10, CountConcat
  <2>22. Count(r, Starts) \in Nat /\ Count(d, Unwanted) \in Nat
    BY <2>10, CountFinite
  <2>23. Count(u, Starts) = Count(r, Starts) /\ Count(s, Unwanted) = Count(d, Unwanted)
    BY <2>7, <2>14, <2>20, <2>21, <2>22
  <2>24. Feed(p, q) = r /\ Feed(x, q) = u
    BY <2>1, <2>4, <2>10, <2>17 DEF Feed
  <2> QED
    BY <1>2, <2>1, <2>14, <2>16, <2>17, <2>18, <2>23, <2>24
<1> QED
  BY <1>1, <1>2

LEMMA NextRecordProperties ==
  ASSUME NEW p \in Parsers, NEW q \in Seq(Byte), NEW isOpen \in BOOLEAN,
         Rest(Feed(p, q), p.have_pcap_header, isOpen),
         NEW rec, rec = NextRecord(p), rec # <<>>
  PROVE  /\ rec \in Seq(Byte) /\ Ended(rec) /\ rec[1].id \in Ids
         /\ Len(rec) \in 0 .. Len(p.pending)
         /\ Rest(Drop(p.pending, Len(rec)) \o q, p.have_pcap_header, isOpen)
         /\ Count(Feed(p, q), Starts) = 1 + Count(Drop(p.pending, Len(rec)) \o q, Starts)
         /\ Count(p.pending, Unwanted) = Count(Drop(p.pending, Len(rec)), Unwanted)
                                          + IF app_packet_matches(rec[1].id) THEN 0 ELSE 1
         /\ \E n \in Sizes : rec = Stream!Chunk(rec[1].id, n)
         /\ p.pending = rec \o Drop(p.pending, Len(rec))
<1>1. PICK s \in Seq(Byte) : s = p.pending
  BY DEF Parsers
<1>2. /\ p.have_pcap_header /\ Len(s) >= RecordHeaderLen /\ Len(s) >= s[1].of
      /\ rec = SubSeq(s, 1, s[1].of)
  BY <1>1 DEF NextRecord
<1>3. Len(s) >= 1 /\ 1 \in 1 .. Len(s)
  BY <1>2, ThreadAssumption
<1>4. PICK n \in Nat : n = s[1].of
  BY <1>3, ByteFields
<1>5. n <= Len(s) /\ n \in 0 .. Len(s) /\ rec = SubSeq(s, 1, n)
  BY <1>2, <1>4
<1>6. PICK r : r = s \o q
  OBVIOUS
<1>7. /\ r \in Seq(Byte) /\ Len(r) = Len(s) + Len(q)
      /\ \A i \in 1 .. Len(s) + Len(q) : r[i] = IF i <= Len(s) THEN s[i] ELSE q[i - Len(s)]
  BY <1>6, ConcatProperties
<1>8. Records(r)
  BY <1>1, <1>2, <1>6 DEF Rest, Feed
<1>9. r # <<>> /\ r[1] = s[1] /\ n <= Len(r)
  <2>1. 1 \in 1 .. Len(s) + Len(q)
    BY <1>3
  <2> QED
    BY <1>3, <1>5, <1>7, <2>1
<1>10. r[1].of = n
  BY <1>4, <1>9
<1>11. PICK id : id = r[1].id
  OBVIOUS
<1>12. /\ n \in Nat \ {0} /\ n \in Sizes
       /\ SubSeq(r, 1, n) = Stream!Chunk(id, n) /\ Records(Drop(r, n))
  BY <1>8, <1>9, <1>10, <1>11, RecordsTake
<1>13. id \in Ids
  BY <1>3, <1>7, <1>8, <1>11 DEF Records
<1>14. PICK c : c = Stream!Chunk(id, n) /\ rec = c
  BY <1>5, <1>6, <1>12, FirstOfConcat
<1>15. c \in Seq(Byte) /\ Len(c) = n /\ Ended(c) /\ c[1].id = id
  <2>1. id \in Names /\ 1 \in 1 .. n /\ n \in Nat \ {0}
    BY <1>12, <1>13 DEF Names
  <2>2. c = Stream!Chunk(id, n)
    BY <1>14
  <2>3. /\ c \in Seq(Byte) /\ Len(c) = n
        /\ \A i \in 1 .. n : c[i].id = id /\ c[i].at = i /\ c[i].of = n
    BY <2>1, <2>2, ChunkProperties
  <2>4. Ended(c)
    BY <2>1, <2>2, ChunkEnded
  <2> QED
    BY <2>1, <2>3, <2>4
<1>16. PICK d : d = Drop(s, n)
  OBVIOUS
<1>17. d \in Seq(Byte) /\ c \o d = s
  BY <1>5, <1>14, <1>16, Split, DropProperties
<1>18. d \o q = Drop(r, n)
  BY <1>5, <1>6, <1>16, DropConcat
<1>19. d \o q \in Seq(Byte)
  BY <1>17, ConcatProperties
<1>20. Rest(d \o q, p.have_pcap_header, isOpen)
  BY <1>2, <1>12, <1>18, <1>19 DEF Rest
<1>21. r = c \o (d \o q)
  <2>1. (c \o d) \o q = c \o (d \o q)
    <3>1. c \in Seq(Byte) /\ d \in Seq(Byte)
      BY <1>15, <1>17
    <3> QED
      BY <3>1, ConcatAssociative
  <2> QED
    BY <1>6, <1>17, <2>1
<1>22. PICK e \in Seq(Byte) : e = d \o q
  BY <1>19
<1>23. /\ Count(c \o e, Starts) = Count(c, Starts) + Count(e, Starts)
       /\ Count(c \o d, Unwanted) = Count(c, Unwanted) + Count(d, Unwanted)
  <2>1. c \in Seq(Byte) /\ d \in Seq(Byte)
    BY <1>15, <1>17
  <2> QED
    BY <2>1, CountConcat
<1>24. Count(c, Starts) = 1 /\ Count(c, Unwanted) = IF app_packet_matches(id) THEN 0 ELSE 1
  BY <1>12, <1>13, <1>14, ChunkCount
<1>25. Count(e, Starts) \in Nat /\ Count(d, Unwanted) \in Nat
  BY <1>17, CountFinite
<1>26. Count(r, Starts) = 1 + Count(e, Starts)
  BY <1>21, <1>22, <1>23, <1>24
<1>27. Count(s, Unwanted) = Count(d, Unwanted) + IF app_packet_matches(id) THEN 0 ELSE 1
  BY <1>17, <1>23, <1>24, <1>25
<1>28. Feed(p, q) = r /\ Drop(p.pending, Len(rec)) = d
  BY <1>1, <1>6, <1>14, <1>15, <1>16 DEF Feed
<1>29. Len(rec) \in 0 .. Len(p.pending)
  BY <1>1, <1>5, <1>14, <1>15
<1>30. \E k \in Sizes : rec = Stream!Chunk(rec[1].id, k)
  BY <1>12, <1>14, <1>15
<1> QED
  BY <1>1, <1>13, <1>14, <1>15, <1>17, <1>20, <1>22, <1>26, <1>27, <1>28, <1>29, <1>30

(* The record found, or none: what it takes from the pending bytes.        *)
LEMMA TakenProperties ==
  ASSUME NEW p \in Parsers, NEW q \in Seq(Byte), NEW isOpen \in BOOLEAN,
         Rest(Feed(p, q), p.have_pcap_header, isOpen),
         NEW rec, rec = NextRecord(p),
         NEW left, left = Drop(p.pending, Len(rec)),
         NEW gone, gone = IF rec # <<>> /\ ~app_packet_matches(rec[1].id) THEN 1 ELSE 0
  PROVE  /\ rec \in Seq(Byte) /\ Ended(rec) /\ left \in Seq(Byte)
         /\ Rest(left \o q, p.have_pcap_header, isOpen)
         /\ Count(left \o q, Starts) + gone <= Count(Feed(p, q), Starts)
         /\ Count(p.pending, Unwanted) = Count(left, Unwanted) + gone
<1>1. PICK s \in Seq(Byte) : s = p.pending
  BY DEF Parsers
<1>2. CASE rec = <<>>
  <2>1. Len(rec) = 0 /\ <<>> \in Seq(Byte)
    BY <1>2
  <2>2. left = s
    BY <1>1, <2>1, DropNothing
  <2>3. Count(s \o q, Starts) \in Nat /\ Count(s, Unwanted) \in Nat
    <3>1. PICK u \in Seq(Byte) : u = s \o q
      BY ConcatProperties
    <3> QED
      BY <3>1, CountFinite
  <2>4. gone = 0
    BY <1>2
  <2> QED
    BY <1>1, <1>2, <2>1, <2>2, <2>3, <2>4, EndedEmpty DEF Feed
<1>3. CASE rec # <<>>
  <2>1. /\ rec \in Seq(Byte) /\ Ended(rec) /\ rec[1].id \in Ids
        /\ Len(rec) \in 0 .. Len(s)
        /\ Rest(left \o q, p.have_pcap_header, isOpen)
        /\ Count(Feed(p, q), Starts) = 1 + Count(left \o q, Starts)
        /\ Count(s, Unwanted) = Count(left, Unwanted)
                                 + IF app_packet_matches(rec[1].id) THEN 0 ELSE 1
    BY <1>1, <1>3, NextRecordProperties
  <2>2. left \in Seq(Byte)
    <3>1. PICK n : n = Len(rec)
      OBVIOUS
    <3>2. n \in 0 .. Len(s) /\ left = Drop(s, n)
      BY <1>1, <2>1, <3>1
    <3> QED
      BY <3>2, DropProperties
  <2>3. Count(left \o q, Starts) \in Nat /\ Count(left, Unwanted) \in Nat
    <3>1. PICK u \in Seq(Byte) : u = left \o q
      BY <2>2, ConcatProperties
    <3> QED
      BY <2>2, <3>1, CountFinite
  <2>4. gone \in {0, 1} /\ gone = IF app_packet_matches(rec[1].id) THEN 0 ELSE 1
    BY <1>3
  <2> QED
    BY <1>1, <2>1, <2>2, <2>3, <2>4
<1> QED
  BY <1>2, <1>3

LEMMA ParseRecordStep == ASSUME ThreadInv, ParseRecord PROVE ThreadInv'
<1> DEFINE p      == TakeHeader(parser)
           rec    == NextRecord(p)
           match  == rec # <<>> /\ app_packet_matches(rec[1].id)
           begins == /\ p.have_pcap_header /\ ~p.wrote_pcap_header
                     /\ cfg.store = "immediate" \/ match
           d      == IF begins THEN OpenOutput(data) ELSE data
           left   == Drop(p.pending, Len(rec))
           gone   == IF rec # <<>> /\ ~app_packet_matches(rec[1].id) THEN 1 ELSE 0
           e      == [d EXCEPT !.triggered = @ \/ begins,
                               !.dropped_packets =
                                  IF rec # <<>> /\ ~match THEN @ + 1 ELSE @]
           a      == IF begins THEN Header ELSE <<>>
           b      == IF begins THEN Descriptors ELSE <<>>
           c      == IF match THEN rec ELSE <<>>
<1>1. /\ thread = "parse" /\ data.process
      /\ UNCHANGED <<open, queue, snaplen, stored, cfg, read, main, report, received>>
  BY DEF ParseRecord, streamVars
<1>2. \/ /\ parser' = p /\ data' = [d EXCEPT !.process = FALSE] /\ thread' = "reread"
         /\ UNCHANGED <<file, broken>>
      \/ /\ parser' = [p EXCEPT !.pending = Drop(@, Len(rec)),
                                !.wrote_pcap_header = @ \/ begins]
         /\ write_data(e, <<a, b, c>>)
         /\ thread' = IF rec = <<>> THEN "reread" ELSE "parse"
  BY DEF ParseRecord, outputVars
<1>3. /\ Shapes /\ Progress /\ ~Raw /\ Live /\ read.at = "done" /\ main # "start"
  BY <1>1 DEF ThreadInv, Progress, Live
<1>4. queue \in Seq(Byte) /\ open \in BOOLEAN /\ parser \in Parsers /\ data \in Datas
  BY <1>3 DEF Shapes
<1>5. Unseen = Feed(parser, queue)
  <2>1. Given = <<>>
    BY <1>1 DEF Given
  <2> QED
    BY <1>4, <2>1, ConcatEmptySeq DEF Unseen, Feed
<1>6. Rest(Feed(parser, queue), parser.have_pcap_header, open)
  BY <1>3, <1>5 DEF ThreadInv, StreamInv
<1>7. /\ p \in Parsers /\ p.buf = parser.buf
      /\ Rest(Feed(p, queue), p.have_pcap_header, open)
      /\ Count(Feed(p, queue), Starts) = Count(Unseen, Starts)
      /\ Count(p.pending, Unwanted) = Count(parser.pending, Unwanted)
  BY <1>4, <1>5, <1>6, TakeHeaderProperties
<1> HIDE DEF p
<1>8. /\ rec \in Seq(Byte) /\ Ended(rec) /\ left \in Seq(Byte)
      /\ Rest(left \o queue, p.have_pcap_header, open)
      /\ Count(left \o queue, Starts) + gone <= Count(Unseen, Starts)
      /\ Count(p.pending, Unwanted) = Count(left, Unwanted) + gone
  BY <1>4, <1>7, TakenProperties
<1>9. gone \in {0, 1} /\ (gone = 1 <=> rec # <<>> /\ ~match)
  OBVIOUS
<1> HIDE DEF rec, gone
<1>10. match \in BOOLEAN /\ begins \in BOOLEAN
  BY <1>4, <1>7 DEF Parsers
<1> HIDE DEF match, begins
<1>11. d \in Datas /\ d.dropped_packets = data.dropped_packets
  BY <1>4, OpenOutputProperties
<1> HIDE DEF d
<1>12. Raw' = Raw /\ Unwanted' = Unwanted /\ Starts' = Starts
  BY <1>1 DEF Raw, Unwanted, Starts, app_packet_matches
<1>13. stored \in Nat /\ data.dropped_packets \in Nat
  BY <1>3, ThreadAssumption DEF Shapes, Datas
<1>14. /\ data.dropped_packets = Count(received, Unwanted) - Count(parser.pending, Unwanted)
       /\ data.dropped_packets + Count(Unseen, Starts) <= stored
       /\ data.dropped_packets <= stored
  BY <1>3 DEF ThreadInv, CountInv
<1>15. /\ Count(received, Unwanted) \in Nat /\ Count(parser.pending, Unwanted) \in Nat
       /\ Count(Unseen, Starts) \in Nat /\ Count(left, Unwanted) \in Nat
       /\ Count(left \o queue, Starts) \in Nat
  <2>1. received \in Seq(Byte) /\ parser.pending \in Seq(Byte) /\ Unseen \in Seq(Byte)
    BY <1>3, UnseenBytes DEF Shapes
  <2>2. left \in Seq(Byte) /\ left \o queue \in Seq(Byte)
    BY <1>4, <1>8, ConcatProperties
  <2> QED
    BY <2>1, <2>2, CountFinite
<1>16. Count(received, Unwanted)' = Count(received, Unwanted)
  BY <1>1, <1>12 DEF Count
<1>17. Ended(queue') /\ (cfg'.source # "pipe" => Ended(read'.bytes))
  BY <1>1 DEF ThreadInv, EndInv
<1>18. CASE /\ parser' = p /\ data' = [d EXCEPT !.process = FALSE] /\ thread' = "reread"
            /\ UNCHANGED <<file, broken>>
  <2>1. data' \in Datas /\ data'.dropped_packets = data.dropped_packets /\ ~data'.process
    BY <1>11, <1>18 DEF Datas
  <2>2. Shapes'
    BY <1>1, <1>3, <1>7, <1>18, <2>1 DEF Shapes
  <2>3. Progress'
    BY <1>1, <1>3, <1>12, <1>18, <2>1 DEF Progress
  <2>4. ~Live'
    BY <2>1 DEF Live
  <2>5. EndInv'
    BY <1>1, <1>12, <1>17, <1>18 DEF ThreadInv, EndInv, Ended
  <2>6. CountInv'
    <3>1. Count(parser.pending, Unwanted)' = Count(p.pending, Unwanted)
      BY <1>12, <1>18 DEF Count
    <3> QED
      BY <1>1, <1>7, <1>14, <1>16, <2>1, <2>4, <3>1 DEF CountInv
  <2> QED
    BY <2>2, <2>3, <2>4, <2>5, <2>6 DEF ThreadInv, StreamInv
<1>19. CASE /\ parser' = [p EXCEPT !.pending = Drop(@, Len(rec)),
                                   !.wrote_pcap_header = @ \/ begins]
            /\ write_data(e, <<a, b, c>>)
            /\ thread' = IF rec = <<>> THEN "reread" ELSE "parse"
  <2>1. e \in Datas /\ e.dropped_packets = data.dropped_packets + gone
    <3>1. PICK k : k = data.dropped_packets + gone
      OBVIOUS
    <3>2. k \in Nat
      BY <1>9, <1>13, <3>1
    <3>3. e = [d EXCEPT !.triggered = @ \/ begins, !.dropped_packets = k]
      <4>1. CASE gone = 1
        <5>1. k = d.dropped_packets + 1 /\ rec # <<>> /\ ~match
          BY <1>9, <1>11, <3>1, <4>1
        <5> QED
          BY <5>1
      <4>2. CASE gone = 0
        <5>1. k = d.dropped_packets
          BY <1>11, <1>13, <3>1, <4>2
        <5>2. ~(rec # <<>> /\ ~match)
          BY <1>9, <4>2
        <5> QED
          BY <5>1, <5>2
      <4> QED
        BY <1>9, <4>1, <4>2
    <3> QED
      BY <1>10, <1>11, <3>1, <3>2, <3>3 DEF Datas
  <2>2. a \in Seq(Byte) /\ b \in Seq(Byte) /\ c \in Seq(Byte) /\ Ended(a) /\ Ended(b) /\ Ended(c)
    <3>1. <<>> \in Seq(Byte)
      OBVIOUS
    <3> QED
      BY <1>8, <3>1, EndedEmpty, HeaderProperties, DescriptorsProperties
  <2> HIDE DEF e, a, b, c
  <2>3. /\ data' \in Datas /\ data'.dropped_packets = e.dropped_packets
        /\ broken' \in BOOLEAN /\ file' \in Seq(Byte)
        /\ ~broken' => ~broken /\ file' = ((file \o a) \o b) \o c
        /\ broken' => file' = <<>>
    BY <1>3, <1>19, <2>1, <2>2, write_dataProperties, ZenonT(60)
  <2>4. data'.dropped_packets = data.dropped_packets + gone
    BY <2>1, <2>3
  <2>5. /\ parser' \in Parsers /\ parser'.buf = parser.buf /\ parser'.pending = left
        /\ parser'.have_pcap_header = p.have_pcap_header
    <3>1. parser' = [p EXCEPT !.pending = left, !.wrote_pcap_header = @ \/ begins]
      BY <1>7, <1>19
    <3> HIDE DEF left
    <3> QED
      BY <1>7, <1>8, <1>10, <3>1 DEF Parsers
  <2> HIDE DEF left
  <2>6. thread' \in {"parse", "reread"}
    BY <1>19
  <2>7. Shapes'
    BY <1>1, <1>3, <2>3, <2>5, <2>6 DEF Shapes
  <2>8. Progress'
    <3>1. main \in {"stopping", "joining", "reaping"} => ~data'.process
      BY <1>1, <1>3 DEF Progress
    <3> QED
      BY <1>1, <1>3, <1>12, <2>6, <3>1 DEF Progress
  <2>9. Unseen' = left \o queue
    <3>1. Given' = <<>>
      BY <2>6 DEF Given
    <3> QED
      BY <1>1, <1>4, <2>5, <3>1, ConcatEmptySeq DEF Unseen
  <2>10. StreamInv'
    BY <1>1, <1>8, <2>5, <2>9 DEF StreamInv, Rest, Header
  <2>11. EndInv'
    <3>1. ASSUME ~broken' PROVE Ended(file')
      <4>1. Ended(file) /\ file \in Seq(Byte)
        BY <1>3, <2>3, <3>1 DEF ThreadInv, EndInv, Shapes
      <4>2. Ended(((file \o a) \o b) \o c)
        BY <2>2, <4>1, EndedPieces
      <4> QED
        BY <2>3, <3>1, <4>2
    <3> QED
      BY <1>1, <1>12, <1>17, <3>1 DEF EndInv, Ended
  <2>12. CountInv'
    <3>1. /\ Count(parser.pending, Unwanted)' = Count(left, Unwanted)
          /\ Count(Unseen, Starts)' = Count(left \o queue, Starts)
      BY <1>12, <2>5, <2>9 DEF Count
    <3>2. PICK k \in Nat, g \in {0, 1}, m \in Nat, ru \in Nat, pu \in Nat,
               lu \in Nat, us \in Nat, ls \in Nat :
            /\ k = data.dropped_packets /\ g = gone /\ m = stored
            /\ ru = Count(received, Unwanted) /\ pu = Count(parser.pending, Unwanted)
            /\ lu = Count(left, Unwanted) /\ us = Count(Unseen, Starts)
            /\ ls = Count(left \o queue, Starts)
      BY <1>9, <1>13, <1>15
    <3>3. k = ru - pu /\ k + us <= m /\ pu = lu + g /\ ls + g <= us
      BY <1>7, <1>8, <1>14, <3>2
    <3>4. k + g = ru - lu /\ (k + g) + ls <= m /\ k + g <= m
      BY <3>3
    <3>5. data'.dropped_packets = k + g /\ stored' = m
      BY <1>1, <2>4, <3>2
    <3>6. /\ Count(received, Unwanted)' = ru /\ Count(parser.pending, Unwanted)' = lu
          /\ Count(Unseen, Starts)' = ls
      BY <1>16, <3>1, <3>2
    <3> QED
      BY <3>4, <3>5, <3>6 DEF CountInv
  <2> QED
    BY <2>7, <2>8, <2>10, <2>11, <2>12 DEF ThreadInv
<1> QED
  BY <1>2, <1>18, <1>19
-----------------------------------------------------------------------------
(* The theorems. *)

LEMMA ThreadInit == Init => ThreadInv
<1>1. SUFFICES ASSUME Init PROVE ThreadInv
  OBVIOUS
<1>2. <<>> \in Seq(Byte) /\ Len(<<>>) = 0
  OBVIOUS
<1>3. Shapes
  <2>1. open = FALSE /\ queue = <<>> /\ snaplen = 0
    BY <1>1 DEF Init, Stream!Init
  <2>2. data \in Datas
    BY <1>1 DEF Init, Datas
  <2>3. parser \in Parsers /\ parser.buf = <<>>
    BY <1>1, <1>2 DEF Init, Parsers
  <2>4. read \in Reads
    BY <1>1, <1>2 DEF Init, Reads
  <2>5. Len(parser.buf) <= GlobalHeaderLen
    BY <1>2, <2>3, ThreadAssumption
  <2>6. stored \in 0 .. MaxRecords
    BY <1>1, ThreadAssumption DEF Init
  <2>7. file \in Seq(Byte) /\ received \in Seq(Byte) /\ queue \in Seq(Byte)
    BY <1>1, <1>2, <2>1 DEF Init
  <2>8. snaplen \in 0 .. Snaplen
    BY <2>1, SnaplenRange
  <2> QED
    BY <1>1, <2>1, <2>2, <2>3, <2>4, <2>5, <2>6, <2>7, <2>8 DEF Init, Shapes
<1>4. Progress
  BY <1>1 DEF Init, Stream!Init, Progress
<1>5. Unseen = <<>> /\ queue = <<>> /\ ~parser.have_pcap_header /\ ~open
  <2>1. Given = <<>> /\ parser.pending = <<>> /\ queue = <<>>
    BY <1>1 DEF Init, Stream!Init, Given
  <2> QED
    BY <1>1, <2>1 DEF Init, Stream!Init, Unseen
<1>6. StreamInv
  BY <1>2, <1>5, NoRecords DEF StreamInv, Rest
<1>7. EndInv
  BY <1>1, <1>5, EndedEmpty DEF Init, EndInv
<1>8. CountInv
  <2>1. data.dropped_packets = 0 /\ stored = 0 /\ received = <<>> /\ parser.pending = <<>>
    BY <1>1 DEF Init
  <2> QED
    BY <1>5, <2>1, CountEmpty DEF CountInv
<1> QED
  BY <1>3, <1>4, <1>6, <1>7, <1>8 DEF ThreadInv

LEMMA ThreadStutter == ASSUME ThreadInv, UNCHANGED vars PROVE ThreadInv'
<1>1. UNCHANGED <<open, queue, snaplen, stored, cfg, data, parser, read, main, thread,
                  file, broken, received>>
  BY DEF vars, streamVars, outputVars
<1>2. Shapes'
  BY <1>1 DEF ThreadInv, Shapes
<1>3. Progress'
  BY <1>1 DEF ThreadInv, Progress, Raw
<1>4. Live' => Live /\ Given' = Given
  BY <1>1 DEF Live, Given, Raw
<1> QED
  BY <1>1, <1>2, <1>3, <1>4, Quiet DEF ThreadInv, EndInv

LEMMA ThreadNext == ASSUME ThreadInv, [Next]_vars PROVE ThreadInv'
<1>1. CASE UNCHANGED vars
  BY <1>1, ThreadStutter
<1>2. CASE Next
  <2>1. CASE \E id \in Ids, inclLen \in 0 .. snaplen : StorePacket(id, inclLen)
    BY <2>1, StorePacketStep
  <2>2. CASE \E n \in 1 .. Len(queue) : ReadCompletes(n)
    BY <2>2, ReadCompletesStep
  <2>3. CASE ThreadStep
    BY <2>3, BeginThreadStep, CheckProcessStep, StopThreadStep, process_data_rawStep,
       process_dataStep, ParseRecordStep, ParseStoppedStep, ReadAgainStep, LeaveThreadStep
       DEF ThreadStep
  <2> QED
    BY <1>2, <2>1, <2>2, <2>3, ReadFailsStep, PipeConnectedStep, RejectCaptureStep,
       start_captureStep, WaitStep, SetExitEventStep, CloseHandlesStep, ReportStep,
       WorkerStep DEF Next
<1> QED
  BY <1>1, <1>2

LEMMA ThreadInvariant == Spec => []ThreadInv
<1>1. Init => ThreadInv
  BY ThreadInit
<1>2. ThreadInv /\ [Next]_vars => ThreadInv'
  BY ThreadNext
<1> QED
  BY <1>1, <1>2, PTL DEF Spec

(* The worker is started once and ends at most once. *)
WorkerTyped == worker \in [at : {"none", "running", "gone"}, made : BOOLEAN]

LEMMA WorkerInvariant == Spec => []WorkerTyped
<1>1. Init => WorkerTyped
  BY DEF Init, WorkerTyped
<1>2. ASSUME WorkerTyped, [Next]_vars PROVE WorkerTyped'
  <2>1. CASE UNCHANGED worker
    BY <1>2, <2>1 DEF WorkerTyped
  <2>2. CASE start_capture
    <3>1. \E opened \in BOOLEAN : worker' = [worker EXCEPT !.at =
            IF opened /\ cfg.source # "driver" THEN "running" ELSE @]
      BY <2>2 DEF start_capture
    <3> QED
      BY <1>2, <3>1 DEF WorkerTyped
  <2>3. CASE CloseHandles \/ WorkerCreates \/ WorkerEnds
    BY <1>2, <2>3 DEF CloseHandles, WorkerCreates, WorkerEnds, WorkerTyped
  <2>4. \/ UNCHANGED worker \/ start_capture
        \/ CloseHandles \/ WorkerCreates \/ WorkerEnds
    BY <1>2 DEF Next, ThreadStep, vars, StorePacket, ReadCompletes, ReadFails, BeginThread,
       CheckProcess, PipeConnected, StopThread, process_data_raw, process_data, ParseRecord,
       ParseStopped, ReadAgain, LeaveThread, GiveUp, RejectCapture, RejectWorker,
       wait_for_exit_signal, SetExitEvent, Report
  <2> QED
    BY <2>1, <2>2, <2>3, <2>4
<1> QED
  BY <1>1, <1>2, PTL DEF Spec

(* Type correctness; the count of rejected packets never exceeds the       *)
(* packets stored, because a packet is counted when its bytes leave the    *)
(* parser, and they leave it once.                                         *)
THEOREM ThreadTypes == Spec => []TypeOK
<1>1. ThreadInv /\ WorkerTyped => TypeOK
  <2>1. SUFFICES ASSUME ThreadInv, WorkerTyped PROVE TypeOK
    OBVIOUS
  <2>2. Shapes /\ data.dropped_packets <= stored
    BY <2>1 DEF ThreadInv, CountInv
  <2>3. data.dropped_packets \in 0 .. MaxRecords
    BY <2>2, ThreadAssumption DEF Shapes, Datas
  <2>4. data \in [process : BOOLEAN, exit_event : BOOLEAN,
                  read_handle : BOOLEAN, write_handle : BOOLEAN,
                  triggered : BOOLEAN, output_created : BOOLEAN,
                  dropped_packets : 0 .. MaxRecords]
    BY <2>2, <2>3 DEF Shapes, Datas
  <2> QED
    BY <2>1, <2>2, <2>4 DEF Shapes, TypeOK, Parsers, Reads, WorkerTyped
<1> QED
  BY <1>1, ThreadInvariant, WorkerInvariant, PTL

(* However the thread is stopped, however the pipe cuts the stream and     *)
(* whatever the sizes, the file of a finished capture ends with a whole    *)
(* record: process_data writes only records it has completely, and a read  *)
(* of the driver returns whole records.                                    *)
THEOREM FileEndsWithRecord == Spec => []EndsWithRecord
<1>1. ThreadInv => EndsWithRecord
  BY DEF ThreadInv, EndInv, Ended, EndsWithRecord
<1> QED
  BY <1>1, ThreadInvariant, PTL

(* dropped_packets is exact: it has grown once for every packet of which   *)
(* the bytes were received, are not wanted, and are no longer pending.     *)
THEOREM DroppedExactly == Spec => []DroppedCounted
<1>1. ThreadInv => DroppedCounted
  <2>1. SUFFICES ASSUME ThreadInv, ~Raw
                 PROVE  data.dropped_packets =
                          Cardinality({i \in 1 .. Len(received) :
                            received[i].at = 1 /\ received[i].id \in Ids
                              /\ ~app_packet_matches(received[i].id)})
                          - Cardinality({i \in 1 .. Len(parser.pending) :
                              parser.pending[i].at = 1 /\ parser.pending[i].id \in Ids
                                /\ ~app_packet_matches(parser.pending[i].id)})
    BY DEF DroppedCounted
  <2>2. ASSUME NEW s \in Seq(Byte)
        PROVE  {i \in 1 .. Len(s) : s[i] \in Unwanted} =
                 {i \in 1 .. Len(s) : s[i].at = 1 /\ s[i].id \in Ids
                                       /\ ~app_packet_matches(s[i].id)}
    <3>1. \A i \in 1 .. Len(s) : s[i] \in Byte
      OBVIOUS
    <3> QED
      BY <3>1 DEF Unwanted
  <2>3. received \in Seq(Byte) /\ parser.pending \in Seq(Byte)
    BY <2>1 DEF ThreadInv, Shapes, Parsers
  <2>4. data.dropped_packets = Count(received, Unwanted) - Count(parser.pending, Unwanted)
    BY <2>1 DEF ThreadInv, CountInv
  <2> QED
    BY <2>2, <2>3, <2>4 DEF Count
<1> QED
  BY <1>1, ThreadInvariant, PTL
=============================================================================
