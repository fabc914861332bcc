------------------------ MODULE USBPcapBuffer_proofs ------------------------
(***************************************************************************)
(* Machine-checked facts about the capture buffer: type correctness, what  *)
(* a write and a read do to the unread bytes, and the stream properties.   *)
(***************************************************************************)
EXTENDS USBPcapBuffer, SequenceTheorems, TLAPS

(* A ring: the fields of a root hub whose buffer exists.                   *)
Ring(d) ==
  /\ d \in [buffer : [0 .. d.bufferSize - 1 -> Byte],
            bufferSize : Nat \ {0}, readOffset : Nat, writeOffset : Nat,
            snaplen : Nat \ {0}]
  /\ d.readOffset < d.bufferSize
  /\ d.writeOffset < d.bufferSize

(* The offset of the i-th byte from r on, in a ring of n bytes.            *)
At(r, i, n) == IF r + i - 1 < n THEN r + i - 1 ELSE r + i - 1 - n

(* Taking an offset modulo the size resets it exactly when it has reached  *)
(* the end.                                                                *)
LEMMA ModWrap ==
  ASSUME NEW n \in Nat \ {0}, NEW x \in 0 .. n
  PROVE  x % n = IF x = n THEN 0 ELSE x
  OBVIOUS

(* A ring has a buffer: an allocation is never the NULL pointer.           *)
LEMMA RingHasBuffer ==
  ASSUME NEW d, Ring(d)
  PROVE  d.buffer # NoBuffer
<1>1. DOMAIN d.buffer = 0 .. d.bufferSize - 1
  BY DEF Ring
<1>2. 0 \in DOMAIN d.buffer
  BY <1>1 DEF Ring
<1>3. DOMAIN NoBuffer = {}
  BY DEF NoBuffer
<1>. QED
  BY <1>2, <1>3

(* The fields of a ring, one fact each.                                    *)
LEMMA RingFields ==
  ASSUME NEW d, Ring(d)
  PROVE  /\ d.bufferSize \in Nat \ {0}
         /\ d.readOffset \in 0 .. d.bufferSize - 1
         /\ d.writeOffset \in 0 .. d.bufferSize - 1
         /\ d.snaplen \in Nat \ {0}
         /\ d.buffer \in [0 .. d.bufferSize - 1 -> Byte]
  BY DEF Ring

(* Free and unread bytes are the whole ring but the one byte that tells a  *)
(* full ring from an empty one.                                            *)
LEMMA SpaceAccounting ==
  ASSUME NEW d, Ring(d)
  PROVE  /\ USBPcapGetBufferAllocated(d) \in 0 .. d.bufferSize - 1
         /\ USBPcapGetBufferFree(d) \in 0 .. d.bufferSize - 1
         /\ USBPcapGetBufferFree(d) + USBPcapGetBufferAllocated(d)
              = d.bufferSize - 1
<1>1. d.buffer # NoBuffer
  BY RingHasBuffer
<1>. QED
  BY <1>1 DEF Ring, USBPcapGetBufferAllocated, USBPcapGetBufferFree

(* The bytes a read returns, by their place in the ring.                   *)
LEMMA ReadAt ==
  ASSUME NEW d, Ring(d), NEW n \in 0 .. USBPcapGetBufferAllocated(d)
  PROVE  /\ USBPcapBufferRead(d, n) \in Seq(Byte)
         /\ Len(USBPcapBufferRead(d, n)) = n
         /\ \A i \in 1 .. n : /\ At(d.readOffset, i, d.bufferSize)
                                   \in 0 .. d.bufferSize - 1
                              /\ USBPcapBufferRead(d, n)[i]
                                   = d.buffer[At(d.readOffset, i, d.bufferSize)]
<1>1. ASSUME NEW i \in 1 .. n
      PROVE  /\ At(d.readOffset, i, d.bufferSize) \in 0 .. d.bufferSize - 1
             /\ USBPcapBufferRead(d, n)[i]
                  = d.buffer[At(d.readOffset, i, d.bufferSize)]
  <2>1. USBPcapBufferRead(d, n)[i] =
          IF Contiguous(d, n) \/ i <= d.bufferSize - d.readOffset
          THEN d.buffer[d.readOffset + i - 1]
          ELSE d.buffer[i - (d.bufferSize - d.readOffset) - 1]
    BY DEF USBPcapBufferRead
  <2>2. n <= USBPcapGetBufferAllocated(d) /\ n \in Nat
    BY SpaceAccounting
  <2>3. i \in Nat /\ 1 <= i /\ i <= n
    BY <2>2
  <2>4. At(d.readOffset, i, d.bufferSize) \in 0 .. d.bufferSize - 1
    BY <2>2, <2>3, RingFields, SMTT(30) DEF At, USBPcapGetBufferAllocated
  <2>5. CASE Contiguous(d, n) \/ i <= d.bufferSize - d.readOffset
    <3>1. d.readOffset + i - 1 < d.bufferSize
      BY <2>2, <2>3, <2>5, RingFields
         DEF Contiguous, USBPcapGetBufferAllocated
    <3>. QED
      BY <2>1, <2>4, <2>5, <3>1 DEF At
  <2>6. CASE ~(Contiguous(d, n) \/ i <= d.bufferSize - d.readOffset)
    <3>1. d.readOffset + i - 1 >= d.bufferSize
      BY <2>3, <2>6, RingFields
    <3>2. i - (d.bufferSize - d.readOffset) - 1
            = d.readOffset + i - 1 - d.bufferSize
      BY <2>3, RingFields
    <3>3. At(d.readOffset, i, d.bufferSize)
            = d.readOffset + i - 1 - d.bufferSize
      BY <2>3, <3>1, RingFields DEF At
    <3>. QED
      BY <2>1, <2>4, <2>6, <3>2, <3>3
  <2>. QED
    BY <2>5, <2>6
<1>2. \A i \in 1 .. n : USBPcapBufferRead(d, n)[i] \in Byte
  BY <1>1 DEF Ring
<1>3. n \in Nat
  BY SpaceAccounting
<1>4. USBPcapBufferRead(d, n) \in [1 .. n -> Byte]
  BY <1>2 DEF USBPcapBufferRead
<1>. QED
  BY <1>1, <1>3, <1>4

(* A write of data that fits appends it to the unread bytes.               *)
LEMMA WriteRing ==
  ASSUME NEW d, Ring(d), NEW data \in Seq(Byte),
         Len(data) <= USBPcapGetBufferFree(d)
  PROVE  /\ Ring(USBPcapBufferWriteUnsafe(d, data))
         /\ USBPcapGetBufferAllocated(USBPcapBufferWriteUnsafe(d, data))
              = USBPcapGetBufferAllocated(d) + Len(data)
         /\ USBPcapBufferWriteUnsafe(d, data).readOffset = d.readOffset
         /\ USBPcapBufferWriteUnsafe(d, data).bufferSize = d.bufferSize
         /\ USBPcapBufferWriteUnsafe(d, data).snaplen = d.snaplen
         /\ \A i \in 1 .. USBPcapGetBufferAllocated(d) + Len(data) :
              USBPcapBufferWriteUnsafe(d, data).buffer[At(d.readOffset, i, d.bufferSize)]
                = IF i <= USBPcapGetBufferAllocated(d)
                  THEN d.buffer[At(d.readOffset, i, d.bufferSize)]
                  ELSE data[i - USBPcapGetBufferAllocated(d)]
<1> DEFINE e == USBPcapBufferWriteUnsafe(d, data)
           r == d.readOffset
           w == d.writeOffset
           n == d.bufferSize
           len == Len(data)
<1>1. /\ n \in Nat \ {0} /\ r \in 0 .. n - 1 /\ w \in 0 .. n - 1
      /\ d.buffer \in [0 .. n - 1 -> Byte] /\ d.snaplen \in Nat \ {0}
  BY RingFields
<1>2. len \in Nat /\ \A i \in 1 .. len : data[i] \in Byte
  OBVIOUS
<1>3. len <= IF r = w THEN n - 1 ELSE IF r > w THEN r - w - 1 ELSE n - w + r - 1
  BY RingHasBuffer DEF USBPcapGetBufferFree
<1>4. e = [d EXCEPT !.buffer = e.buffer, !.writeOffset = e.writeOffset]
  BY DEF USBPcapBufferWriteUnsafe, Ring
<1>5. e.writeOffset = IF w + len < n THEN w + len ELSE w + len - n
  <2>1. e.writeOffset = IF n - w >= len THEN (w + len) % n ELSE len - (n - w)
    BY DEF USBPcapBufferWriteUnsafe, Ring
  <2>2. ASSUME n - w >= len
        PROVE  (w + len) % n = IF w + len = n THEN 0 ELSE w + len
    <3>1. w + len \in 0 .. n
      BY <1>1, <1>2, <2>2
    <3> HIDE DEF n, w, len
    <3>. QED
      BY <1>1, <3>1, ModWrap
  <2> HIDE DEF e, n, w, len
  <2>. QED
    BY <1>1, <1>2, <2>1, <2>2
<1>6. \A i \in 0 .. n - 1 : e.buffer[i] =
        IF w <= i /\ i < w + len THEN data[i - w + 1]
        ELSE IF i < w + len - n THEN data[n - w + i + 1] ELSE d.buffer[i]
  BY <1>1, <1>2, <1>3 DEF USBPcapBufferWriteUnsafe, Ring
<1>7. e.buffer \in [0 .. n - 1 -> Byte]
  BY <1>1, <1>2, <1>3, SMTT(30) DEF USBPcapBufferWriteUnsafe, Ring
<1>8. /\ e.readOffset = r /\ e.bufferSize = n /\ e.snaplen = d.snaplen
      /\ Ring(e)
  <2>1. /\ e.readOffset = r /\ e.bufferSize = n /\ e.snaplen = d.snaplen
        /\ e = [buffer |-> e.buffer, bufferSize |-> n, readOffset |-> r,
                writeOffset |-> e.writeOffset, snaplen |-> d.snaplen]
    BY <1>4 DEF Ring
  <2>2. e.writeOffset \in 0 .. n - 1
    <3> HIDE DEF e, n, w, r, len
    <3>. QED
      BY <1>1, <1>2, <1>3, <1>5
  <2> HIDE DEF e, n, w, r, len
  <2>. QED
    BY <1>1, <1>7, <2>1, <2>2 DEF Ring
<1>9. USBPcapGetBufferAllocated(e) = USBPcapGetBufferAllocated(d) + len
  <2>1. e.readOffset = r /\ e.bufferSize = n
    BY <1>8
  <2>2. USBPcapGetBufferAllocated(d) =
          IF r = w THEN 0 ELSE IF r > w THEN n - r + w ELSE w - r
    BY DEF USBPcapGetBufferAllocated
  <2>3. USBPcapGetBufferAllocated(e) =
          IF r = e.writeOffset THEN 0
          ELSE IF r > e.writeOffset THEN n - r + e.writeOffset
                                    ELSE e.writeOffset - r
    BY <2>1 DEF USBPcapGetBufferAllocated
  <2> DEFINE v == e.writeOffset
             a == USBPcapGetBufferAllocated(d)
             b == USBPcapGetBufferAllocated(e)
  <2> HIDE DEF e, n, w, r, len, v, a, b
  <2>4. a = IF r = w THEN 0 ELSE IF r > w THEN n - r + w ELSE w - r
    BY <2>2 DEF a
  <2>5. b = IF r = v THEN 0 ELSE IF r > v THEN n - r + v ELSE v - r
    BY <2>3 DEF b, v
  <2>6. v = IF w + len < n THEN w + len ELSE w + len - n
    BY <1>5 DEF v
  <2>7. b = a + len
    BY <1>1, <1>2, <1>3, <2>4, <2>5, <2>6
  <2>. QED
    BY <2>7 DEF a, b
<1>10. ASSUME NEW i \in 1 .. USBPcapGetBufferAllocated(d) + len
       PROVE  e.buffer[At(r, i, n)]
                = IF i <= USBPcapGetBufferAllocated(d)
                  THEN d.buffer[At(r, i, n)]
                  ELSE data[i - USBPcapGetBufferAllocated(d)]
  <2> DEFINE a == USBPcapGetBufferAllocated(d)
  <2>1. a = IF r = w THEN 0 ELSE IF r > w THEN n - r + w ELSE w - r
    BY DEF USBPcapGetBufferAllocated
  <2>2. a \in Nat
    BY SpaceAccounting
  <2>3. i \in 1 .. a + len
    OBVIOUS
  <2> HIDE DEF e, n, w, r, len, a
  <2>4. At(r, i, n) \in 0 .. n - 1
    <3>1. a + len <= n - 1
      BY <1>1, <1>2, <1>3, <2>1, <2>2
    <3>2. i \in Nat /\ 1 <= i /\ i <= n - 1
      BY <1>1, <1>2, <2>2, <2>3, <3>1
    <3>. QED
      BY <1>1, <3>2 DEF At
  <2>5. CASE i <= a
    <3>1. ~(w <= At(r, i, n) /\ At(r, i, n) < w + len)
      BY <1>1, <1>2, <1>3, <2>1, <2>2, <2>3, <2>5 DEF At
    <3>2. ~(At(r, i, n) < w + len - n)
      BY <1>1, <1>2, <1>3, <2>1, <2>2, <2>3, <2>5 DEF At
    <3>. QED
      BY <1>6, <2>4, <2>5, <3>1, <3>2 DEF a
  <2>6. CASE i > a
    <3>1. CASE w <= At(r, i, n) /\ At(r, i, n) < w + len
      <4>1. At(r, i, n) - w + 1 = i - a
        BY <1>1, <1>2, <1>3, <2>1, <2>2, <2>3, <2>6, <3>1 DEF At
      <4>. QED
        BY <1>6, <2>2, <2>3, <2>4, <2>6, <3>1, <4>1 DEF a
    <3>2. CASE ~(w <= At(r, i, n) /\ At(r, i, n) < w + len)
      <4>1. At(r, i, n) < w + len - n
        BY <1>1, <1>2, <1>3, <2>1, <2>2, <2>3, <2>6, <3>2 DEF At
      <4>2. n - w + At(r, i, n) + 1 = i - a
        BY <1>1, <1>2, <1>3, <2>1, <2>2, <2>3, <2>6, <3>2 DEF At
      <4>. QED
        BY <1>6, <2>2, <2>3, <2>4, <2>6, <3>2, <4>1, <4>2 DEF a
    <3>. QED
      BY <3>1, <3>2
  <2>. QED
    BY <2>2, <2>3, <2>5, <2>6 DEF a
<1>. QED
  BY <1>8, <1>9, <1>10

(* A write of n bytes leaves n bytes less to write.                        *)
LEMMA FreeAfterWrite ==
  ASSUME NEW d, NEW e, Ring(d), Ring(e), e.bufferSize = d.bufferSize,
         NEW n \in Nat,
         USBPcapGetBufferAllocated(e) = USBPcapGetBufferAllocated(d) + n
  PROVE  USBPcapGetBufferFree(e) = USBPcapGetBufferFree(d) - n
<1>1. /\ USBPcapGetBufferAllocated(d) \in Int /\ USBPcapGetBufferFree(d) \in Int
      /\ USBPcapGetBufferFree(d) + USBPcapGetBufferAllocated(d)
           = d.bufferSize - 1
  BY SpaceAccounting
<1>2. /\ USBPcapGetBufferFree(e) \in Int
      /\ USBPcapGetBufferFree(e) + USBPcapGetBufferAllocated(e)
           = d.bufferSize - 1
  BY SpaceAccounting
<1>. QED
  BY <1>1, <1>2

(* The unread bytes, by their place in the ring.                           *)
LEMMA UnreadAt ==
  ASSUME NEW d, Ring(d)
  PROVE  /\ Unread(d) \in Seq(Byte)
         /\ Len(Unread(d)) = USBPcapGetBufferAllocated(d)
         /\ \A i \in 1 .. USBPcapGetBufferAllocated(d) :
              Unread(d)[i] = d.buffer[At(d.readOffset, i, d.bufferSize)]
<1>1. USBPcapGetBufferAllocated(d) \in 0 .. USBPcapGetBufferAllocated(d)
  BY SpaceAccounting
<1>. QED
  BY <1>1, ReadAt DEF Unread

(* USBPcapBufferWriteUnsafe, wrapped or not, appends to what is unread.    *)
LEMMA WriteAppends ==
  ASSUME NEW d, Ring(d), NEW data \in Seq(Byte),
         Len(data) <= USBPcapGetBufferFree(d)
  PROVE  Unread(USBPcapBufferWriteUnsafe(d, data)) = Unread(d) \o data
<1> DEFINE e == USBPcapBufferWriteUnsafe(d, data)
           a == USBPcapGetBufferAllocated(d)
<1>1. /\ Ring(e)
      /\ USBPcapGetBufferAllocated(e) = a + Len(data)
      /\ e.readOffset = d.readOffset /\ e.bufferSize = d.bufferSize
      /\ \A i \in 1 .. a + Len(data) :
            e.buffer[At(d.readOffset, i, d.bufferSize)]
              = IF i <= a THEN d.buffer[At(d.readOffset, i, d.bufferSize)]
                          ELSE data[i - a]
  BY WriteRing
<1>2. /\ Unread(d) \in Seq(Byte) /\ Len(Unread(d)) = a /\ a \in Nat
      /\ \A i \in 1 .. a :
           Unread(d)[i] = d.buffer[At(d.readOffset, i, d.bufferSize)]
  BY UnreadAt, SpaceAccounting
<1>3. /\ Unread(e) \in Seq(Byte) /\ Len(Unread(e)) = a + Len(data)
      /\ \A i \in 1 .. a + Len(data) :
           Unread(e)[i] = e.buffer[At(d.readOffset, i, d.bufferSize)]
  <2> HIDE DEF e
  <2>. QED
    BY <1>1, UnreadAt
<1>4. /\ Unread(d) \o data \in Seq(Byte)
      /\ Len(Unread(d) \o data) = a + Len(data)
      /\ \A i \in 1 .. a + Len(data) :
           (Unread(d) \o data)[i] = IF i <= a THEN Unread(d)[i] ELSE data[i - a]
  <2> HIDE DEF a
  <2>. QED
    BY <1>2, ConcatProperties
<1>5. ASSUME NEW i \in 1 .. a + Len(data)
      PROVE  Unread(e)[i] = (Unread(d) \o data)[i]
  <2>1. CASE i <= a
    <3>1. i \in 1 .. a
      BY <1>2, <2>1
    <3> HIDE DEF e, a
    <3>. QED
      BY <1>1, <1>2, <1>3, <1>4, <2>1, <3>1
  <2>2. CASE ~(i <= a)
    <3> HIDE DEF e, a
    <3>. QED
      BY <1>1, <1>3, <1>4, <2>2
  <2>. QED
    BY <2>1, <2>2
<1> HIDE DEF e, a
<1>6. Unread(e) = Unread(d) \o data
  BY <1>3, <1>4, <1>5, SeqEqual
<1>. QED
  BY <1>6 DEF e

(* Writing two pieces is writing their concatenation, wherever the ring    *)
(* wraps: StoreRecord may treat the payload entries as one piece.          *)
LEMMA WriteConcatenation ==
  ASSUME NEW d, Ring(d), NEW s \in Seq(Byte), NEW t \in Seq(Byte),
         Len(s) + Len(t) <= USBPcapGetBufferFree(d)
  PROVE  /\ Unread(USBPcapBufferWriteUnsafe(USBPcapBufferWriteUnsafe(d, s), t))
              = Unread(USBPcapBufferWriteUnsafe(d, s \o t))
         /\ Ring(USBPcapBufferWriteUnsafe(USBPcapBufferWriteUnsafe(d, s), t))
<1> DEFINE e == USBPcapBufferWriteUnsafe(d, s)
<1>1. Len(s) \in Nat /\ Len(t) \in Nat /\ USBPcapGetBufferFree(d) \in Nat
  BY SpaceAccounting
<1>2. /\ Len(s) <= USBPcapGetBufferFree(d)
      /\ s \o t \in Seq(Byte) /\ Len(s \o t) <= USBPcapGetBufferFree(d)
  BY <1>1, ConcatProperties
<1>3. /\ Ring(e) /\ Unread(e) = Unread(d) \o s
      /\ USBPcapGetBufferAllocated(e) = USBPcapGetBufferAllocated(d) + Len(s)
      /\ e.bufferSize = d.bufferSize
  BY <1>2, WriteRing, WriteAppends
<1> HIDE DEF e
<1>4. Len(t) <= USBPcapGetBufferFree(e)
  BY <1>1, <1>3, SpaceAccounting, RingFields
<1>5. /\ Unread(USBPcapBufferWriteUnsafe(e, t)) = (Unread(d) \o s) \o t
      /\ Ring(USBPcapBufferWriteUnsafe(e, t))
  BY <1>3, <1>4, WriteRing, WriteAppends
<1>6. Unread(USBPcapBufferWriteUnsafe(d, s \o t)) = Unread(d) \o (s \o t)
  BY <1>2, WriteAppends
<1>7. (Unread(d) \o s) \o t = Unread(d) \o (s \o t)
  <2>1. Unread(d) \in Seq(Byte)
    BY UnreadAt
  <2>. QED
    BY <2>1, ConcatAssociative, SMTT(20)
<1>. QED
  BY <1>5, <1>6, <1>7 DEF e

(* A read of n bytes takes the first n unread bytes and leaves the rest.   *)
LEMMA ReadRing ==
  ASSUME NEW d, Ring(d), NEW n \in 0 .. USBPcapGetBufferAllocated(d)
  PROVE  /\ Ring(AfterRead(d, n))
         /\ USBPcapGetBufferAllocated(AfterRead(d, n))
              = USBPcapGetBufferAllocated(d) - n
         /\ AfterRead(d, n).buffer = d.buffer
         /\ AfterRead(d, n).bufferSize = d.bufferSize
         /\ AfterRead(d, n).snaplen = d.snaplen
         /\ AfterRead(d, n).readOffset
              = IF d.readOffset + n < d.bufferSize
                THEN d.readOffset + n ELSE d.readOffset + n - d.bufferSize
<1> DEFINE e == AfterRead(d, n)
           r == d.readOffset
           w == d.writeOffset
           m == d.bufferSize
           v == e.readOffset
<1>1. /\ m \in Nat \ {0} /\ r \in 0 .. m - 1 /\ w \in 0 .. m - 1
  BY RingFields
<1>2. n \in Nat /\ n <= IF r = w THEN 0 ELSE IF r > w THEN m - r + w ELSE w - r
  BY SpaceAccounting DEF USBPcapGetBufferAllocated
<1>3. v = IF r + n < m THEN r + n ELSE r + n - m
  <2>1. CASE n = 0
    BY <1>1, <2>1 DEF AfterRead
  <2>2. CASE n # 0 /\ Contiguous(d, n)
    <3>1. v = (r + n) % m
      BY <2>2 DEF AfterRead, Ring
    <3>2. r + n \in 0 .. m
      BY <1>1, <1>2, <2>2 DEF Contiguous
    <3> HIDE DEF v, r, m, w
    <3>3. (r + n) % m = IF r + n = m THEN 0 ELSE r + n
      BY <1>1, <3>2, ModWrap
    <3>. QED
      BY <1>1, <1>2, <3>1, <3>2, <3>3
  <2>3. CASE n # 0 /\ ~Contiguous(d, n)
    <3>1. v = n - (m - r)
      BY <2>3 DEF AfterRead, Ring
    <3>2. m - r < n
      BY <1>1, <1>2, <2>3 DEF Contiguous
    <3> HIDE DEF v, r, m, w
    <3>. QED
      BY <1>1, <1>2, <3>1, <3>2
  <2>. QED
    BY <2>1, <2>2, <2>3
<1>4. v \in 0 .. m - 1
  <2> HIDE DEF v, r, m, w
  <2>. QED
    BY <1>1, <1>2, <1>3
<1>5. e = [buffer |-> d.buffer, bufferSize |-> m, readOffset |-> v,
           writeOffset |-> w, snaplen |-> d.snaplen]
  BY DEF AfterRead, Ring
<1>6. /\ e.buffer = d.buffer /\ e.bufferSize = m /\ e.writeOffset = w
      /\ e.snaplen = d.snaplen
  BY <1>5
<1>7. Ring(e)
  <2>1. d.buffer \in [0 .. m - 1 -> Byte] /\ d.snaplen \in Nat \ {0}
    BY RingFields
  <2> HIDE DEF e, v, r, m, w
  <2>. QED
    BY <1>1, <1>4, <1>5, <1>6, <2>1 DEF Ring
<1>8. USBPcapGetBufferAllocated(e) = USBPcapGetBufferAllocated(d) - n
  <2> DEFINE a == USBPcapGetBufferAllocated(d)
             b == USBPcapGetBufferAllocated(e)
  <2>1. a = IF r = w THEN 0 ELSE IF r > w THEN m - r + w ELSE w - r
    BY DEF USBPcapGetBufferAllocated
  <2>2. b = IF v = w THEN 0 ELSE IF v > w THEN m - v + w ELSE w - v
    BY <1>6 DEF USBPcapGetBufferAllocated
  <2> HIDE DEF e, v, r, m, w, a, b
  <2>3. b = a - n
    BY <1>1, <1>2, <1>3, <2>1, <2>2
  <2>. QED
    BY <2>3 DEF a, b
<1>. QED
  BY <1>3, <1>6, <1>7, <1>8

(* USBPcapBufferRead, wrapped or not, removes from the front of what is    *)
(* unread, and the last byte it returns is the last one removed.           *)
LEMMA ReadTakes ==
  ASSUME NEW d, Ring(d), NEW n \in 0 .. USBPcapGetBufferAllocated(d)
  PROVE  /\ Unread(AfterRead(d, n)) = SubSeq(Unread(d), n + 1, Len(Unread(d)))
         /\ n # 0 => USBPcapBufferRead(d, n)[n] = Unread(d)[n]
<1> DEFINE e == AfterRead(d, n)
           a == USBPcapGetBufferAllocated(d)
           rest == SubSeq(Unread(d), n + 1, Len(Unread(d)))
<1>1. /\ Ring(e) /\ USBPcapGetBufferAllocated(e) = a - n
      /\ e.buffer = d.buffer /\ e.bufferSize = d.bufferSize
      /\ e.readOffset = IF d.readOffset + n < d.bufferSize
                        THEN d.readOffset + n
                        ELSE d.readOffset + n - d.bufferSize
  BY ReadRing
<1>2. a \in 0 .. d.bufferSize - 1 /\ n \in 0 .. a
  BY SpaceAccounting
<1>3. /\ Unread(d) \in Seq(Byte) /\ Len(Unread(d)) = a
      /\ \A i \in 1 .. a :
           Unread(d)[i] = d.buffer[At(d.readOffset, i, d.bufferSize)]
  BY UnreadAt
<1>4. /\ d.bufferSize \in Nat \ {0} /\ d.readOffset \in 0 .. d.bufferSize - 1
  BY RingFields
<1> HIDE DEF e, a
<1>5. /\ Unread(e) \in Seq(Byte) /\ Len(Unread(e)) = a - n
      /\ \A i \in 1 .. a - n :
           Unread(e)[i] = d.buffer[At(e.readOffset, i, d.bufferSize)]
  BY <1>1, UnreadAt
<1>6. /\ rest \in Seq(Byte) /\ Len(rest) = a - n
      /\ \A i \in 1 .. a - n : rest[i] = Unread(d)[n + i]
  BY <1>2, <1>3, <1>4, SMTT(30)
<1>7. ASSUME NEW i \in 1 .. a - n
      PROVE  Unread(e)[i] = rest[i]
  <2>1. At(e.readOffset, i, d.bufferSize)
          = At(d.readOffset, n + i, d.bufferSize)
    BY <1>1, <1>2, <1>4 DEF At
  <2>2. n + i \in 1 .. a
    BY <1>2, <1>4
  <2>. QED
    BY <1>3, <1>5, <1>6, <2>1, <2>2
<1>8. Unread(e) = rest
  <2> HIDE DEF rest
  <2>. QED
    BY <1>2, <1>5, <1>6, <1>7, SeqEqual
<1>9. ASSUME n # 0
      PROVE  USBPcapBufferRead(d, n)[n] = Unread(d)[n]
  <2>1. n \in 1 .. n /\ n \in 1 .. a
    BY <1>2, <1>4, <1>9
  <2>2. USBPcapBufferRead(d, n)[n] = d.buffer[At(d.readOffset, n, d.bufferSize)]
    BY <2>1, ReadAt
  <2>. QED
    BY <1>3, <2>1, <2>2
<1>. QED
  BY <1>8, <1>9 DEF e
-----------------------------------------------------------------------------
(* Chunks. *)

(* A run of n bytes of a chunk is a sequence of n bytes.                   *)
LEMMA BytesType ==
  ASSUME NEW id \in ChunkIds, NEW of \in Nat, NEW from \in Nat, NEW n \in Nat
  PROVE  /\ Bytes(id, of, from, n) \in Seq(Byte)
         /\ Len(Bytes(id, of, from, n)) = n
<1>1. \A i \in 1 .. n : ByteAt(id, from + i, of) \in Byte
  BY DEF Byte, ByteAt
<1>2. Bytes(id, of, from, n) \in [1 .. n -> Byte]
  BY <1>1 DEF Bytes
<1>. QED
  BY <1>2

(* Two adjoining runs of a chunk make one run.                             *)
LEMMA BytesConcat ==
  ASSUME NEW id \in ChunkIds, NEW of \in Nat, NEW n \in Nat, NEW m \in Nat
  PROVE  Bytes(id, of, 0, n) \o Bytes(id, of, n, m) = Bytes(id, of, 0, n + m)
<1> DEFINE s == Bytes(id, of, 0, n)
           t == Bytes(id, of, n, m)
           u == Bytes(id, of, 0, n + m)
<1>1. /\ s \in Seq(Byte) /\ Len(s) = n
      /\ \A i \in 1 .. n : s[i] = ByteAt(id, i, of)
  <2>1. s \in Seq(Byte) /\ Len(s) = n
    BY BytesType
  <2>2. \A i \in 1 .. n : 0 + i = i /\ s[i] = ByteAt(id, 0 + i, of)
    BY DEF Bytes
  <2>. QED
    BY <2>1, <2>2
<1>2. /\ t \in Seq(Byte) /\ Len(t) = m
      /\ \A i \in 1 .. m : t[i] = ByteAt(id, n + i, of)
  <2>1. t \in Seq(Byte) /\ Len(t) = m
    BY BytesType
  <2>2. \A i \in 1 .. m : t[i] = ByteAt(id, n + i, of)
    BY DEF Bytes
  <2>. QED
    BY <2>1, <2>2
<1>3. /\ u \in Seq(Byte) /\ Len(u) = n + m
      /\ \A i \in 1 .. n + m : u[i] = ByteAt(id, i, of)
  <2>1. u \in Seq(Byte) /\ Len(u) = n + m
    BY BytesType
  <2>2. \A i \in 1 .. n + m : 0 + i = i /\ u[i] = ByteAt(id, 0 + i, of)
    BY DEF Bytes
  <2>. QED
    BY <2>1, <2>2
<1> HIDE DEF s, t, u
<1>4. /\ s \o t \in Seq(Byte) /\ Len(s \o t) = n + m
      /\ \A i \in 1 .. n + m : (s \o t)[i] = IF i <= n THEN s[i] ELSE t[i - n]
  BY <1>1, <1>2, ConcatProperties
<1>5. ASSUME NEW i \in 1 .. n + m
      PROVE  (s \o t)[i] = u[i]
  <2>1. CASE i <= n
    BY <1>1, <1>3, <1>4, <2>1
  <2>2. CASE ~(i <= n)
    <3>1. i - n \in 1 .. m /\ n + (i - n) = i
      BY <2>2
    <3>. QED
      BY <1>2, <1>3, <1>4, <2>2, <3>1
  <2>. QED
    BY <2>1, <2>2
<1>6. s \o t = u
  BY <1>3, <1>4, <1>5, SeqEqual
<1>. QED
  BY <1>6 DEF s, t, u

(* How many bytes of the record of p are written.                          *)
StoredLen(d, p) ==
  LET hdr == LesserOf(InclLen(d, p), p.headerLen)
  IN RecordHeaderLen + hdr + LesserOf(InclLen(d, p) - hdr, p.payload)

(* A packet that fits is appended as one run of bytes of its record; they  *)
(* are all of it when the payload entries hold all of the packet's data.   *)
LEMMA StoreAppends ==
  ASSUME NEW d, Ring(d), NEW p \in Packet, PacketFits(d, p)
  PROVE  /\ Ring(StoreRecord(d, p))
         /\ StoreRecord(d, p).snaplen = d.snaplen
         /\ StoreRecord(d, p).bufferSize = d.bufferSize
         /\ InclLen(d, p) \in 0 .. d.snaplen
         /\ Unread(StoreRecord(d, p)) = Unread(d) \o
              Bytes(p.id, RecordHeaderLen + InclLen(d, p), 0, StoredLen(d, p))
         /\ p.dataLength <= p.payload
              => StoredLen(d, p) = RecordHeaderLen + InclLen(d, p)
<1> DEFINE pid  == p.id
           incl == InclLen(d, p)
           of   == RecordHeaderLen + incl
           hdr  == LesserOf(incl, p.headerLen)
           pay  == LesserOf(incl - hdr, p.payload)
           b1   == Bytes(pid, of, 0, RecordHeaderLen)
           b2   == Bytes(pid, of, RecordHeaderLen, hdr)
           b3   == Bytes(pid, of, RecordHeaderLen + hdr, pay)
           d1   == USBPcapBufferWriteUnsafe(d, b1)
           d2   == USBPcapBufferWriteUnsafe(d1, b2)
           d3   == USBPcapBufferWriteUnsafe(d2, b3)
<1>1. /\ pid \in ChunkIds /\ p.headerLen \in Nat /\ p.dataLength \in Nat
      /\ p.payload \in Nat /\ RecordHeaderLen \in Nat
      /\ d.snaplen \in Nat
  BY SizeAssumption, RingFields DEF Packet, ChunkIds
<1>2. /\ incl \in 0 .. d.snaplen /\ hdr \in Nat /\ pay \in Nat
      /\ hdr + pay <= incl
      /\ p.dataLength <= p.payload => hdr + pay = incl
  <2>1. /\ incl \in Nat /\ incl <= d.snaplen
        /\ incl <= p.headerLen + p.dataLength
    BY <1>1 DEF InclLen, LesserOf
  <2> HIDE DEF incl
  <2>2. hdr \in Nat /\ hdr <= incl /\ incl - hdr <= p.dataLength
    BY <1>1, <2>1 DEF LesserOf
  <2> HIDE DEF hdr
  <2>3. /\ pay \in Nat /\ pay <= incl - hdr
        /\ p.dataLength <= p.payload => pay = incl - hdr
    BY <1>1, <2>1, <2>2 DEF LesserOf
  <2> HIDE DEF pay
  <2>. QED
    BY <1>1, <2>1, <2>2, <2>3
<1>3. of \in Nat
  BY <1>1, <1>2
<1>4. /\ USBPcapGetBufferFree(d) \in Nat
      /\ RecordHeaderLen + hdr + pay <= USBPcapGetBufferFree(d)
  <2>1. USBPcapGetBufferFree(d) \in Nat
    BY SpaceAccounting, RingFields
  <2>2. incl <= USBPcapGetBufferFree(d) - RecordHeaderLen
    BY <1>1, <1>2, <2>1 DEF PacketFits
  <2> HIDE DEF incl, hdr, pay
  <2>. QED
    BY <1>1, <1>2, <2>1, <2>2
<1>5. StoreRecord(d, p) = d3
  BY DEF StoreRecord
<1> HIDE DEF pid, incl, of, hdr, pay
<1>6. /\ b1 \in Seq(Byte) /\ Len(b1) = RecordHeaderLen
      /\ b2 \in Seq(Byte) /\ Len(b2) = hdr
      /\ b3 \in Seq(Byte) /\ Len(b3) = pay
  <2> DEFINE k == RecordHeaderLen + hdr
  <2>1. k \in Nat
    BY <1>1, <1>2
  <2> HIDE DEF k
  <2>2. /\ pid \in ChunkIds /\ of \in Nat /\ RecordHeaderLen \in Nat
        /\ hdr \in Nat /\ pay \in Nat
    BY <1>1, <1>2, <1>3
  <2>3. b1 \in Seq(Byte) /\ Len(b1) = RecordHeaderLen
    BY ONLY <2>2, BytesType
  <2>4. b2 \in Seq(Byte) /\ Len(b2) = hdr
    BY ONLY <2>2, BytesType
  <2>5. Bytes(pid, of, k, pay) \in Seq(Byte) /\ Len(Bytes(pid, of, k, pay)) = pay
    BY ONLY <2>1, <2>2, BytesType
  <2>. QED
    BY <2>3, <2>4, <2>5 DEF k
<1> HIDE DEF b1, b2, b3
<1>7. /\ Ring(d1) /\ d1.bufferSize = d.bufferSize /\ d1.snaplen = d.snaplen
      /\ Unread(d1) = Unread(d) \o b1
      /\ USBPcapGetBufferAllocated(d1)
           = USBPcapGetBufferAllocated(d) + RecordHeaderLen
  <2>1. Len(b1) <= USBPcapGetBufferFree(d)
    BY <1>1, <1>2, <1>4, <1>6
  <2>. QED
    BY <1>6, <2>1, WriteRing, WriteAppends
<1> HIDE DEF d1
<1>8. /\ Ring(d2) /\ d2.bufferSize = d.bufferSize /\ d2.snaplen = d.snaplen
      /\ Unread(d2) = Unread(d1) \o b2
      /\ USBPcapGetBufferAllocated(d2)
           = USBPcapGetBufferAllocated(d) + RecordHeaderLen + hdr
  <2>1. Len(b2) <= USBPcapGetBufferFree(d1)
    <3>1. USBPcapGetBufferFree(d1) = USBPcapGetBufferFree(d) - RecordHeaderLen
      BY <1>1, <1>4, <1>7, FreeAfterWrite
    <3>. QED
      BY <1>1, <1>2, <1>4, <1>6, <3>1
  <2>. QED
    BY <1>6, <1>7, <2>1, WriteRing, WriteAppends
<1> HIDE DEF d2
<1>9. /\ Ring(d3) /\ d3.bufferSize = d.bufferSize /\ d3.snaplen = d.snaplen
      /\ Unread(d3) = Unread(d2) \o b3
  <2>1. Len(b3) <= USBPcapGetBufferFree(d2)
    <3>1. USBPcapGetBufferFree(d2)
            = USBPcapGetBufferFree(d) - (RecordHeaderLen + hdr)
      <4>1. RecordHeaderLen + hdr \in Nat
        BY <1>1, <1>2
      <4>2. USBPcapGetBufferAllocated(d) \in Nat
        BY SpaceAccounting
      <4>3. USBPcapGetBufferAllocated(d2)
              = USBPcapGetBufferAllocated(d) + (RecordHeaderLen + hdr)
        BY <1>1, <1>2, <1>8, <4>2
      <4>. QED
        BY <1>8, <4>1, <4>3, FreeAfterWrite
    <3>. QED
      BY <1>1, <1>2, <1>4, <1>6, <3>1
  <2>. QED
    BY <1>6, <1>8, <2>1, WriteRing, WriteAppends
<1>10. Unread(d3)
         = Unread(d) \o Bytes(pid, of, 0, RecordHeaderLen + hdr + pay)
  <2>1. Unread(d) \in Seq(Byte)
    BY UnreadAt
  <2>2. b1 \o b2 = Bytes(pid, of, 0, RecordHeaderLen + hdr)
    BY <1>1, <1>2, <1>3, BytesConcat DEF b1, b2
  <2>3. (b1 \o b2) \o b3 = Bytes(pid, of, 0, RecordHeaderLen + hdr + pay)
    <3> DEFINE k == RecordHeaderLen + hdr
    <3>1. k \in Nat
      BY <1>1, <1>2
    <3> HIDE DEF k
    <3>2. Bytes(pid, of, 0, k) \o Bytes(pid, of, k, pay)
            = Bytes(pid, of, 0, k + pay)
      BY <1>1, <1>2, <1>3, <3>1, BytesConcat
    <3>. QED
      BY <2>2, <3>1, <3>2 DEF b3, k
  <2>5. b1 \o b2 \in Seq(Byte)
    BY <1>6
  <2>6. (Unread(d) \o b1) \o b2 = Unread(d) \o (b1 \o b2)
    BY <1>6, <2>1, ConcatAssociative, SMTT(60)
  <2>7. (Unread(d) \o (b1 \o b2)) \o b3 = Unread(d) \o ((b1 \o b2) \o b3)
    BY <1>6, <2>1, <2>5, ConcatAssociative, SMTT(60)
  <2>. QED
    BY <1>7, <1>8, <1>9, <2>3, <2>6, <2>7
<1>11. /\ StoredLen(d, p) = RecordHeaderLen + hdr + pay
       /\ p.dataLength <= p.payload => StoredLen(d, p) = of
  <2>1. StoredLen(d, p) = RecordHeaderLen + hdr + pay
    BY DEF StoredLen, hdr, pay, incl
  <2>. QED
    BY <1>1, <1>2, <2>1 DEF of
<1>. QED
  BY <1>2, <1>5, <1>9, <1>10, <1>11 DEF pid, of, incl
-----------------------------------------------------------------------------
(* Type correctness. *)

(* The contents of a fresh allocation are bytes too.                       *)
LEMMA UninitType == Uninit \in Byte
  BY DEF Uninit, ByteAt, Byte, ChunkIds

(* With a buffer, a well-typed root hub is a ring.                         *)
LEMMA TypedRing ==
  ASSUME TypeOK, pData.buffer # NoBuffer
  PROVE  Ring(pData)
  BY SizeAssumption DEF TypeOK, Ring

(* A ring of acceptable size is a well-typed root hub.                     *)
DataOK(d) == Ring(d) /\ d.bufferSize \in MinBufferSize .. MaxBufferSize

(* An action that leaves a ring of acceptable size preserves the types.    *)
LEMMA RingTyped ==
  ASSUME DataOK(pData'), pended' \in Seq(Nat \ {0}), last' \in Byte,
         declared' \in Nat
  PROVE  TypeOK'
<1>1. pData'.buffer # NoBuffer
  BY RingHasBuffer DEF DataOK
<1>. QED
  BY <1>1 DEF TypeOK, DataOK, Ring

(* The buffer that SetUpBuffer allocates, with the first Len(s) bytes      *)
(* copied into it.                                                         *)
LEMMA NewBufferRing ==
  ASSUME NEW bytes \in Nat, NEW s \in Seq(Byte), Len(s) < bytes,
         NEW snap \in Nat \ {0}, NEW d,
         d = [buffer |-> NewBuffer(bytes, s), bufferSize |-> bytes,
              readOffset |-> 0, writeOffset |-> Len(s), snaplen |-> snap]
  PROVE  Ring(d) /\ Unread(d) = s /\ USBPcapGetBufferAllocated(d) = Len(s)
<1> DEFINE buf == NewBuffer(bytes, s)
<1>1. buf \in [0 .. bytes - 1 -> Byte]
  BY UninitType DEF NewBuffer
<1>2. \A i \in 1 .. Len(s) : buf[i - 1] = s[i]
  BY DEF NewBuffer
<1> HIDE DEF buf
<1>3. Ring(d)
  BY <1>1 DEF Ring, buf
<1>4. /\ d.buffer = buf /\ d.readOffset = 0 /\ d.writeOffset = Len(s)
      /\ d.bufferSize = bytes
  BY DEF buf
<1>5. USBPcapGetBufferAllocated(d) = Len(s)
  BY <1>4 DEF USBPcapGetBufferAllocated
<1>6. /\ Unread(d) \in Seq(Byte) /\ Len(Unread(d)) = Len(s)
      /\ \A i \in 1 .. Len(s) : Unread(d)[i] = buf[At(0, i, bytes)]
  BY <1>3, <1>4, <1>5, UnreadAt
<1>7. \A i \in 1 .. Len(s) : At(0, i, bytes) = i - 1
  BY DEF At
<1>8. \A i \in 1 .. Len(s) : Unread(d)[i] = s[i]
  BY <1>2, <1>6, <1>7
<1>9. Unread(d) = s
  BY <1>6, <1>8, SeqEqual
<1>. QED
  BY <1>3, <1>5, <1>9

(* The buffer that SetUpBuffer allocates when there was none.              *)
LEMMA EmptyBuffer ==
  ASSUME NEW bytes \in Nat \ {0}, NEW snap \in Nat \ {0}, NEW none, NEW d,
         none = <<>>,
         d = [buffer |-> NewBuffer(bytes, none), bufferSize |-> bytes,
              readOffset |-> 0, writeOffset |-> 0, snaplen |-> snap]
  PROVE  Ring(d) /\ Unread(d) = none /\ USBPcapGetBufferAllocated(d) = 0
<1>1. none \in Seq(Byte) /\ Len(none) = 0
  OBVIOUS
<1>2. NewBuffer(bytes, none) \in [0 .. bytes - 1 -> Byte]
  BY <1>1, UninitType DEF NewBuffer
<1>3. Ring(d)
  BY <1>2 DEF Ring
<1>4. USBPcapGetBufferAllocated(d) = 0
  BY DEF USBPcapGetBufferAllocated
<1>5. Unread(d) \in Seq(Byte) /\ Len(Unread(d)) = 0
  BY <1>3, <1>4, UnreadAt
<1>6. Unread(d) = <<>>
  BY <1>5
<1>. QED
  BY <1>3, <1>4, <1>6

(* A root hub record in which all fields but the snaplen are replaced.     *)
LEMMA FieldsReplaced ==
  ASSUME NEW B, NEW x, NEW y, NEW buf, NEW bytes, NEW w,
         x \in [buffer : B, bufferSize : Nat, readOffset : Nat,
                writeOffset : Nat, snaplen : Nat \ {0}],
         y = [x EXCEPT !.buffer = buf, !.bufferSize = bytes,
                       !.readOffset = 0, !.writeOffset = w]
  PROVE  y = [buffer |-> buf, bufferSize |-> bytes, readOffset |-> 0,
              writeOffset |-> w, snaplen |-> x.snaplen]
  OBVIOUS

(* The state SetUpFirstBuffer leaves: a ring holding the global header.    *)
LEMMA FirstBuffer ==
  ASSUME TypeOK, NEW bytes \in Nat, SetUpFirstBuffer(bytes)
  PROVE  /\ DataOK(pData') /\ Unread(pData') = GlobalHeader
         /\ pData'.snaplen = pData.snaplen
<1> DEFINE none == <<>>
           buf  == NewBuffer(bytes, none)
           d == [buffer |-> buf, bufferSize |-> bytes, readOffset |-> 0,
                 writeOffset |-> 0, snaplen |-> pData.snaplen]
<1>1. /\ bytes \in MinBufferSize .. MaxBufferSize
      /\ GlobalHeaderLen \in Nat \ {0} /\ GlobalHeaderLen < bytes
      /\ pData.snaplen \in Nat \ {0}
  BY SizeAssumption DEF SetUpFirstBuffer, TypeOK
<1>0. none \in Seq(Byte) /\ Len(none) = 0
  OBVIOUS
<1>2. pData' = USBPcapBufferWrite(d, GlobalHeader)
  <2>1. pData' = USBPcapWriteGlobalHeader(
                   [pData EXCEPT !.buffer = buf, !.bufferSize = bytes,
                                 !.readOffset = 0, !.writeOffset = 0])
    BY DEF SetUpFirstBuffer
  <2> HIDE DEF buf
  <2>2. d = [pData EXCEPT !.buffer = buf, !.bufferSize = bytes,
                          !.readOffset = 0, !.writeOffset = 0]
    <3> DEFINE B == {NoBuffer} \cup [0 .. pData.bufferSize - 1 -> Byte]
    <3>1. pData \in [buffer : B, bufferSize : Nat, readOffset : Nat,
                     writeOffset : Nat, snaplen : Nat \ {0}]
      BY DEF TypeOK
    <3> DEFINE e == [pData EXCEPT !.buffer = buf, !.bufferSize = bytes,
                                  !.readOffset = 0, !.writeOffset = 0]
    <3>2. e = [pData EXCEPT !.buffer = buf, !.bufferSize = bytes,
                            !.readOffset = 0, !.writeOffset = 0]
      OBVIOUS
    <3> HIDE DEF B, e
    <3>3. e = [buffer |-> buf, bufferSize |-> bytes, readOffset |-> 0,
               writeOffset |-> 0, snaplen |-> pData.snaplen]
      BY <3>1, <3>2, FieldsReplaced
    <3>. QED
      BY <3>3 DEF e
  <2> HIDE DEF d
  <2>. QED
    BY <2>1, <2>2 DEF USBPcapWriteGlobalHeader
<1> HIDE DEF none
<1>3. Ring(d) /\ Unread(d) = none /\ USBPcapGetBufferAllocated(d) = 0
  <2> DEFINE snap == pData.snaplen
  <2>1. d = [buffer |-> NewBuffer(bytes, none), bufferSize |-> bytes,
             readOffset |-> 0, writeOffset |-> 0, snaplen |-> snap]
    OBVIOUS
  <2>2. snap \in Nat \ {0} /\ bytes \in Nat \ {0} /\ none = <<>>
    BY <1>1 DEF none
  <2> HIDE DEF d, snap, buf
  <2>. QED
    BY ONLY <2>1, <2>2, EmptyBuffer
<1>4. d.bufferSize = bytes /\ d.snaplen = pData.snaplen
  OBVIOUS
<1> HIDE DEF d
<1>5. GlobalHeader \in Seq(Byte) /\ Len(GlobalHeader) = GlobalHeaderLen
  <2>1. GlobalId \in ChunkIds /\ 0 \in Nat /\ GlobalHeaderLen \in Nat
    BY <1>1 DEF ChunkIds
  <2>. QED
    BY ONLY <2>1, BytesType DEF GlobalHeader
<1>6. Len(GlobalHeader) <= USBPcapGetBufferFree(d)
  BY <1>1, <1>3, <1>4, <1>5, SpaceAccounting
<1>7. pData' = USBPcapBufferWriteUnsafe(d, GlobalHeader)
  <2>1. USBPcapGetBufferFree(d) \in Nat
    BY <1>3, SpaceAccounting
  <2>. QED
    BY <1>1, <1>2, <1>5, <1>6, <2>1 DEF USBPcapBufferWrite
<1>8. /\ Ring(pData') /\ pData'.bufferSize = bytes
      /\ pData'.snaplen = pData.snaplen
      /\ Unread(pData') = none \o GlobalHeader
  BY <1>3, <1>4, <1>5, <1>6, <1>7, WriteRing, WriteAppends
<1>9. none \o GlobalHeader = GlobalHeader
  BY <1>5, ConcatEmptySeq DEF none
<1>. QED
  BY <1>1, <1>8, <1>9 DEF DataOK

(* The state ReplaceBuffer leaves: the same unread bytes.                  *)
LEMMA ReplacedBuffer ==
  ASSUME TypeOK, NEW bytes \in Nat, ReplaceBuffer(bytes)
  PROVE  /\ DataOK(pData') /\ Unread(pData') = Unread(pData)
         /\ pData'.snaplen = pData.snaplen
<1>1. /\ Ring(pData) /\ USBPcapGetBufferAllocated(pData) < bytes
      /\ bytes \in MinBufferSize .. MaxBufferSize
  BY TypedRing DEF ReplaceBuffer
<1>2. /\ Unread(pData) \in Seq(Byte)
      /\ Len(Unread(pData)) = USBPcapGetBufferAllocated(pData)
      /\ pData.snaplen \in Nat \ {0}
  BY <1>1, UnreadAt, RingFields
<1>3. pData' = [buffer |-> NewBuffer(bytes, Unread(pData)),
                bufferSize |-> bytes, readOffset |-> 0,
                writeOffset |-> Len(Unread(pData)),
                snaplen |-> pData.snaplen]
  BY <1>2 DEF ReplaceBuffer, TypeOK
<1>4. Ring(pData') /\ Unread(pData') = Unread(pData)
  BY <1>1, <1>2, <1>3, NewBufferRing
<1>. QED
  BY <1>1, <1>3, <1>4 DEF DataOK

(* What handing n bytes of the ring d to the reader does.                  *)
LEMMA Delivered ==
  ASSUME NEW d, DataOK(d), NEW n \in 0 .. Len(Unread(d)), last \in Byte,
         Deliver(d, n)
  PROVE  /\ DataOK(pData') /\ pData'.snaplen = d.snaplen
         /\ last' \in Byte
         /\ Unread(pData') = SubSeq(Unread(d), n + 1, Len(Unread(d)))
         /\ last' = IF n = 0 THEN last ELSE Unread(d)[n]
<1> DEFINE q == Unread(d)
<1>1. Ring(d) /\ d.bufferSize \in MinBufferSize .. MaxBufferSize
  BY DEF DataOK
<1>2. /\ q \in Seq(Byte) /\ Len(q) = USBPcapGetBufferAllocated(d)
      /\ n \in 0 .. USBPcapGetBufferAllocated(d) /\ n \in 0 .. Len(q)
  BY <1>1, UnreadAt
<1>3. pData' = AfterRead(d, n)
  BY DEF Deliver
<1>4. DataOK(pData') /\ pData'.snaplen = d.snaplen
  BY <1>1, <1>2, <1>3, ReadRing DEF DataOK
<1>5. Unread(pData') = SubSeq(q, n + 1, Len(q))
  BY <1>1, <1>2, <1>3, ReadTakes
<1>6. last' = IF n = 0 THEN last ELSE q[n]
  BY <1>1, <1>2, ReadTakes DEF Deliver
<1> HIDE DEF q
<1>7. last' \in Byte
  BY <1>2, <1>6
<1>. QED
  BY <1>4, <1>5, <1>6, <1>7 DEF q

(* The bytes of the record of p that the buffer d stores.                  *)
RecordBytes(d, p) ==
  Bytes(p.id, RecordHeaderLen + InclLen(d, p), 0, StoredLen(d, p))

(* A stored packet is appended to the unread bytes, of which a pended read *)
(* may take the first n.                                                   *)
LEMMA Stored ==
  ASSUME TypeOK, NEW p \in Packets, USBPcapBufferWriteTimestampedPayload(p),
         NEW q, q = Unread(pData) \o RecordBytes(pData, p)
  PROVE  /\ Ring(pData) /\ InclLen(pData, p) \in 0 .. pData.snaplen
         /\ p.dataLength <= p.payload
              => StoredLen(pData, p) = RecordHeaderLen + InclLen(pData, p)
         /\ DataOK(pData') /\ pData'.snaplen = pData.snaplen
         /\ last' \in Byte
         /\ pended' \in Seq(Nat \ {0})
         /\ q \in Seq(Byte)
         /\ \E n \in 0 .. Len(q) :
              /\ Unread(pData') = SubSeq(q, n + 1, Len(q))
              /\ last' = IF n = 0 THEN last ELSE q[n]
<1> DEFINE e == StoreRecord(pData, p)
<1>1. /\ PacketFits(pData, p) /\ p \in Packet /\ pData.buffer # NoBuffer
      /\ USBPcapBufferCompletePendedReadIrp(e)
      /\ pended \in Seq(Nat \ {0}) /\ last \in Byte
  BY InputAssumption
     DEF USBPcapBufferWriteTimestampedPayload, CanStorePacket, PacketFits, TypeOK
<1>2. Ring(pData) /\ DataOK(pData)
  BY <1>1, TypedRing DEF DataOK, TypeOK
<1>3. /\ Ring(e) /\ e.snaplen = pData.snaplen
      /\ e.bufferSize = pData.bufferSize /\ Unread(e) = q
      /\ InclLen(pData, p) \in 0 .. pData.snaplen
      /\ p.dataLength <= p.payload
           => StoredLen(pData, p) = RecordHeaderLen + InclLen(pData, p)
  BY <1>1, <1>2, StoreAppends DEF RecordBytes
<1> HIDE DEF e
<1>4. DataOK(e) /\ q \in Seq(Byte) /\ Len(q) = USBPcapGetBufferAllocated(e)
  BY <1>2, <1>3, UnreadAt DEF DataOK
<1>5. pended' \in Seq(Nat \ {0})
  <2>1. \/ pended' = pended
        \/ pended # <<>> /\ pended' = Tail(pended)
    BY <1>1 DEF USBPcapBufferCompletePendedReadIrp
  <2>2. pended # <<>> => Tail(pended) \in Seq(Nat \ {0})
    BY <1>1, HeadTailProperties
  <2>. QED
    BY <1>1, <2>1, <2>2
<1>6. \E n \in 0 .. Len(q) : Deliver(e, n)
  <2>1. CASE Deliver(e, 0)
    BY <1>4, <2>1
  <2>2. CASE pended # <<>> /\ Deliver(e, BytesToRead(e, Head(pended)))
    <3>1. Head(pended) \in Nat
      BY <1>1, <2>2
    <3>2. BytesToRead(e, Head(pended)) \in 0 .. Len(q)
      BY <1>4, <3>1 DEF BytesToRead, LesserOf
    <3>. QED
      BY <2>2, <3>2
  <2>. QED
    BY <1>1, <2>1, <2>2 DEF USBPcapBufferCompletePendedReadIrp
<1>7. PICK n \in 0 .. Len(q) : Deliver(e, n)
  BY <1>6
<1>8. /\ DataOK(pData') /\ pData'.snaplen = e.snaplen /\ last' \in Byte
      /\ Unread(pData') = SubSeq(q, n + 1, Len(q))
      /\ last' = IF n = 0 THEN last ELSE q[n]
  BY <1>1, <1>3, <1>4, <1>7, Delivered
<1>. QED
  BY <1>2, <1>3, <1>4, <1>5, <1>8

(* A read that finds data takes some of it, one that finds none is pended. *)
LEMMA ReadDone ==
  ASSUME TypeOK, NEW length \in ReadLengths,
         USBPcapBufferHandleReadIrp(length)
  PROVE  /\ pended' \in Seq(Nat \ {0})
         /\ \/ UNCHANGED <<pData, last>>
            \/ /\ Ring(pData) /\ DataOK(pData')
               /\ pData'.snaplen = pData.snaplen /\ last' \in Byte
               /\ \E n \in 1 .. Len(Unread(pData)) :
                    /\ Unread(pData')
                         = SubSeq(Unread(pData), n + 1, Len(Unread(pData)))
                    /\ last' = Unread(pData)[n]
<1> DEFINE toRead == BytesToRead(pData, length)
           q == Unread(pData)
<1>1. /\ length \in Nat \ {0} /\ pData.buffer # NoBuffer
      /\ pended \in Seq(Nat \ {0}) /\ last \in Byte
  BY InputAssumption DEF USBPcapBufferHandleReadIrp, TypeOK
<1>2. /\ Ring(pData) /\ DataOK(pData)
      /\ Len(q) = USBPcapGetBufferAllocated(pData) /\ Len(q) \in Nat
  BY <1>1, TypedRing, UnreadAt DEF DataOK, TypeOK
<1>3. toRead \in 0 .. Len(q)
  BY <1>1, <1>2 DEF BytesToRead, LesserOf
<1>4. \/ pended' = Append(pended, length) /\ UNCHANGED <<pData, last>>
      \/ toRead # 0 /\ Deliver(pData, toRead) /\ UNCHANGED pended
  BY DEF USBPcapBufferHandleReadIrp
<1> HIDE DEF toRead, q
<1>5. CASE pended' = Append(pended, length) /\ UNCHANGED <<pData, last>>
  BY <1>1, <1>5
<1>6. CASE toRead # 0 /\ Deliver(pData, toRead) /\ UNCHANGED pended
  <2>1. /\ DataOK(pData') /\ pData'.snaplen = pData.snaplen /\ last' \in Byte
        /\ Unread(pData') = SubSeq(q, toRead + 1, Len(q))
        /\ last' = q[toRead]
    BY <1>1, <1>2, <1>3, <1>6, Delivered DEF q
  <2>2. toRead \in 1 .. Len(q)
    BY <1>3, <1>6
  <2>. QED
    BY <1>1, <1>2, <1>6, <2>1, <2>2 DEF q
<1>. QED
  BY <1>4, <1>5, <1>6

(* Cleanup leaves a root hub without a buffer.                             *)
LEMMA CleanedUp ==
  ASSUME TypeOK, Cleanup
  PROVE  TypeOK' /\ pData'.buffer = NoBuffer
<1> DEFINE B == {NoBuffer} \cup [0 .. pData.bufferSize - 1 -> Byte]
<1>1. pData \in [buffer : B, bufferSize : Nat, readOffset : Nat,
                 writeOffset : Nat, snaplen : Nat \ {0}]
  BY DEF TypeOK
<1>2. /\ pData'.bufferSize = pData.bufferSize
      /\ pData'.buffer = NoBuffer
      /\ pData'.readOffset = 0 /\ pData'.writeOffset = 0
      /\ pData' \in [buffer : B, bufferSize : Nat, readOffset : Nat,
                     writeOffset : Nat, snaplen : Nat \ {0}]
  <2>1. NoBuffer \in B
    OBVIOUS
  <2> HIDE DEF B
  <2>2. CASE pData.buffer = NoBuffer
    BY <1>1, <2>2 DEF Cleanup, USBPcapBufferRemoveBuffer, TypeOK
  <2>3. CASE pData.buffer # NoBuffer
    BY <1>1, <2>1, <2>3 DEF Cleanup, USBPcapBufferRemoveBuffer
  <2>. QED
    BY <2>2, <2>3
<1>3. pended' \in Seq(Nat \ {0}) /\ last' \in Byte /\ declared' \in Nat
  BY UninitType DEF Cleanup
<1>. QED
  BY <1>2, <1>3 DEF TypeOK

(* The snaplen changes only while there is no buffer.                      *)
LEMMA SnaplenSet ==
  ASSUME TypeOK, NEW bytes \in Snaplens, USBPcapSetSnaplenSize(bytes)
  PROVE  TypeOK' /\ pData'.buffer = NoBuffer
<1> DEFINE B == {NoBuffer} \cup [0 .. pData.bufferSize - 1 -> Byte]
<1>1. pData \in [buffer : B, bufferSize : Nat, readOffset : Nat,
                 writeOffset : Nat, snaplen : Nat \ {0}]
  BY DEF TypeOK
<1>2. /\ pData'.bufferSize = pData.bufferSize
      /\ pData'.buffer = NoBuffer
      /\ pData'.readOffset = 0 /\ pData'.writeOffset = 0
      /\ pData' \in [buffer : B, bufferSize : Nat, readOffset : Nat,
                     writeOffset : Nat, snaplen : Nat \ {0}]
  <2> HIDE DEF B
  <2>1. bytes \in Nat \ {0}
    BY InputAssumption DEF USBPcapSetSnaplenSize
  <2>. QED
    BY <1>1, <2>1 DEF USBPcapSetSnaplenSize, TypeOK
<1>. QED
  BY <1>2 DEF USBPcapSetSnaplenSize, TypeOK

(* Every step keeps the buffer well typed.                                 *)
LEMMA TypeStep ==
  ASSUME TypeOK, [Next]_vars
  PROVE  TypeOK'
<1>1. ASSUME NEW bytes \in BufferSizes, SetUpFirstBuffer(bytes)
      PROVE  TypeOK'
  <2>1. bytes \in Nat
    BY InputAssumption
  <2>2. DataOK(pData')
    BY <1>1, <2>1, FirstBuffer
  <2>3. /\ pended' \in Seq(Nat \ {0}) /\ last' \in Byte
        /\ declared' \in Nat
    BY <1>1, UninitType DEF SetUpFirstBuffer, TypeOK
  <2>. QED
    BY <2>2, <2>3, RingTyped
<1>2. ASSUME NEW bytes \in BufferSizes, ReplaceBuffer(bytes)
      PROVE  TypeOK'
  <2>1. bytes \in Nat
    BY InputAssumption
  <2>2. DataOK(pData')
    BY <1>2, <2>1, ReplacedBuffer
  <2>3. /\ pended' \in Seq(Nat \ {0}) /\ last' \in Byte
        /\ declared' \in Nat
    BY <1>2 DEF ReplaceBuffer, TypeOK
  <2>. QED
    BY <2>2, <2>3, RingTyped
<1>3. ASSUME NEW bytes \in Snaplens, USBPcapSetSnaplenSize(bytes)
      PROVE  TypeOK'
  BY <1>3, SnaplenSet
<1>4. CASE Cleanup
  BY <1>4, CleanedUp
<1>5. ASSUME NEW length \in ReadLengths, USBPcapBufferHandleReadIrp(length)
      PROVE  TypeOK'
  <2>1. declared' \in Nat /\ pended' \in Seq(Nat \ {0})
    BY <1>5, ReadDone DEF USBPcapBufferHandleReadIrp, TypeOK
  <2>2. CASE UNCHANGED <<pData, last>>
    BY <2>1, <2>2 DEF TypeOK
  <2>3. CASE DataOK(pData') /\ last' \in Byte
    BY <2>1, <2>3, RingTyped
  <2>. QED
    BY <1>5, <2>2, <2>3, ReadDone
<1>6. ASSUME NEW p \in Packets, USBPcapBufferWriteTimestampedPayload(p)
      PROVE  TypeOK'
  <2> DEFINE q == Unread(pData) \o RecordBytes(pData, p)
  <2>0. q = Unread(pData) \o RecordBytes(pData, p)
    OBVIOUS
  <2> HIDE DEF q
  <2>1. /\ DataOK(pData') /\ last' \in Byte
        /\ pended' \in Seq(Nat \ {0})
    BY <1>6, <2>0, Stored
  <2>2. declared' \in Nat
    BY <1>6 DEF USBPcapBufferWriteTimestampedPayload, TypeOK
  <2>. QED
    BY <2>1, <2>2, RingTyped
<1>7. ASSUME NEW i \in DOMAIN pended, CancelPendedIrp(i)
      PROVE  TypeOK'
  <2>1. pended \in Seq(Nat \ {0}) /\ i \in 1 .. Len(pended)
    BY DEF TypeOK
  <2>2. /\ SubSeq(pended, 1, i - 1) \in Seq(Nat \ {0})
        /\ SubSeq(pended, i + 1, Len(pended)) \in Seq(Nat \ {0})
    BY <2>1
  <2>3. pended' \in Seq(Nat \ {0})
    BY <1>7, <2>2 DEF CancelPendedIrp
  <2>. QED
    BY <1>7, <2>3 DEF CancelPendedIrp, TypeOK
<1>8. CASE UNCHANGED vars
  BY <1>8 DEF vars, TypeOK
<1>. QED
  BY <1>1, <1>2, <1>3, <1>4, <1>5, <1>6, <1>7, <1>8 DEF Next

(* A root hub without a buffer is well typed.                              *)
LEMMA InitTyped == Init => TypeOK
  BY SizeAssumption, UninitType DEF Init, TypeOK

(* Type correctness: in every state of every capture, whatever the sizes   *)
(* and the packets, the offsets lie inside the buffer, so no copy of       *)
(* USBPcapBufferWriteUnsafe or USBPcapBufferRead leaves the allocation.    *)
THEOREM TypeCorrect == Spec => []TypeOK
<1>1. TypeOK /\ [Next]_vars => TypeOK'
  BY TypeStep
<1>. QED
  BY <1>1, InitTyped, PTL DEF Spec

(* USBPcapGetBufferFree and USBPcapGetBufferAllocated never contradict     *)
(* each other: together they account for every byte but the one that tells *)
(* a full ring from an empty one.                                          *)
THEOREM SpaceAlwaysAccounted == Spec => []SpaceAccounted
<1>1. TypeOK => SpaceAccounted
  BY TypedRing, SpaceAccounting DEF SpaceAccounted
<1>. QED
  BY <1>1, TypeCorrect, PTL
-----------------------------------------------------------------------------
(* Refinement. *)

(* Every packet comes with payload entries that hold all of its data, as   *)
(* they do unless MmGetSystemAddressForMdlSafe fails.                      *)
MappedPayloads == \A p \in Packets : p.dataLength <= p.payload

(* The strengthening: the declared snaplen is the one in force, and the    *)
(* history of a closed stream is empty.                                    *)
HistoryOK ==
  IF pData.buffer = NoBuffer
  THEN declared = 0 /\ last = Uninit
  ELSE declared = pData.snaplen

IInv == TypeOK /\ HistoryOK

(* When the reader has caught up with the writer nothing is unread.        *)
LEMMA NothingUnread ==
  ASSUME NEW d, d.readOffset = d.writeOffset
  PROVE  Unread(d) = <<>>
<1>1. USBPcapGetBufferAllocated(d) = 0
  BY DEF USBPcapGetBufferAllocated
<1>. QED
  BY <1>1 DEF Unread, USBPcapBufferRead

(* All bytes of a chunk of the ring are the chunk of the abstract stream.  *)
LEMMA ChunkBytes ==
  ASSUME NEW id \in ChunkIds, NEW of \in Nat
  PROVE  Bytes(id, of, 0, of) = Stream!Chunk(id, of)
<1>1. \A i \in 1 .. of : 0 + i = i
  OBVIOUS
<1>. QED
  BY <1>1 DEF Bytes, Stream!Chunk, ByteAt, Stream!ByteAt

(* Every action keeps the snaplen the global header announced equal to the *)
(* one in force as long as there is a buffer.                              *)
LEMMA HistoryStep ==
  ASSUME IInv, [Next]_vars
  PROVE  HistoryOK'
<1> USE DEF IInv
<1>1. ASSUME NEW bytes \in BufferSizes, SetUpFirstBuffer(bytes)
      PROVE  HistoryOK'
  <2>1. DataOK(pData') /\ pData'.snaplen = pData.snaplen
    BY <1>1, InputAssumption, FirstBuffer
  <2>2. pData'.buffer # NoBuffer
    BY <2>1, RingHasBuffer DEF DataOK
  <2>. QED
    BY <1>1, <2>1, <2>2 DEF SetUpFirstBuffer, HistoryOK
<1>2. ASSUME NEW bytes \in BufferSizes, ReplaceBuffer(bytes)
      PROVE  HistoryOK'
  <2>1. DataOK(pData') /\ pData'.snaplen = pData.snaplen
    BY <1>2, InputAssumption, ReplacedBuffer
  <2>2. pData'.buffer # NoBuffer
    BY <2>1, RingHasBuffer DEF DataOK
  <2>. QED
    BY <1>2, <2>1, <2>2 DEF ReplaceBuffer, HistoryOK
<1>3. ASSUME NEW bytes \in Snaplens, USBPcapSetSnaplenSize(bytes)
      PROVE  HistoryOK'
  BY <1>3, SnaplenSet DEF USBPcapSetSnaplenSize, HistoryOK
<1>4. CASE Cleanup
  BY <1>4, CleanedUp DEF Cleanup, HistoryOK
<1>5. ASSUME NEW length \in ReadLengths, USBPcapBufferHandleReadIrp(length)
      PROVE  HistoryOK'
  <2>1. declared' = declared /\ pData.buffer # NoBuffer
    BY <1>5 DEF USBPcapBufferHandleReadIrp
  <2>2. \/ UNCHANGED <<pData, last>>
        \/ DataOK(pData') /\ pData'.snaplen = pData.snaplen
    BY <1>5, ReadDone
  <2>. QED
    BY <2>1, <2>2, RingHasBuffer DEF DataOK, HistoryOK
<1>6. ASSUME NEW p \in Packets, USBPcapBufferWriteTimestampedPayload(p)
      PROVE  HistoryOK'
  <2>1. declared' = declared /\ pData.buffer # NoBuffer
    BY <1>6 DEF USBPcapBufferWriteTimestampedPayload, CanStorePacket,
                PacketFits
  <2> DEFINE q == Unread(pData) \o RecordBytes(pData, p)
  <2>2. q = Unread(pData) \o RecordBytes(pData, p)
    OBVIOUS
  <2> HIDE DEF q
  <2>3. DataOK(pData') /\ pData'.snaplen = pData.snaplen
    BY <1>6, <2>2, Stored
  <2>. QED
    BY <2>1, <2>3, RingHasBuffer DEF DataOK, HistoryOK
<1>7. ASSUME NEW i \in DOMAIN pended, CancelPendedIrp(i)
      PROVE  HistoryOK'
  BY <1>7 DEF CancelPendedIrp, HistoryOK
<1>8. CASE UNCHANGED vars
  BY <1>8 DEF vars, HistoryOK
<1>. QED
  BY <1>1, <1>2, <1>3, <1>4, <1>5, <1>6, <1>7, <1>8 DEF Next

(* The types, and that the announced snaplen is the one in force, hold in  *)
(* every behaviour.                                                        *)
LEMMA Inductive == Spec => []IInv
<1>1. Init => IInv
  BY InitTyped DEF Init, IInv, HistoryOK
<1>2. IInv /\ [Next]_vars => IInv'
  BY TypeStep, HistoryStep DEF IInv
<1>. QED
  BY <1>1, <1>2, PTL DEF Spec

(* One step of the ring is one step of the stream, or none.                *)
LEMMA StreamStep ==
  ASSUME MappedPayloads, IInv, IInv', [Next]_vars
  PROVE  [Stream!Next]_(Stream!streamVars)
<1> USE DEF IInv
<1>1. ASSUME NEW bytes \in BufferSizes, SetUpFirstBuffer(bytes)
      PROVE  Stream!Next
  <2>1. DataOK(pData') /\ Unread(pData') = GlobalHeader
    BY <1>1, InputAssumption, FirstBuffer
  <2>2. pData'.buffer # NoBuffer
    BY <2>1, RingHasBuffer DEF DataOK
  <2>3. GlobalHeader = Stream!Chunk(GlobalId, GlobalHeaderLen)
    BY ChunkBytes, SizeAssumption DEF GlobalHeader, ChunkIds
  <2>4. declared' \in Nat \ {0}
    BY <1>1 DEF SetUpFirstBuffer, TypeOK
  <2>5. pData.buffer = NoBuffer /\ last' = Uninit
    BY <1>1 DEF SetUpFirstBuffer
  <2>6. Stream!Open
    BY <2>1, <2>2, <2>3, <2>4, <2>5
       DEF Stream!Open, Stream!NoByte, Uninit, ByteAt, Stream!ByteAt
  <2>. QED
    BY <2>6 DEF Stream!Next
<1>2. ASSUME NEW bytes \in BufferSizes, ReplaceBuffer(bytes)
      PROVE  UNCHANGED Stream!streamVars
  <2>1. DataOK(pData') /\ Unread(pData') = Unread(pData)
    BY <1>2, InputAssumption, ReplacedBuffer
  <2>2. pData'.buffer # NoBuffer
    BY <2>1, RingHasBuffer DEF DataOK
  <2>. QED
    BY <1>2, <2>1, <2>2 DEF ReplaceBuffer, Stream!streamVars
<1>3. ASSUME NEW bytes \in Snaplens, USBPcapSetSnaplenSize(bytes)
      PROVE  UNCHANGED Stream!streamVars
  <2>1. pData.buffer = NoBuffer /\ UNCHANGED <<last, declared>>
    BY <1>3 DEF USBPcapSetSnaplenSize
  <2>2. TypeOK' /\ pData'.buffer = NoBuffer
    BY <1>3, SnaplenSet
  <2>3. Unread(pData) = <<>>
    BY <2>1, NothingUnread DEF TypeOK
  <2>4. Unread(pData') = <<>>
    BY <2>2, NothingUnread DEF TypeOK
  <2>. QED
    BY <2>1, <2>2, <2>3, <2>4 DEF Stream!streamVars
<1>4. CASE Cleanup
  <2>1. TypeOK' /\ pData'.buffer = NoBuffer
    BY <1>4, CleanedUp
  <2>2. Unread(pData') = <<>>
    BY <2>1, NothingUnread DEF TypeOK
  <2>3. Stream!Close
    BY <1>4, <2>1, <2>2
       DEF Cleanup, Stream!Close, Stream!NoByte, Uninit, ByteAt, Stream!ByteAt
  <2>. QED
    BY <2>3 DEF Stream!Next
<1>5. ASSUME NEW length \in ReadLengths, USBPcapBufferHandleReadIrp(length)
      PROVE  [Stream!Next]_(Stream!streamVars)
  <2>1. declared' = declared /\ pData.buffer # NoBuffer
    BY <1>5 DEF USBPcapBufferHandleReadIrp
  <2>2. CASE UNCHANGED <<pData, last>>
    BY <2>1, <2>2 DEF Stream!streamVars
  <2>3. ASSUME NEW n \in 1 .. Len(Unread(pData)), DataOK(pData'),
               Unread(pData')
                 = SubSeq(Unread(pData), n + 1, Len(Unread(pData))),
               last' = Unread(pData)[n]
        PROVE  Stream!Next
    <3>1. pData'.buffer # NoBuffer
      BY <2>3, RingHasBuffer DEF DataOK
    <3>2. n # 0
      OBVIOUS
    <3>3. Stream!Read(n)
      BY <2>1, <2>3, <3>1, <3>2 DEF Stream!Read, Stream!TakeFrom
    <3>. QED
      BY <3>3 DEF Stream!Next
  <2>. QED
    BY <1>5, <2>2, <2>3, ReadDone
<1>6. ASSUME NEW p \in Packets, USBPcapBufferWriteTimestampedPayload(p)
      PROVE  Stream!Next
  <2> DEFINE q == Unread(pData) \o RecordBytes(pData, p)
             pid == p.id
             incl == InclLen(pData, p)
  <2>1. declared' = declared /\ pData.buffer # NoBuffer
    BY <1>6 DEF USBPcapBufferWriteTimestampedPayload, CanStorePacket,
                PacketFits
  <2>2. q = Unread(pData) \o RecordBytes(pData, p)
    OBVIOUS
  <2>3. p.dataLength <= p.payload /\ pid \in PacketIds /\ pid \in ChunkIds
    BY InputAssumption DEF MappedPayloads, Packet, ChunkIds
  <2> HIDE DEF q
  <2>4. /\ Ring(pData) /\ incl \in 0 .. pData.snaplen /\ DataOK(pData')
        /\ StoredLen(pData, p) = RecordHeaderLen + incl
        /\ q \in Seq(Byte)
    BY <1>6, <2>2, <2>3, Stored
  <2>5. PICK n \in 0 .. Len(q) :
          /\ Unread(pData') = SubSeq(q, n + 1, Len(q))
          /\ last' = IF n = 0 THEN last ELSE q[n]
    BY <1>6, <2>2, Stored
  <2>6. pData'.buffer # NoBuffer
    BY <2>4, RingHasBuffer DEF DataOK
  <2>7. declared = pData.snaplen /\ incl \in 0 .. declared /\ incl \in Nat
    BY <2>1, <2>4, RingFields DEF HistoryOK
  <2>8. RecordBytes(pData, p) = Bytes(pid, RecordHeaderLen + incl, 0,
                                      RecordHeaderLen + incl)
    BY <2>4 DEF RecordBytes
  <2> HIDE DEF pid, incl
  <2> DEFINE of == RecordHeaderLen + incl
  <2>9. of \in Nat
    BY <2>7, SizeAssumption
  <2>10. RecordBytes(pData, p) = Stream!Chunk(pid, of)
    <3> HIDE DEF of
    <3>1. Bytes(pid, of, 0, of) = Stream!Chunk(pid, of)
      BY ONLY <2>3, <2>9, ChunkBytes
    <3>. QED
      BY <2>8, <3>1 DEF of
  <2>11. /\ Len(RecordBytes(pData, p)) = of
         /\ RecordBytes(pData, p) \in Seq(Byte)
    <3> HIDE DEF of
    <3>1. Bytes(pid, of, 0, of) \in Seq(Byte) /\ Len(Bytes(pid, of, 0, of)) = of
      BY ONLY <2>3, <2>9, 0 \in Nat, BytesType
    <3>. QED
      BY <2>8, <3>1 DEF of
  <2>12. Unread(pData) \in Seq(Byte) /\ Len(q) = Len(Unread(pData)) + of
    BY <2>2, <2>4, <2>11, UnreadAt, ConcatProperties
  <2>13. n \in 0 .. Len(Unread(pData)) + RecordHeaderLen + incl
    BY <2>7, <2>12, SizeAssumption
  <2>14. q = Unread(pData) \o Stream!Chunk(pid, RecordHeaderLen + incl)
    BY <2>2, <2>10
  <2>15. Stream!Store(pid, incl, n)
    BY <2>1, <2>5, <2>6, <2>7, <2>14 DEF Stream!Store, Stream!TakeFrom
  <2>. QED
    BY <2>3, <2>7, <2>13, <2>15 DEF Stream!Next
<1>7. ASSUME NEW i \in DOMAIN pended, CancelPendedIrp(i)
      PROVE  UNCHANGED Stream!streamVars
  BY <1>7 DEF CancelPendedIrp, Stream!streamVars
<1>8. CASE UNCHANGED vars
  BY <1>8 DEF vars, Stream!streamVars
<1>. QED
  BY <1>1, <1>2, <1>3, <1>4, <1>5, <1>6, <1>7, <1>8 DEF Next

(* The ring buffer implements the byte stream: for every buffer size,      *)
(* snaplen and sequence of packets, reads, resizings and cancellations the *)
(* reader gets the global header followed by whole records, in order.      *)
THEOREM RingImplementsStream ==
  ASSUME MappedPayloads
  PROVE  Spec => ImplementsStream
<1>1. Init => Stream!Init
  <2> SUFFICES ASSUME Init PROVE Stream!Init
    OBVIOUS
  <2>1. TypeOK /\ pData.buffer = NoBuffer
    BY InitTyped DEF Init
  <2>2. Unread(pData) = <<>>
    BY <2>1, NothingUnread DEF TypeOK
  <2>. QED
    BY <2>1, <2>2
       DEF Init, Stream!Init, Stream!NoByte, Uninit, ByteAt, Stream!ByteAt
<1>2. IInv /\ IInv' /\ [Next]_vars => [Stream!Next]_(Stream!streamVars)
  BY StreamStep
<1>. QED
  BY <1>1, <1>2, Inductive, PTL DEF Spec, ImplementsStream, Stream!Spec
-----------------------------------------------------------------------------
(* Framing. *)

(* Reading n bytes of q, which comes after l, leaves r, coming after m.    *)
Taken(l, q, n, m, r) ==
  /\ l \in Byte /\ q \in Seq(Byte) /\ n \in 0 .. Len(q)
  /\ m = IF n = 0 THEN l ELSE q[n]
  /\ r = SubSeq(q, n + 1, Len(q))

(* Appending the chunk id of `of' bytes to q gives r.                      *)
Appended(q, id, of, r) ==
  /\ q \in Seq(Byte) /\ id \in ChunkIds \ {NoId} /\ of \in Nat \ {0}
  /\ r = q \o Bytes(id, of, 0, of)

(* Reading from a framed stream leaves it framed, with the same end.       *)
LEMMA FramedTake ==
  ASSUME NEW l, NEW q, NEW n, NEW m, NEW r,
         Taken(l, q, n, m, r), Framed(l, q)
  PROVE  Framed(m, r) /\ EndOf(m, r) = EndOf(l, q)
<1> USE DEF Taken
<1>1. /\ r \in Seq(Byte) /\ Len(r) = Len(q) - n
      /\ \A i \in 1 .. Len(r) : r[i] = q[n + i]
  BY SubSeqProperties
<1>2. ASSUME NEW i \in 1 .. Len(r)
      PROVE  Follows(IF i = 1 THEN m ELSE r[i - 1], r[i])
  <2>1. /\ n + i \in 1 .. Len(q) /\ r[i] = q[n + i]
        /\ i # 1 => r[i - 1] = q[n + i - 1]
    <3>1. n + i \in 1 .. Len(q) /\ r[i] = q[n + i]
      BY <1>1
    <3>2. ASSUME i # 1 PROVE r[i - 1] = q[n + i - 1]
      <4>1. i - 1 \in 1 .. Len(r) /\ n + (i - 1) = n + i - 1
        BY <1>1, <3>2
      <4>. QED
        BY <1>1, <4>1
    <3>. QED
      BY <3>1, <3>2
  <2>2. Follows(IF n + i = 1 THEN l ELSE q[n + i - 1], q[n + i])
    BY <2>1 DEF Framed
  <2>3. (IF i = 1 THEN m ELSE r[i - 1])
          = (IF n + i = 1 THEN l ELSE q[n + i - 1])
    <3>1. CASE i = 1
      BY <3>1
    <3>2. CASE i # 1
      <4>1. n + i # 1 /\ r[i - 1] = q[n + i - 1]
        BY <2>1, <3>2
      <4>. QED
        BY <3>2, <4>1
    <3>. QED
      BY <3>1, <3>2
  <2>. QED
    BY <2>1, <2>2, <2>3
<1>3. Framed(m, r)
  BY <1>2 DEF Framed
<1>4. EndOf(m, r) = EndOf(l, q)
  <2>1. CASE n = Len(q)
    BY <1>1, <2>1 DEF EndOf
  <2>2. CASE n < Len(q)
    <3>1. Len(r) \in 1 .. Len(r) /\ n + Len(r) = Len(q) /\ Len(q) # 0
      BY <1>1, <2>2
    <3>2. r[Len(r)] = q[Len(q)]
      <4> DEFINE k == Len(r)
      <4>1. k \in 1 .. Len(r) /\ n + k = Len(q)
        BY <3>1
      <4> HIDE DEF k
      <4>2. r[k] = q[n + k]
        BY ONLY <1>1, <4>1
      <4>. QED
        BY ONLY <4>1, <4>2 DEF k
    <3>. QED
      BY ONLY <3>1, <3>2 DEF EndOf
  <2>. QED
    BY <2>1, <2>2
<1>. QED
  BY <1>3, <1>4

(* The bytes of one chunk follow each other.                               *)
LEMMA ChunkFollows ==
  ASSUME NEW id \in ChunkIds \ {NoId}, NEW of \in Nat \ {0},
         NEW i \in 1 .. of, NEW l \in Byte,
         i = 1 => /\ l.at = l.of
                  /\ (id = GlobalId) <=> (l = Uninit),
         i # 1 => l = ByteAt(id, i - 1, of)
  PROVE  Follows(l, ByteAt(id, i, of))
<1> DEFINE b == ByteAt(id, i, of)
<1>1. b.id = id /\ b.at = i /\ b.of = of
  BY DEF ByteAt
<1>2. CASE i = 1
  BY <1>1, <1>2 DEF Follows
<1>3. CASE i # 1
  <2>1. l.id = id /\ l.at = i - 1 /\ l.of = of
    BY <1>3 DEF ByteAt
  <2>2. l # Uninit
    BY <2>1 DEF Uninit, ByteAt
  <2>3. b = [l EXCEPT !.at = @ + 1]
    BY <1>3, <2>1 DEF ByteAt
  <2> HIDE DEF b
  <2>4. Follows(l, b)
    BY <1>1, <1>3, <2>1, <2>2, <2>3 DEF Follows
  <2>. QED
    BY <2>4 DEF b
<1>. QED
  BY <1>2, <1>3

(* Appending a chunk to a complete framed stream gives another one.        *)
LEMMA FramedAppend ==
  ASSUME NEW l \in Byte, NEW q, NEW id, NEW of, NEW r,
         Appended(q, id, of, r), Framed(l, q),
         EndOf(l, q).at = EndOf(l, q).of,
         (id = GlobalId) <=> (EndOf(l, q) = Uninit)
  PROVE  Framed(l, r) /\ EndOf(l, r) = ByteAt(id, of, of)
<1> USE DEF Appended
<1> DEFINE c == Bytes(id, of, 0, of)
           e == EndOf(l, q)
<1>1. c \in Seq(Byte) /\ Len(c) = of
  BY BytesType
<1>2. \A i \in 1 .. of : c[i] = ByteAt(id, i, of)
  <2>1. \A i \in 1 .. of : 0 + i = i /\ c[i] = ByteAt(id, 0 + i, of)
    BY DEF Bytes
  <2>. QED
    BY <2>1
<1> HIDE DEF c
<1>3. /\ r \in Seq(Byte) /\ Len(r) = Len(q) + of
      /\ \A i \in 1 .. Len(r) :
           r[i] = IF i <= Len(q) THEN q[i] ELSE c[i - Len(q)]
  BY <1>1, ConcatProperties, ZenonT(60) DEF c
<1>4. ASSUME NEW i \in 1 .. Len(r)
      PROVE  Follows(IF i = 1 THEN l ELSE r[i - 1], r[i])
  <2>1. CASE i <= Len(q)
    <3>1. r[i] = q[i] /\ i \in 1 .. Len(q)
      BY <1>3, <2>1
    <3>2. i # 1 => r[i - 1] = q[i - 1]
      BY <1>3, <2>1
    <3>3. Follows(IF i = 1 THEN l ELSE q[i - 1], q[i])
      BY <3>1 DEF Framed
    <3>. QED
      BY <3>1, <3>2, <3>3
  <2>2. CASE ~(i <= Len(q))
    <3> DEFINE j == i - Len(q)
               k == IF i = 1 THEN l ELSE r[i - 1]
    <3>1. j \in 1 .. of /\ r[i] = ByteAt(id, j, of)
      <4>1. j \in 1 .. of /\ r[i] = c[j]
        BY <1>3, <2>2
      <4> HIDE DEF j
      <4>. QED
        BY <1>2, <4>1
    <3>2. j = 1 => k = e
      BY <1>3, <2>2 DEF EndOf
    <3>3. j # 1 => k = ByteAt(id, j - 1, of)
      <4> SUFFICES ASSUME j # 1 PROVE k = ByteAt(id, j - 1, of)
        OBVIOUS
      <4>1. /\ i # 1 /\ i - 1 \in 1 .. Len(r) /\ ~(i - 1 <= Len(q))
            /\ (i - 1) - Len(q) = j - 1 /\ j - 1 \in 1 .. of
        BY <1>3, <2>2, <3>1, SMTT(30)
      <4>. QED
        BY <1>2, <1>3, <4>1
    <3>4. k \in Byte
      <4>1. CASE i = 1
        BY <4>1
      <4>2. CASE i # 1
        BY <1>3, <4>2
      <4>. QED
        BY <4>1, <4>2
    <3> HIDE DEF j, k
    <3>5. Follows(k, ByteAt(id, j, of))
      BY <3>1, <3>2, <3>3, <3>4, ChunkFollows
    <3>. QED
      BY <3>1, <3>5 DEF k
  <2>. QED
    BY <2>1, <2>2
<1>5. Framed(l, r)
  BY <1>4 DEF Framed
<1>6. EndOf(l, r) = ByteAt(id, of, of)
  <2>1. Len(r) \in 1 .. Len(r) /\ Len(r) # 0 /\ ~(Len(r) <= Len(q))
    BY <1>3
  <2>2. Len(r) - Len(q) = of /\ of \in 1 .. of
    BY <1>3
  <2>. QED
    BY <1>2, <1>3, <2>1, <2>2 DEF EndOf
<1>. QED
  BY <1>5, <1>6

(* No chunk of q but the global header is longer than snap allows.         *)
WithinSnaplen(q, snap) ==
  \A i \in 1 .. Len(q) :
    q[i].id # GlobalId => q[i].of <= RecordHeaderLen + snap

(* A framed stream that ends where a chunk ends.                           *)
StreamInv(l, q, snap) ==
  /\ Framed(l, q)
  /\ EndOf(l, q) # Uninit /\ EndOf(l, q).at = EndOf(l, q).of
  /\ WithinSnaplen(q, snap)

(* Reading from the front of a framed stream leaves a framed stream.       *)
LEMMA StreamInvTake ==
  ASSUME NEW l, NEW q, NEW n, NEW m, NEW r, NEW snap \in Nat,
         Taken(l, q, n, m, r), StreamInv(l, q, snap)
  PROVE  StreamInv(m, r, snap)
<1>1. Framed(m, r) /\ EndOf(m, r) = EndOf(l, q)
  BY FramedTake DEF StreamInv
<1>2. /\ n \in 0 .. Len(q) /\ Len(q) \in Nat /\ Len(r) = Len(q) - n
      /\ \A i \in 1 .. Len(r) : r[i] = q[n + i]
  BY SubSeqProperties DEF Taken
<1>3. WithinSnaplen(r, snap)
  <2> SUFFICES ASSUME NEW i \in 1 .. Len(r), r[i].id # GlobalId
               PROVE  r[i].of <= RecordHeaderLen + snap
    BY DEF WithinSnaplen
  <2>1. r[i] = q[n + i] /\ n + i \in 1 .. Len(q)
    BY <1>2
  <2>. QED
    BY ONLY <2>1, StreamInv(l, q, snap), r[i].id # GlobalId
       DEF StreamInv, WithinSnaplen
<1>. QED
  BY <1>1, <1>3 DEF StreamInv

(* Appending a whole chunk to a framed stream leaves a framed stream.      *)
LEMMA StreamInvAppend ==
  ASSUME NEW l \in Byte, NEW q, NEW id \in PacketIds, NEW of, NEW r,
         NEW snap \in Nat, Appended(q, id, of, r),
         of <= RecordHeaderLen + snap, StreamInv(l, q, snap)
  PROVE  StreamInv(l, r, snap)
<1> DEFINE c == Bytes(id, of, 0, of)
<1>1. /\ of \in Nat \ {0} /\ id \in ChunkIds \ {NoId} /\ id # GlobalId
      /\ q \in Seq(Byte)
  BY InputAssumption DEF Appended
<1>2. /\ Framed(l, q) /\ EndOf(l, q) # Uninit
      /\ EndOf(l, q).at = EndOf(l, q).of
  BY DEF StreamInv
<1>3. Framed(l, r) /\ EndOf(l, r) = ByteAt(id, of, of)
  BY <1>1, <1>2, FramedAppend
<1>4. ByteAt(id, of, of) # Uninit /\ ByteAt(id, of, of).at = ByteAt(id, of, of).of
  BY <1>1 DEF ByteAt, Uninit
<1>5. c \in Seq(Byte) /\ Len(c) = of
  BY <1>1, BytesType
<1>6. \A i \in 1 .. of : c[i].of = of
  BY DEF Bytes, ByteAt
<1> HIDE DEF c
<1>7. /\ Len(r) = Len(q) + of
      /\ \A i \in 1 .. Len(r) :
           r[i] = IF i <= Len(q) THEN q[i] ELSE c[i - Len(q)]
  <2>1. r = q \o c
    BY DEF c, Appended
  <2>. QED
    BY <1>1, <1>5, <2>1, ConcatProperties
<1>8. WithinSnaplen(r, snap)
  <2> SUFFICES ASSUME NEW i \in 1 .. Len(r), r[i].id # GlobalId
               PROVE  r[i].of <= RecordHeaderLen + snap
    BY DEF WithinSnaplen
  <2>1. CASE i <= Len(q)
    <3>1. r[i] = q[i] /\ i \in 1 .. Len(q)
      BY <1>7, <2>1
    <3>. QED
      BY ONLY <3>1, StreamInv(l, q, snap), r[i].id # GlobalId
         DEF StreamInv, WithinSnaplen
  <2>2. CASE ~(i <= Len(q))
    <3> DEFINE j == i - Len(q)
    <3>1. j \in 1 .. of /\ r[i] = c[j]
      BY <1>1, <1>7, <2>2
    <3> HIDE DEF j
    <3>2. r[i].of = of
      BY <1>6, <3>1
    <3>. QED
      BY <1>1, <3>2
  <2>. QED
    BY <2>1, <2>2
<1>. QED
  BY <1>3, <1>4, <1>8 DEF StreamInv

(* The global header alone is a framed, complete stream.                   *)
LEMMA StreamInvOpen ==
  ASSUME NEW snap \in Nat
  PROVE  StreamInv(Uninit, GlobalHeader, snap)
<1> DEFINE n == GlobalHeaderLen
           g == GlobalHeader
           none == <<>>
<1>1. n \in Nat \ {0} /\ GlobalId \in ChunkIds \ {NoId}
  BY SizeAssumption, InputAssumption DEF ChunkIds
<1>2. g \in Seq(Byte) /\ Len(g) = n
  BY <1>1, BytesType DEF GlobalHeader
<1>3. none \in Seq(Byte) /\ Framed(Uninit, none) /\ EndOf(Uninit, none) = Uninit
  BY DEF Framed, EndOf
<1>4. Uninit \in Byte /\ Uninit.at = Uninit.of
  BY UninitType DEF Uninit, ByteAt
<1>5. g = none \o Bytes(GlobalId, n, 0, n)
  BY <1>2, ConcatEmptySeq DEF GlobalHeader
<1>6. \A i \in 1 .. Len(g) : g[i].id = GlobalId
  BY <1>2 DEF GlobalHeader, Bytes, ByteAt
<1> HIDE DEF n, g, none
<1>7. Framed(Uninit, g) /\ EndOf(Uninit, g) = ByteAt(GlobalId, n, n)
  <2>1. Appended(none, GlobalId, n, g)
    BY <1>1, <1>3, <1>5 DEF Appended
  <2>. QED
    BY <1>3, <1>4, <2>1, FramedAppend
<1>8. /\ ByteAt(GlobalId, n, n) # Uninit
      /\ ByteAt(GlobalId, n, n).at = ByteAt(GlobalId, n, n).of
  BY <1>1 DEF ByteAt, Uninit
<1>9. WithinSnaplen(g, snap)
  BY <1>6 DEF WithinSnaplen
<1>10. StreamInv(Uninit, g, snap)
  BY <1>7, <1>8, <1>9 DEF StreamInv
<1>. QED
  BY <1>10 DEF g

(* The inductive invariant of the stream.                                  *)
StreamOK ==
  pData.buffer # NoBuffer => StreamInv(last, Unread(pData), pData.snaplen)

(* Every action preserves the framing and the snaplen of what is unread.   *)
LEMMA StreamOKStep ==
  ASSUME MappedPayloads, IInv, StreamOK, [Next]_vars
  PROVE  StreamOK'
<1> USE DEF IInv
<1>1. ASSUME NEW bytes \in BufferSizes, SetUpFirstBuffer(bytes)
      PROVE  StreamOK'
  <2>1. /\ DataOK(pData') /\ Unread(pData') = GlobalHeader
        /\ last' = Uninit
    BY <1>1, InputAssumption, FirstBuffer DEF SetUpFirstBuffer
  <2> DEFINE snap == pData'.snaplen
  <2>2. snap \in Nat
    BY <2>1, RingFields DEF DataOK
  <2> HIDE DEF snap
  <2>3. StreamInv(Uninit, GlobalHeader, snap)
    BY <2>2, StreamInvOpen
  <2>. QED
    BY <2>1, <2>3 DEF StreamOK, snap
<1>2. ASSUME NEW bytes \in BufferSizes, ReplaceBuffer(bytes)
      PROVE  StreamOK'
  <2>1. Unread(pData') = Unread(pData) /\ pData'.snaplen = pData.snaplen
    BY <1>2, InputAssumption, ReplacedBuffer
  <2>2. last' = last /\ pData.buffer # NoBuffer
    BY <1>2 DEF ReplaceBuffer
  <2>. QED
    BY <2>1, <2>2 DEF StreamOK
<1>3. ASSUME NEW bytes \in Snaplens, USBPcapSetSnaplenSize(bytes)
      PROVE  StreamOK'
  BY <1>3, SnaplenSet DEF StreamOK
<1>4. CASE Cleanup
  BY <1>4, CleanedUp DEF StreamOK
<1>5. ASSUME NEW length \in ReadLengths, USBPcapBufferHandleReadIrp(length)
      PROVE  StreamOK'
  <2>1. pData.buffer # NoBuffer /\ last \in Byte
    BY <1>5 DEF USBPcapBufferHandleReadIrp, TypeOK
  <2>2. CASE UNCHANGED <<pData, last>>
    BY <2>2 DEF StreamOK
  <2>3. ASSUME NEW n \in 1 .. Len(Unread(pData)), Ring(pData),
               pData'.snaplen = pData.snaplen,
               Unread(pData')
                 = SubSeq(Unread(pData), n + 1, Len(Unread(pData))),
               last' = Unread(pData)[n]
        PROVE  StreamOK'
    <3> DEFINE q == Unread(pData)
               snap == pData.snaplen
               r == Unread(pData')
    <3>1. /\ q \in Seq(Byte) /\ snap \in Nat /\ n \in 0 .. Len(q)
          /\ StreamInv(last, q, snap)
          /\ last' = IF n = 0 THEN last ELSE q[n]
          /\ r = SubSeq(q, n + 1, Len(q))
      BY <2>1, <2>3, UnreadAt, RingFields DEF StreamOK
    <3> HIDE DEF q, snap, r
    <3>2. Taken(last, q, n, last', r)
      BY <2>1, <3>1 DEF Taken
    <3>3. StreamInv(last', r, snap)
      BY <3>1, <3>2, StreamInvTake
    <3>. QED
      BY <2>3, <3>3 DEF StreamOK, r, snap
  <2>. QED
    BY <1>5, <2>2, <2>3, ReadDone
<1>6. ASSUME NEW p \in Packets, USBPcapBufferWriteTimestampedPayload(p)
      PROVE  StreamOK'
  <2> DEFINE q == Unread(pData)
             qq == Unread(pData) \o RecordBytes(pData, p)
             r == Unread(pData')
             pid == p.id
             incl == InclLen(pData, p)
             snap == pData.snaplen
             of == RecordHeaderLen + incl
  <2>1. pData.buffer # NoBuffer /\ last \in Byte
    BY <1>6 DEF USBPcapBufferWriteTimestampedPayload, CanStorePacket,
                PacketFits, TypeOK
  <2>2. p.dataLength <= p.payload /\ pid \in PacketIds
    BY InputAssumption DEF MappedPayloads, Packet
  <2>3. qq = Unread(pData) \o RecordBytes(pData, p)
    OBVIOUS
  <2> HIDE DEF qq
  <2>4. /\ Ring(pData) /\ incl \in 0 .. snap
        /\ pData'.snaplen = snap
        /\ StoredLen(pData, p) = of
        /\ qq \in Seq(Byte)
    BY <1>6, <2>2, <2>3, Stored
  <2>5. PICK n \in 0 .. Len(qq) :
          /\ r = SubSeq(qq, n + 1, Len(qq))
          /\ last' = IF n = 0 THEN last ELSE qq[n]
    BY <1>6, <2>3, Stored
  <2>6. /\ q \in Seq(Byte) /\ snap \in Nat
        /\ StreamInv(last, q, snap)
    BY <2>1, <2>4, UnreadAt, RingFields DEF StreamOK
  <2>7. qq = q \o Bytes(pid, of, 0, of)
    BY <2>3, <2>4 DEF RecordBytes
  <2>8. of = RecordHeaderLen + incl
    OBVIOUS
  <2> HIDE DEF q, r, pid, incl, snap, of
  <2>9. StreamInv(last, qq, snap)
    <3>1. of \in Nat \ {0} /\ of <= RecordHeaderLen + snap
      BY <2>4, <2>6, <2>8, SizeAssumption
    <3>2. Appended(q, pid, of, qq)
      BY <2>2, <2>6, <2>7, <3>1, InputAssumption DEF Appended, ChunkIds
    <3>. QED
      BY <2>1, <2>2, <2>6, <3>1, <3>2, StreamInvAppend
  <2>10. StreamInv(last', r, snap)
    <3>1. Taken(last, qq, n, last', r)
      BY <2>1, <2>4, <2>5 DEF Taken
    <3>. QED
      BY <2>6, <2>9, <3>1, StreamInvTake
  <2>. QED
    BY <2>4, <2>10 DEF StreamOK, r
<1>7. ASSUME NEW i \in DOMAIN pended, CancelPendedIrp(i)
      PROVE  StreamOK'
  BY <1>7 DEF CancelPendedIrp, StreamOK
<1>8. CASE UNCHANGED vars
  BY <1>8 DEF vars, StreamOK
<1>. QED
  BY <1>1, <1>2, <1>3, <1>4, <1>5, <1>6, <1>7, <1>8 DEF Next

(* With mapped payloads the stream is framed in every behaviour.           *)
LEMMA StreamAlwaysOK ==
  ASSUME MappedPayloads
  PROVE  Spec => []StreamOK
<1>1. Init => StreamOK
  BY DEF Init, StreamOK
<1>2. IInv /\ StreamOK /\ [Next]_vars => StreamOK'
  BY StreamOKStep
<1>. QED
  BY <1>1, <1>2, Inductive, PTL DEF Spec

(* What was read, continued by what is unread, is a well-formed pcap       *)
(* stream: no byte of it is lost, repeated or reordered by wrap-around,    *)
(* resizing, partial reads or dropped packets.                             *)
THEOREM StreamAlwaysFramed ==
  ASSUME MappedPayloads
  PROVE  Spec => []StreamFramed
<1>1. StreamOK => StreamFramed
  BY DEF StreamOK, StreamFramed, StreamInv
<1>. QED
  BY <1>1, StreamAlwaysOK, PTL

(* StorePacket stores a record as a whole or not at all, whatever the free *)
(* space, the snaplen and the packet.                                      *)
THEOREM RecordsAlwaysComplete ==
  ASSUME MappedPayloads
  PROVE  Spec => []RecordsComplete
<1>1. StreamOK => RecordsComplete
  BY DEF StreamOK, RecordsComplete, StreamInv
<1>. QED
  BY <1>1, StreamAlwaysOK, PTL

(* No unread record exceeds the snaplen that the global header of its      *)
(* stream declared.                                                        *)
THEOREM SnaplenAlwaysHonoured ==
  ASSUME MappedPayloads
  PROVE  Spec => []SnaplenHonoured
<1>1. IInv /\ StreamOK => SnaplenHonoured
  BY DEF IInv, HistoryOK, StreamOK, SnaplenHonoured, StreamInv, WithinSnaplen
<1>. QED
  BY <1>1, Inductive, StreamAlwaysOK, PTL
-----------------------------------------------------------------------------
(* No starved reader. *)

(* The queue is within its bound, and empty when there is no buffer: the   *)
(* one action that makes data appear without completing a read is the set- *)
(* ting up of the first buffer.                                            *)
ReadersOK ==
  /\ Len(pended) <= MaxPended
  /\ pData.buffer = NoBuffer => Len(pended) = 0
  /\ NoStarvedReader

(* A queue shorter than MaxPended leaves nothing to prove.                 *)
LEMMA ShortQueue ==
  ASSUME pended' \in Seq(Nat \ {0}), Len(pended') < MaxPended,
         pData'.buffer # NoBuffer \/ Len(pended') = 0
  PROVE  ReadersOK'
<1>1. Len(pended') \in Nat /\ MaxPended \in Nat
  BY SizeAssumption
<1>. QED
  BY <1>1 DEF ReadersOK, NoStarvedReader

(* A read joins the queue only when there is nothing to read.              *)
LEMMA ReadersRead ==
  ASSUME TypeOK, ReadersOK, NEW length \in ReadLengths,
         USBPcapBufferHandleReadIrp(length)
  PROVE  ReadersOK'
<1>1. /\ length \in Nat \ {0} /\ pData.buffer # NoBuffer
      /\ pended \in Seq(Nat \ {0}) /\ MaxPended \in Nat /\ Len(pended) \in Nat
  BY InputAssumption, SizeAssumption DEF USBPcapBufferHandleReadIrp, TypeOK
<1>2. USBPcapGetBufferAllocated(pData) \in Nat
  BY <1>1, TypedRing, RingFields, SpaceAccounting
<1> DEFINE toRead == BytesToRead(pData, length)
           alloc == USBPcapGetBufferAllocated(pData)
<1>3. toRead = 0 <=> alloc = 0
  <2> HIDE DEF alloc
  <2>1. toRead = LesserOf(alloc, length)
    BY DEF BytesToRead, alloc
  <2>. QED
    BY <1>1, <1>2, <2>1 DEF LesserOf, alloc
<1>4. \/ /\ toRead = 0 /\ Len(pended) < MaxPended
         /\ pended' = Append(pended, length) /\ pData' = pData
      \/ toRead # 0 /\ Deliver(pData, toRead) /\ pended' = pended
  BY DEF USBPcapBufferHandleReadIrp
<1>5. CASE /\ toRead = 0 /\ Len(pended) < MaxPended
           /\ pended' = Append(pended, length) /\ pData' = pData
  <2>1. Len(pended') = Len(pended) + 1
    BY <1>1, <1>5
  <2>2. Len(pended') <= MaxPended
    BY ONLY <1>1, <1>5, <2>1
  <2>3. USBPcapGetBufferAllocated(pData') = 0
    BY <1>3, <1>5
  <2>. QED
    BY <1>1, <1>5, <2>2, <2>3 DEF ReadersOK, NoStarvedReader
<1>6. CASE toRead # 0 /\ Deliver(pData, toRead) /\ pended' = pended
  <2>1. Len(pended) # MaxPended /\ Len(pended) <= MaxPended
    BY <1>3, <1>6 DEF ReadersOK, NoStarvedReader
  <2>2. Len(pended') < MaxPended
    <3>1. Len(pended) < MaxPended
      BY ONLY <1>1, <2>1
    <3>. QED
      BY <1>6, <3>1
  <2>3. pended' \in Seq(Nat \ {0})
    BY <1>1, <1>6
  <2>4. pData'.buffer = pData.buffer
    <3>1. pData' = AfterRead(pData, toRead) /\ Ring(pData)
      BY <1>1, <1>6, TypedRing DEF Deliver
    <3>2. toRead \in 0 .. USBPcapGetBufferAllocated(pData)
      <4> HIDE DEF alloc
      <4>1. LesserOf(alloc, length) \in 0 .. alloc
        BY <1>1, <1>2 DEF LesserOf, alloc
      <4>. QED
        BY <4>1 DEF BytesToRead, alloc
    <3> HIDE DEF toRead
    <3>. QED
      BY <3>1, <3>2, ReadRing
  <2>. QED
    BY <1>1, <2>2, <2>3, <2>4, ShortQueue
<1>. QED
  BY <1>4, <1>5, <1>6

(* Every action keeps the readers fed.                                     *)
LEMMA ReadersStep ==
  ASSUME TypeOK, TypeOK', ReadersOK, [Next]_vars
  PROVE  ReadersOK'
<1>0. /\ pended \in Seq(Nat \ {0}) /\ pended' \in Seq(Nat \ {0})
      /\ MaxPended \in Nat \ {0} /\ Len(pended) \in Nat
      /\ Len(pended) <= MaxPended
  BY SizeAssumption DEF TypeOK, ReadersOK
<1>1. ASSUME NEW bytes \in BufferSizes, SetUpFirstBuffer(bytes)
      PROVE  ReadersOK'
  <2>1. pended' = pended /\ Len(pended) = 0
    BY <1>1 DEF SetUpFirstBuffer, ReadersOK
  <2>2. Len(pended') < MaxPended /\ Len(pended') = 0
    BY <1>0, <2>1
  <2>. QED
    BY <1>0, <2>2, ShortQueue
<1>2. ASSUME NEW bytes \in BufferSizes, ReplaceBuffer(bytes)
      PROVE  ReadersOK'
  <2>1. /\ DataOK(pData') /\ Unread(pData') = Unread(pData)
        /\ pData.buffer # NoBuffer /\ pended' = pended
    BY <1>2, InputAssumption, ReplacedBuffer DEF ReplaceBuffer
  <2>2. /\ Ring(pData) /\ Ring(pData')
    BY <2>1, TypedRing DEF DataOK
  <2>3. USBPcapGetBufferAllocated(pData') = Len(Unread(pData'))
    BY <2>2, UnreadAt
  <2>4. USBPcapGetBufferAllocated(pData) = Len(Unread(pData))
    BY <2>2, UnreadAt
  <2>5. pData'.buffer # NoBuffer
    BY <2>2, RingHasBuffer
  <2>. QED
    BY <2>1, <2>3, <2>4, <2>5 DEF ReadersOK, NoStarvedReader
<1>3. ASSUME NEW bytes \in Snaplens, USBPcapSetSnaplenSize(bytes)
      PROVE  ReadersOK'
  <2>1. pended' = pended /\ Len(pended) = 0
    BY <1>3 DEF USBPcapSetSnaplenSize, ReadersOK
  <2>2. Len(pended') < MaxPended /\ Len(pended') = 0
    BY <1>0, <2>1
  <2>. QED
    BY <1>0, <2>2, ShortQueue
<1>4. CASE Cleanup
  <2>1. Len(pended') = 0
    BY <1>4 DEF Cleanup
  <2>2. Len(pended') < MaxPended
    BY <1>0, <2>1
  <2>. QED
    BY <1>0, <2>1, <2>2, ShortQueue
<1>5. ASSUME NEW length \in ReadLengths, USBPcapBufferHandleReadIrp(length)
      PROVE  ReadersOK'
  BY <1>5, ReadersRead
<1>6. ASSUME NEW p \in Packets, USBPcapBufferWriteTimestampedPayload(p)
      PROVE  ReadersOK'
  <2>1. \/ pended = <<>> /\ pended' = pended
        \/ pended # <<>> /\ pended' = Tail(pended)
    BY <1>6 DEF USBPcapBufferWriteTimestampedPayload,
                USBPcapBufferCompletePendedReadIrp
  <2>2. Len(pended') < MaxPended
    <3>1. CASE pended = <<>> /\ pended' = pended
      <4>1. Len(pended') = 0
        BY <3>1
      <4>. QED
        BY <1>0, <4>1
    <3>2. CASE pended # <<>> /\ pended' = Tail(pended)
      <4>1. Len(pended') = Len(pended) - 1
        BY <1>0, <3>2, HeadTailProperties
      <4>. QED
        BY <1>0, <4>1
    <3>. QED
      BY <2>1, <3>1, <3>2
  <2>3. pData'.buffer # NoBuffer
    <3>1. DataOK(pData')
      BY <1>6, Stored
    <3>. QED
      BY <3>1, RingHasBuffer DEF DataOK
  <2>. QED
    BY <1>0, <2>2, <2>3, ShortQueue
<1>7. ASSUME NEW i \in DOMAIN pended, CancelPendedIrp(i)
      PROVE  ReadersOK'
  <2> DEFINE s == SubSeq(pended, 1, i - 1)
             t == SubSeq(pended, i + 1, Len(pended))
  <2>1. i \in 1 .. Len(pended)
    BY <1>0
  <2>2. /\ Len(s) = i - 1 /\ Len(t) = Len(pended) - i
        /\ s \in Seq(Nat \ {0}) /\ t \in Seq(Nat \ {0})
    <3>1. s \in Seq(Nat \ {0}) /\ Len(s) = i - 1
      BY <1>0, <2>1, SubSeqProperties
    <3>2. t \in Seq(Nat \ {0}) /\ Len(t) = Len(pended) - i
      BY <1>0, <2>1, SubSeqProperties
    <3>. QED
      BY <3>1, <3>2
  <2>3. pended' = s \o t /\ pData' = pData
    BY <1>7 DEF CancelPendedIrp
  <2> HIDE DEF s, t
  <2>4. Len(pended') = Len(pended) - 1
    BY <1>0, <2>1, <2>2, <2>3
  <2>5. Len(pended') < MaxPended /\ Len(pended) # 0
    BY <1>0, <2>1, <2>4
  <2>6. pData'.buffer # NoBuffer
    BY <2>3, <2>5 DEF ReadersOK
  <2>. QED
    BY <1>0, <2>5, <2>6, ShortQueue
<1>8. CASE UNCHANGED vars
  BY <1>8 DEF vars, ReadersOK, NoStarvedReader
<1>. QED
  BY <1>1, <1>2, <1>3, <1>4, <1>5, <1>6, <1>7, <1>8 DEF Next

(* For a client that keeps any number of reads outstanding: they never all *)
(* wait while the buffer holds data; one that keeps a single read, as      *)
(* USBPcapCMD does, is never left waiting.                                 *)
THEOREM ReadersNeverStarve == Spec => []NoStarvedReader
<1>1. Init => ReadersOK
  <2> SUFFICES ASSUME Init PROVE ReadersOK
    OBVIOUS
  <2>1. Len(pended) = 0 /\ pData.readOffset = pData.writeOffset
    BY DEF Init
  <2>2. 0 <= MaxPended
    BY SizeAssumption
  <2>. QED
    BY <2>1, <2>2 DEF ReadersOK, NoStarvedReader, USBPcapGetBufferAllocated
<1>2. TypeOK /\ TypeOK' /\ ReadersOK /\ [Next]_vars => ReadersOK'
  BY ReadersStep
<1>3. ReadersOK => NoStarvedReader
  BY DEF ReadersOK
<1>. QED
  BY <1>1, <1>2, <1>3, TypeCorrect, PTL DEF Spec
=============================================================================
