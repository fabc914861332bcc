------------------------ MODULE CaptureOutput_proofs ------------------------
(***************************************************************************)
(* What the capture thread writes, for packets of any size and any way in  *)
(* which reads cut the stream: the output is the wanted part of what it    *)
(* was given (OutputIsWhatWasWanted), and the service that reads the file  *)
(* back counts the records that are whole (ReaderCountsRecords).           *)
(*                                                                         *)
(* First what the recursive functions compute: Chosen, the records of a    *)
(* set kept in order, is what is left of a sequence record by record, so   *)
(* it goes through concatenations and through records taken off the front. *)
(* Then OutputInv, which relates the output and what process_data still    *)
(* holds to the stream, step by step. RawInv is the same for a capture     *)
(* that copies without looking. Last the walk of the pcap reader over a    *)
(* file made of whole records and perhaps one that is torn.                *)
(***************************************************************************)
EXTENDS CaptureThread_proofs, RecursionTheorems

(* The function inside Chosen, as a set-theoretic object. *)
IsChoice(g, s, K) ==
  g = [i \in 0 .. Len(s) |->
         IF i = 0 THEN <<>>
         ELSE IF s[i] \in K THEN Append(g[i - 1], s[i]) ELSE g[i - 1]]

LEMMA ChoiceExists ==
  ASSUME NEW S, NEW s \in Seq(S), NEW K
  PROVE  \E g : IsChoice(g, s, K) /\ g \in [0 .. Len(s) -> Seq(S)]
<1>1. PICK n \in Nat : n = Len(s)
  OBVIOUS
<1>2. PICK B : B = Seq(S)
  OBVIOUS
<1>3. <<>> \in B
  <2>1. <<>> \in Seq(S)
    OBVIOUS
  <2> QED
    BY <1>2, <2>1
<1>4. PICK step : step = [x \in B \X (1 .. n) |->
                            IF s[x[2]] \in K THEN Append(x[1], s[x[2]]) ELSE x[1]]
  OBVIOUS
<1>5. step \in [B \X (1 .. n) -> B]
  <2>1. ASSUME NEW x \in B \X (1 .. n)
        PROVE  (IF s[x[2]] \in K THEN Append(x[1], s[x[2]]) ELSE x[1]) \in B
    BY <1>1, <1>2
  <2> QED
    BY <1>4, <2>1
<1>6. PICK g \in [0 .. n -> B] :
        g[0] = <<>> /\ \A i \in 1 .. n : g[i] = step[<<g[i - 1], i>>]
  <2>1. PICK b \in B : b = <<>>
    BY <1>3
  <2>2. PICK f \in [B \X (1 .. n) -> B] : f = step
    BY <1>5
  <2>3. \E g \in [0 .. n -> B] : Recurs(g, n, b, f)
    BY Recursion
  <2> QED
    BY <2>1, <2>2, <2>3, Zenon DEF Recurs
<1>7. ASSUME NEW i \in 1 .. n
      PROVE  g[i] = IF s[i] \in K THEN Append(g[i - 1], s[i]) ELSE g[i - 1]
  <2>1. g[i - 1] \in B
    OBVIOUS
  <2>2. <<g[i - 1], i>> \in B \X (1 .. n)
    BY <2>1
  <2> QED
    BY <1>4, <1>6, <2>2
<1>8. g = [i \in 0 .. n |->
             IF i = 0 THEN <<>>
             ELSE IF s[i] \in K THEN Append(g[i - 1], s[i]) ELSE g[i - 1]]
  <2>1. g = [i \in 0 .. n |-> g[i]]
    BY <1>6
  <2>2. \A i \in 0 .. n : g[i] = IF i = 0 THEN <<>>
             ELSE IF s[i] \in K THEN Append(g[i - 1], s[i]) ELSE g[i - 1]
    <3> SUFFICES ASSUME NEW i \in 0 .. n
                 PROVE  g[i] = IF i = 0 THEN <<>>
                               ELSE IF s[i] \in K THEN Append(g[i - 1], s[i]) ELSE g[i - 1]
      OBVIOUS
    <3>1. CASE i = 0
      BY <3>1, <1>6, Zenon
    <3>2. CASE i # 0
      <4>1. i \in 1 .. n
        BY <3>2
      <4> QED
        BY <3>2, <4>1, <1>7, Zenon
    <3> QED
      BY <3>1, <3>2
  <2> QED
    BY <2>1, <2>2, Zenon
<1> QED
  BY <1>1, <1>2, <1>6, <1>8 DEF IsChoice

(* g[i] are the elements of K among the first i of s.                      *)
Selects(g, s, K) ==
  /\ g[0] = <<>>
  /\ \A i \in 1 .. Len(s) :
       g[i] = IF s[i] \in K THEN Append(g[i - 1], s[i]) ELSE g[i - 1]

(* What Chosen computes.                                                   *)
LEMMA ChosenUnfolds ==
  ASSUME NEW S, NEW s \in Seq(S), NEW K
  PROVE  \E g : Chosen(s, K) = g[Len(s)] /\ Selects(g, s, K)
<1>1. PICK h : h = CHOOSE g : IsChoice(g, s, K)
  OBVIOUS
<1>2. IsChoice(h, s, K)
  BY <1>1, ChoiceExists
<1>3. Chosen(s, K) = h[Len(s)]
  BY <1>1 DEF Chosen, IsChoice
<1>4. PICK n \in Nat : n = Len(s)
  OBVIOUS
<1>5. h[0] = <<>> /\ \A i \in 1 .. n :
        h[i] = IF s[i] \in K THEN Append(h[i - 1], s[i]) ELSE h[i - 1]
  <2>1. \A i \in 0 .. n : h[i] = IF i = 0 THEN <<>>
          ELSE IF s[i] \in K THEN Append(h[i - 1], s[i]) ELSE h[i - 1]
    BY <1>2, <1>4, Zenon DEF IsChoice
  <2>2. 0 \in 0 .. n /\ \A i \in 1 .. n : i \in 0 .. n /\ i # 0
    OBVIOUS
  <2> QED
    BY <2>1, <2>2, Zenon
<1> QED
  BY <1>3, <1>4, <1>5, Zenon DEF Selects

LEMMA ChosenSelects ==
  ASSUME NEW S, NEW s \in Seq(S), NEW K
  PROVE  \E g \in [0 .. Len(s) -> Seq(S)] : Selects(g, s, K) /\ Chosen(s, K) = g[Len(s)]
<1>1. PICK g : Chosen(s, K) = g[Len(s)] /\ Selects(g, s, K)
  BY ChosenUnfolds, Zenon
<1>2. PICK n \in Nat : n = Len(s)
  OBVIOUS
<1> DEFINE T == {i \in 0 .. n : g[i] \in Seq(S)}
<1>3. 0 \in T
  <2>1. <<>> \in Seq(S)
    OBVIOUS
  <2>2. 0 \in 0 .. n
    OBVIOUS
  <2> QED
    BY <1>1, <2>1, <2>2, Zenon DEF Selects
<1>4. \A i \in 0 .. n - 1 : i \in T => i + 1 \in T
  <2> SUFFICES ASSUME NEW i \in 0 .. n - 1, i \in T  PROVE i + 1 \in T
    OBVIOUS
  <2>1. PICK j \in 1 .. n : j = i + 1 /\ j - 1 = i
    OBVIOUS
  <2>2. g[j] = IF s[j] \in K THEN Append(g[j - 1], s[j]) ELSE g[j - 1]
    BY <1>1, <1>2, Zenon DEF Selects
  <2>3. PICK x \in Seq(S) : x = g[i]
    OBVIOUS
  <2>4. s[j] \in S
    BY <1>2
  <2>5. Append(x, s[j]) \in Seq(S)
    BY <2>4
  <2>6. g[j] = Append(x, s[j]) \/ g[j] = x
    BY <2>1, <2>2, <2>3, Zenon
  <2>7. g[j] \in Seq(S)
    BY <2>5, <2>6, Zenon
  <2> QED
    BY <2>1, <2>7
<1>5. 0 .. n \subseteq T
  <2> HIDE DEF T
  <2> QED
    BY <1>3, <1>4, UpTo
<1>6. PICK h : h = [i \in 0 .. n |-> g[i]]
  OBVIOUS
<1>7. h \in [0 .. n -> Seq(S)]
  BY <1>5, <1>6
<1>8. \A i \in 0 .. n : h[i] = g[i]
  BY <1>6
<1>9. 0 \in 0 .. n /\ n \in 0 .. n /\ \A i \in 1 .. n : i \in 0 .. n /\ i - 1 \in 0 .. n
  OBVIOUS
<1>10. Selects(h, s, K) /\ Chosen(s, K) = h[Len(s)]
  BY <1>1, <1>2, <1>8, <1>9, Zenon DEF Selects
<1> QED
  BY <1>2, <1>7, <1>10, Zenon

LEMMA ChosenType ==
  ASSUME NEW S, NEW s \in Seq(S), NEW K
  PROVE  Chosen(s, K) \in Seq(S)
<1>1. PICK g \in [0 .. Len(s) -> Seq(S)] : Chosen(s, K) = g[Len(s)]
  BY ChosenSelects, Zenon
<1>2. Len(s) \in 0 .. Len(s)
  OBVIOUS
<1> QED
  BY <1>1, <1>2, Zenon

LEMMA ChosenEmpty ==
  ASSUME NEW K
  PROVE  Chosen(<<>>, K) = <<>>
<1>1. PICK s : s = <<>>
  OBVIOUS
<1>2. s \in Seq({}) /\ Len(s) = 0
  BY <1>1
<1>3. PICK g \in [0 .. Len(s) -> Seq({})] : Selects(g, s, K) /\ Chosen(s, K) = g[Len(s)]
  BY <1>2, ChosenSelects, Zenon
<1> QED
  BY <1>1, <1>2, <1>3, Zenon DEF Selects

(* All elements are wanted, or none. *)
LEMMA ChosenAll ==
  ASSUME NEW S, NEW s \in Seq(S), NEW K, \A i \in 1 .. Len(s) : s[i] \in K
  PROVE  Chosen(s, K) = s
<1>1. PICK g \in [0 .. Len(s) -> Seq(S)] : Selects(g, s, K) /\ Chosen(s, K) = g[Len(s)]
  BY ChosenSelects, Zenon
<1>2. PICK n \in Nat : n = Len(s)
  OBVIOUS
<1> DEFINE T == {i \in 0 .. n : g[i] = SubSeq(s, 1, i)}
<1>3. 0 \in T
  <2>1. g[0] = <<>> /\ SubSeq(s, 1, 0) = <<>>
    BY <1>1 DEF Selects
  <2> QED
    BY <2>1
<1>4. \A i \in 0 .. n - 1 : i \in T => i + 1 \in T
  <2> SUFFICES ASSUME NEW i \in 0 .. n - 1, i \in T  PROVE i + 1 \in T
    OBVIOUS
  <2>1. PICK j \in 1 .. n : j = i + 1 /\ j - 1 = i
    OBVIOUS
  <2>2. g[j] = Append(g[i], s[j])
    BY <1>1, <1>2, <2>1, Zenon DEF Selects
  <2>3. PICK x, y, z : x = SubSeq(s, 1, i) /\ y = SubSeq(s, 1, j) /\ z = Append(x, s[j])
    OBVIOUS
  <2>4. /\ x \in Seq(S) /\ Len(x) = i
        /\ \A k \in 1 .. i : x[k] = s[k]
    BY <1>2, <2>3, FirstProperties
  <2>5. /\ y \in Seq(S) /\ Len(y) = j
        /\ \A k \in 1 .. j : y[k] = s[k]
    BY <1>2, <2>3, FirstProperties
  <2>6. /\ z \in Seq(S) /\ Len(z) = j
        /\ \A k \in 1 .. i : z[k] = x[k]
        /\ z[j] = s[j]
    BY <1>2, <2>1, <2>3, <2>4
  <2>7. \A k \in 1 .. Len(z) : z[k] = y[k]
    <3> SUFFICES ASSUME NEW k \in 1 .. j  PROVE z[k] = y[k]
      BY <2>6
    <3>1. CASE k = j
      BY <2>5, <2>6, <3>1
    <3>2. CASE k # j
      <4>1. k \in 1 .. i
        BY <2>1, <3>2
      <4> QED
        BY <2>4, <2>5, <2>6, <4>1
    <3> QED
      BY <3>1, <3>2
  <2>8. z = y
    BY <2>5, <2>6, <2>7, SeqEqual
  <2>9. g[j] = SubSeq(s, 1, j)
    BY <2>2, <2>3, <2>8, Zenon
  <2> QED
    BY <2>1, <2>9
<1>5. 0 .. n \subseteq T
  <2> HIDE DEF T
  <2> QED
    BY <1>3, <1>4, UpTo
<1>6. g[n] = SubSeq(s, 1, n)
  BY <1>5
<1>7. SubSeq(s, 1, n) = s
  BY <1>2, DropNothing
<1> QED
  BY <1>1, <1>2, <1>6, <1>7, Zenon

LEMMA ChosenNone ==
  ASSUME NEW S, NEW s \in Seq(S), NEW K, \A i \in 1 .. Len(s) : s[i] \notin K
  PROVE  Chosen(s, K) = <<>>
<1>1. PICK g \in [0 .. Len(s) -> Seq(S)] : Selects(g, s, K) /\ Chosen(s, K) = g[Len(s)]
  BY ChosenSelects, Zenon
<1>2. PICK n \in Nat : n = Len(s)
  OBVIOUS
<1>3. PICK e : e = <<>>
  OBVIOUS
<1> DEFINE T == {i \in 0 .. n : g[i] = e}
<1>4. 0 \in T
  <2>1. 0 \in 0 .. n
    OBVIOUS
  <2> QED
    BY <1>1, <1>3, <2>1, Zenon DEF Selects
<1>5. \A i \in 0 .. n - 1 : i \in T => i + 1 \in T
  <2> SUFFICES ASSUME NEW i \in 0 .. n - 1, i \in T  PROVE i + 1 \in T
    OBVIOUS
  <2>1. PICK j \in 1 .. n : j = i + 1 /\ j - 1 = i
    OBVIOUS
  <2>2. g[j] = g[i]
    BY <1>1, <1>2, <2>1, Zenon DEF Selects
  <2> QED
    BY <2>1, <2>2
<1>6. 0 .. n \subseteq T
  <2> HIDE DEF T
  <2> QED
    BY <1>4, <1>5, UpTo
<1>7. g[n] = e
  BY <1>6
<1> QED
  BY <1>1, <1>2, <1>3, <1>7, Zenon

LEMMA Associative ==
  ASSUME NEW S, NEW a \in Seq(S), NEW b \in Seq(S), NEW c \in Seq(S)
  PROVE  (a \o b) \o c = a \o (b \o c)
BY ConcatAssociative

(* The same as one fact about three pieces.                                *)
Associate(a, b, c) == (a \o b) \o c = a \o (b \o c)

LEMMA BytesAssociate ==
  ASSUME NEW a \in Seq(Byte), NEW b \in Seq(Byte), NEW c \in Seq(Byte)
  PROVE  Associate(a, b, c)
BY Associative, SMTT(30) DEF Associate

(* What is chosen of two pieces is what is chosen of each.                 *)
LEMMA ChosenConcat ==
  ASSUME NEW S, NEW s \in Seq(S), NEW t \in Seq(S), NEW K
  PROVE  Chosen(s \o t, K) = Chosen(s, K) \o Chosen(t, K)
<1>11. \A x, y \in Seq(S), z \in S : Append(x \o y, z) = x \o Append(y, z)
  <2> SUFFICES ASSUME NEW x \in Seq(S), NEW y \in Seq(S), NEW z \in S
               PROVE  Append(x \o y, z) = x \o Append(y, z)
    OBVIOUS
  <2>1. x \o y \in Seq(S) /\ <<z>> \in Seq(S)
    OBVIOUS
  <2>2. Append(x \o y, z) = (x \o y) \o <<z>>
    BY <2>1, AppendIsConcat
  <2>3. Append(y, z) = y \o <<z>>
    BY AppendIsConcat
  <2>4. PICK w : w = <<z>>
    OBVIOUS
  <2>5. (x \o y) \o w = x \o (y \o w)
    BY <2>1, <2>4, Associative, SMTT(30)
  <2> QED
    BY <2>2, <2>3, <2>4, <2>5, Zenon
<1>1. PICK c : c = s \o t
  OBVIOUS
<1>2. /\ c \in Seq(S) /\ Len(c) = Len(s) + Len(t)
      /\ \A i \in 1 .. Len(s) + Len(t) : c[i] = IF i <= Len(s) THEN s[i] ELSE t[i - Len(s)]
  BY <1>1, ConcatProperties
<1>3. PICK f \in [0 .. Len(s) -> Seq(S)] : Selects(f, s, K) /\ Chosen(s, K) = f[Len(s)]
  BY ChosenSelects, Zenon
<1>4. PICK g \in [0 .. Len(t) -> Seq(S)] : Selects(g, t, K) /\ Chosen(t, K) = g[Len(t)]
  BY ChosenSelects, Zenon
<1>5. PICK h \in [0 .. Len(c) -> Seq(S)] : Selects(h, c, K) /\ Chosen(c, K) = h[Len(c)]
  BY <1>2, ChosenSelects, ZenonT(60)
<1>6. PICK m, n \in Nat : m = Len(s) /\ n = Len(t)
  OBVIOUS
<1>7. Len(c) = m + n /\ m + n \in Nat
  BY <1>2, <1>6
<1>8. h[m] = f[m]
  <2> DEFINE T == {i \in 0 .. m : h[i] = f[i]}
  <2>1. 0 \in T
    <3>1. h[0] = <<>> /\ f[0] = <<>> /\ 0 \in 0 .. m
      BY <1>3, <1>5 DEF Selects
    <3> QED
      BY <3>1, Zenon
  <2>2. \A i \in 0 .. m - 1 : i \in T => i + 1 \in T
    <3> SUFFICES ASSUME NEW i \in 0 .. m - 1, i \in T  PROVE i + 1 \in T
      OBVIOUS
    <3>1. PICK j \in 1 .. m : j = i + 1 /\ j - 1 = i
      OBVIOUS
    <3>2. j \in 1 .. Len(c) /\ c[j] = s[j]
      BY <1>2, <1>6
    <3>3. h[j] = IF c[j] \in K THEN Append(h[j - 1], c[j]) ELSE h[j - 1]
      BY <1>5, <3>2, Zenon DEF Selects
    <3>4. f[j] = IF s[j] \in K THEN Append(f[j - 1], s[j]) ELSE f[j - 1]
      BY <1>3, <1>6, Zenon DEF Selects
    <3>5. h[j] = f[j]
      BY <3>1, <3>2, <3>3, <3>4, Zenon
    <3> QED
      BY <3>1, <3>5
  <2>3. 0 .. m \subseteq T
    <3> HIDE DEF T
    <3> QED
      BY <2>1, <2>2, UpTo
  <2> QED
    BY <2>3
<1>9. PICK x \in Seq(S) : x = f[m]
  BY <1>3, <1>6, SMTT(30)
<1>10. h[m + n] = x \o g[n]
  <2> DEFINE T == {i \in 0 .. n : h[m + i] = x \o g[i]}
  <2>1. 0 \in T
    <3>1. PICK e : e = <<>>
      OBVIOUS
    <3>2. x \o e = x
      BY <3>1
    <3>3. g[0] = e /\ 0 \in 0 .. n /\ m + 0 = m
      BY <1>4, <3>1 DEF Selects
    <3> QED
      BY <1>8, <1>9, <3>2, <3>3, Zenon
  <2>2. \A i \in 0 .. n - 1 : i \in T => i + 1 \in T
    <3> SUFFICES ASSUME NEW i \in 0 .. n - 1, i \in T  PROVE i + 1 \in T
      OBVIOUS
    <3>1. PICK j \in 1 .. n : j = i + 1 /\ j - 1 = i /\ (m + j) - 1 = m + i
      OBVIOUS
    <3>2. m + j \in 1 .. Len(c) /\ c[m + j] = t[j]
      <4>1. m + j \in 1 .. Len(s) + Len(t) /\ ~ (m + j <= Len(s)) /\ (m + j) - Len(s) = j
        BY <1>6
      <4> QED
        BY <1>2, <4>1
    <3>3. h[m + j] = IF c[m + j] \in K THEN Append(h[(m + j) - 1], c[m + j]) ELSE h[(m + j) - 1]
      BY <1>5, <3>2, Zenon DEF Selects
    <3>4. g[j] = IF t[j] \in K THEN Append(g[j - 1], t[j]) ELSE g[j - 1]
      BY <1>4, <1>6, Zenon DEF Selects
    <3>5. PICK y \in Seq(S) : y = g[i]
      BY <1>4, <1>6
    <3>6. PICK z \in S : z = t[j]
      BY <1>6
    <3>7. Append(x \o y, z) = x \o Append(y, z)
      BY <1>11, Zenon
    <3>8. h[m + i] = x \o y
      BY <3>5
    <3>9. CASE z \in K
      <4>1. h[m + j] = Append(x \o y, z) /\ g[j] = Append(y, z)
        BY <3>1, <3>2, <3>3, <3>4, <3>5, <3>6, <3>8, <3>9, Zenon
      <4>2. h[m + j] = x \o g[j]
        BY <3>7, <4>1, Zenon
      <4> QED
        BY <3>1, <4>2
    <3>10. CASE z \notin K
      <4>1. h[m + j] = x \o y /\ g[j] = y
        BY <3>1, <3>2, <3>3, <3>4, <3>5, <3>6, <3>8, <3>10, Zenon
      <4>2. h[m + j] = x \o g[j]
        BY <4>1, Zenon
      <4> QED
        BY <3>1, <4>2
    <3> QED
      BY <3>9, <3>10
  <2>3. 0 .. n \subseteq T
    <3> HIDE DEF T
    <3> QED
      BY <2>1, <2>2, UpTo
  <2>4. n \in T
    BY <2>3
  <2> QED
    BY <2>4
<1> QED
  BY <1>1, <1>3, <1>4, <1>5, <1>6, <1>7, <1>9, <1>10, Zenon
-----------------------------------------------------------------------------
(* The output is the wanted part of the stream. *)

(* The global header has been written.                                     *)
Started == IF Raw THEN Len(parser.buf) = GlobalHeaderLen ELSE parser.wrote_pcap_header

(* Of what was received, some is in the output f, and h is still held.     *)
Output(f, all, h, started) ==
  \E w \in Seq(Byte) :
    /\ Wanted(all) = w \o Wanted(h)
    /\ f = Injected(w)
    /\ started => Len(w) >= GlobalHeaderLen /\ (~Raw => Rest(w, FALSE, TRUE))
    /\ ~started => w = <<>>

OutputInv ==
  /\ ~broken => Output(file, received, Held, Started)
  /\ parser.wrote_pcap_header => parser.have_pcap_header

LEMMA WantedConcat ==
  ASSUME NEW s \in Seq(Byte), NEW t \in Seq(Byte)
  PROVE  Wanted(s \o t) = Wanted(s) \o Wanted(t)
<1>1. Chosen(s \o t, Kept) = Chosen(s, Kept) \o Chosen(t, Kept)
  BY ChosenConcat
<1> QED
  BY <1>1, Zenon DEF Wanted

LEMMA WantedType ==
  ASSUME NEW s \in Seq(Byte)
  PROVE  Wanted(s) \in Seq(Byte)
BY ChosenType DEF Wanted

LEMMA WantedEmpty == Wanted(<<>>) = <<>>
BY ChosenEmpty, Zenon DEF Wanted

LEMMA WantedHeader == Wanted(Header) = Header
<1>1. PICK s \in Seq(Byte) : s = Header
  BY HeaderProperties
<1>2. \A i \in 1 .. Len(s) : s[i] \in Kept
  <2>1. \A i \in 1 .. Len(s) : s[i] \in Byte /\ s[i].id = GlobalId
    BY <1>1, HeaderProperties
  <2> QED
    BY <2>1 DEF Kept
<1>3. Chosen(s, Kept) = s
  BY <1>2, ChosenAll
<1> QED
  BY <1>1, <1>3, Zenon DEF Wanted

LEMMA WantedRecord ==
  ASSUME NEW id \in Ids, NEW n \in Nat \ {0}, NEW c, c = Stream!Chunk(id, n)
  PROVE  Wanted(c) = IF app_packet_matches(id) THEN c ELSE <<>>
<1>1. c \in Seq(Byte) /\ Len(c) = n /\ \A i \in 1 .. n : c[i].id = id
  <2>1. id \in Names
    BY DEF Names
  <2> QED
    BY <2>1, ChunkProperties
<1>2. \A i \in 1 .. Len(c) : c[i] \in Byte /\ c[i].id = id
  BY <1>1
<1>3. id # GlobalId
  BY ThreadAssumption
<1>4. CASE app_packet_matches(id)
  <2>1. \A i \in 1 .. Len(c) : c[i] \in Kept
    BY <1>2, <1>4 DEF Kept
  <2>2. Chosen(c, Kept) = c
    BY <1>1, <2>1, ChosenAll
  <2> QED
    BY <1>4, <2>2 DEF Wanted
<1>5. CASE ~app_packet_matches(id)
  <2>1. \A i \in 1 .. Len(c) : c[i] \notin Kept
    BY <1>2, <1>3, <1>5 DEF Kept
  <2>2. Chosen(c, Kept) = <<>>
    BY <1>1, <2>1, ChosenNone
  <2> QED
    BY <1>5, <2>2 DEF Wanted
<1> QED
  BY <1>4, <1>5

LEMMA WantedRaw ==
  ASSUME Raw, NEW s \in Seq(Byte)
  PROVE  Wanted(s) = s
<1>1. \A i \in 1 .. Len(s) : s[i] \in Byte
  OBVIOUS
<1>2. \A i \in 1 .. Len(s) : s[i] \in Kept
  BY <1>1 DEF Kept, Raw, app_packet_matches
<1> QED
  BY <1>2, ChosenAll DEF Wanted

(* What comes behind the header is not affected by the descriptors.        *)
LEMMA InjectedConcat ==
  ASSUME NEW w \in Seq(Byte), NEW c \in Seq(Byte), Len(w) >= GlobalHeaderLen
  PROVE  Injected(w \o c) = Injected(w) \o c
<1>1. PICK g \in Nat \ {0} : g = GlobalHeaderLen
  BY ThreadAssumption
<1>2. g \in 0 .. Len(w) /\ w # <<>>
  BY <1>1
<1>3. PICK u, d, x, y : /\ u = SubSeq(w, 1, g) /\ d = Descriptors /\ x = Drop(w, g)
                        /\ y = u \o d
  OBVIOUS
<1>4. u \in Seq(Byte) /\ d \in Seq(Byte) /\ x \in Seq(Byte)
  BY <1>2, <1>3, FirstProperties, DropProperties, DescriptorsProperties
<1>5. y \in Seq(Byte)
  BY <1>3, <1>4, ConcatProperties
<1>6. PICK v : v = w \o c
  OBVIOUS
<1>7. v \in Seq(Byte) /\ v # <<>>
  <2>1. v \in Seq(Byte) /\ Len(v) = Len(w) + Len(c)
    BY <1>6, ConcatProperties
  <2> QED
    BY <1>2, <2>1
<1>8. SubSeq(v, 1, g) = u
  BY <1>2, <1>3, <1>6, FirstOfConcat
<1>9. Drop(v, g) = x \o c
  BY <1>2, <1>3, <1>6, DropConcat
<1>10. Injected(v) = y \o (x \o c)
  BY <1>1, <1>3, <1>7, <1>8, <1>9, Zenon DEF Injected
<1>11. Injected(w) = y \o x
  BY <1>1, <1>2, <1>3, Zenon DEF Injected
<1>12. (y \o x) \o c = y \o (x \o c)
  BY <1>4, <1>5, Associative, SMTT(30)
<1> QED
  BY <1>6, <1>10, <1>11, <1>12, Zenon

LEMMA InjectedHeader == Injected(Header) = Header \o Descriptors
<1>1. PICK h \in Seq(Byte), d \in Seq(Byte), g \in Nat :
             h = Header /\ d = Descriptors /\ g = GlobalHeaderLen
  BY HeaderProperties, DescriptorsProperties, ThreadAssumption
<1>2. Len(h) = g /\ g > 0
  BY <1>1, HeaderProperties, ThreadAssumption
<1>3. SubSeq(h, 1, g) = h /\ h # <<>>
  BY <1>2, DropNothing
<1>4. Drop(h, g) = <<>>
  BY <1>2 DEF Drop
<1>5. Injected(h) = (h \o d) \o <<>>
  BY <1>1, <1>3, <1>4, Zenon DEF Injected
<1>6. (h \o d) \o <<>> = h \o d
  <2>1. PICK x \in Seq(Byte) : x = h \o d
    BY ConcatProperties
  <2>2. x \o <<>> = x
    BY ConcatEmptySeq
  <2> QED
    BY <2>1, <2>2, Zenon
<1> QED
  BY <1>1, <1>5, <1>6, Zenon

(* More is received and held.                                              *)
LEMMA OutputMore ==
  ASSUME NEW f, NEW all \in Seq(Byte), NEW h \in Seq(Byte), NEW b \in Seq(Byte),
         NEW started, Output(f, all, h, started)
  PROVE  Output(f, all \o b, h \o b, started)
<1>1. PICK w \in Seq(Byte) :
        /\ Wanted(all) = w \o Wanted(h)
        /\ f = Injected(w)
        /\ started => Len(w) >= GlobalHeaderLen /\ (~Raw => Rest(w, FALSE, TRUE))
        /\ ~started => w = <<>>
  BY DEF Output
<1>2. PICK x \in Seq(Byte), y \in Seq(Byte) : x = Wanted(h) /\ y = Wanted(b)
  BY WantedType
<1>3. /\ Wanted(all \o b) = Wanted(all) \o Wanted(b)
      /\ Wanted(h \o b) = Wanted(h) \o Wanted(b)
  BY WantedConcat
<1>4. (w \o x) \o y = w \o (x \o y)
  BY Associative, SMTT(30)
<1>5. Wanted(all \o b) = w \o Wanted(h \o b)
  BY <1>1, <1>2, <1>3, <1>4, Zenon
<1> QED
  BY <1>1, <1>5, Zenon DEF Output

(* What is held is the same but for bytes nobody wants.                    *)
LEMMA OutputSame ==
  ASSUME NEW f, NEW all, NEW h, NEW k, NEW started, Output(f, all, h, started),
         Wanted(k) = Wanted(h)
  PROVE  Output(f, all, k, started)
BY Zenon DEF Output

(* The first thing held is the header: it is written with the descriptors. *)
LEMMA OutputBegin ==
  ASSUME NEW f, NEW all, NEW h \in Seq(Byte), Output(f, all, Header \o h, FALSE), ~Raw
  PROVE  Output((f \o Header) \o Descriptors, all, h, TRUE)
<1>1. PICK w \in Seq(Byte) : Wanted(all) = w \o Wanted(Header \o h) /\ f = Injected(w) /\ w = <<>>
  BY Zenon DEF Output
<1>2. f = <<>>
  BY <1>1 DEF Injected
<1>3. PICK c \in Seq(Byte) : c = Header
  BY HeaderProperties
<1>4. Wanted(c \o h) = c \o Wanted(h) /\ Wanted(h) \in Seq(Byte)
  BY <1>3, WantedConcat, WantedHeader, WantedType
<1>5. PICK x \in Seq(Byte) : x = c \o Wanted(h)
  BY <1>4, ConcatProperties
<1>6. <<>> \o x = x /\ <<>> \o c = c
  BY ConcatEmptySeq
<1>7. Wanted(all) = c \o Wanted(h)
  BY <1>1, <1>3, <1>4, <1>5, <1>6, Zenon
<1>8. (f \o c) \o Descriptors = Injected(c)
  BY <1>2, <1>3, <1>6, InjectedHeader, Zenon
<1>9. Rest(c, FALSE, TRUE)
  <2>1. c \o <<>> = c /\ <<>> \in Seq(Byte)
    BY ConcatEmptySeq
  <2> QED
    BY <1>3, <2>1, NoRecords, Zenon DEF Rest
<1>10. Len(c) >= GlobalHeaderLen
  BY <1>3, HeaderProperties, ThreadAssumption
<1> QED
  BY <1>3, <1>7, <1>8, <1>9, <1>10, Zenon DEF Output

(* A whole wanted record is written.                                       *)
LEMMA OutputRecord ==
  ASSUME NEW f, NEW all, NEW id \in Ids, NEW n \in Sizes, NEW c, NEW h \in Seq(Byte),
         c = Stream!Chunk(id, n), app_packet_matches(id), ~Raw,
         Output(f, all, c \o h, TRUE)
  PROVE  Output(f \o c, all, h, TRUE)
<1>1. PICK w \in Seq(Byte) :
        /\ Wanted(all) = w \o Wanted(c \o h) /\ f = Injected(w)
        /\ Len(w) >= GlobalHeaderLen /\ Rest(w, FALSE, TRUE)
  BY Zenon DEF Output
<1> n \in Nat \ {0}
  BY SizesNat
<1>2. c \in Seq(Byte)
  BY ChunkProperties DEF Names
<1>3. Wanted(c) = c
  BY WantedRecord
<1>4. PICK y \in Seq(Byte) : y = Wanted(h) /\ Wanted(c \o h) = c \o y
  <2>1. Wanted(c \o h) = Wanted(c) \o Wanted(h)
    BY <1>2, WantedConcat
  <2>2. Wanted(h) \in Seq(Byte)
    BY WantedType
  <2> QED
    BY <1>3, <2>1, <2>2, Zenon
<1>5. (w \o c) \o y = w \o (c \o y)
  BY <1>2, Associative, SMTT(30)
<1>6. PICK v \in Seq(Byte) : v = w \o c /\ Len(v) = Len(w) + Len(c)
  BY <1>2, ConcatProperties
<1>7. Wanted(all) = v \o Wanted(h)
  BY <1>1, <1>4, <1>5, <1>6, Zenon
<1>8. f \o c = Injected(v)
  BY <1>1, <1>2, <1>6, InjectedConcat
<1>9. Len(v) >= GlobalHeaderLen
  BY <1>1, <1>2, <1>6, ThreadAssumption
<1>10. Rest(v, FALSE, TRUE)
  BY <1>1, <1>6, RestStore
<1> QED
  BY <1>7, <1>8, <1>9, <1>10, Zenon DEF Output

(* Steps that touch none of it.                                            *)
LEMMA OutputQuiet ==
  ASSUME OutputInv, UNCHANGED <<cfg, parser, received, file, broken>>
  PROVE  OutputInv'
<1>1. Kept' = Kept /\ Raw' = Raw /\ Descriptors' = Descriptors
  BY DEF Kept, app_packet_matches, Raw, Descriptors
<1>2. Held' = Held /\ (Started' <=> Started)
  BY <1>1 DEF Held, Started
<1> QED
  BY <1>1, <1>2 DEF OutputInv, Output, Wanted, Injected

LEMMA NothingAdded ==
  ASSUME NEW S, NEW s \in Seq(S)
  PROVE  s \o <<>> = s /\ <<>> \o s = s
BY ConcatEmptySeq

(* What is held of a parser that has the pending bytes s.                  *)
Holding(have, wrote, s) == (IF have /\ ~wrote THEN Header ELSE <<>>) \o s

LEMMA HoldingType ==
  ASSUME NEW have \in BOOLEAN, NEW wrote \in BOOLEAN, NEW s \in Seq(Byte)
  PROVE  /\ Holding(have, wrote, s) \in Seq(Byte)
         /\ have /\ ~wrote => Holding(have, wrote, s) = Header \o s
         /\ ~(have /\ ~wrote) => Holding(have, wrote, s) = s
<1>1. Header \o s \in Seq(Byte)
  BY HeaderProperties, ConcatProperties
<1>2. <<>> \o s = s
  BY NothingAdded
<1>3. CASE have /\ ~wrote
  <2>1. Holding(have, wrote, s) = Header \o s
    BY <1>3, Zenon DEF Holding
  <2> QED
    BY <1>1, <1>3, <2>1
<1>4. CASE ~(have /\ ~wrote)
  <2>1. Holding(have, wrote, s) = s
    BY <1>2, <1>4, Zenon DEF Holding
  <2> QED
    BY <1>4, <2>1
<1> QED
  BY <1>3, <1>4

LEMMA process_dataOutput ==
  ASSUME ThreadInv, OutputInv, process_data  PROVE OutputInv'
<1>1. CASE UNCHANGED <<parser, received>>
  <2>1. UNCHANGED <<cfg, parser, received, file, broken>>
    BY <1>1 DEF process_data, outputVars
  <2> QED
    BY <2>1, OutputQuiet
<1>2. CASE /\ parser' = [parser EXCEPT !.pending = @ \o read.bytes]
           /\ received' = received \o read.bytes
  <2>1. ~Raw /\ UNCHANGED <<cfg, file, broken>>
    BY DEF process_data, outputVars
  <2>2. PICK s \in Seq(Byte), b \in Seq(Byte) : s = parser.pending /\ b = read.bytes
    BY DEF ThreadInv, Shapes, Parsers, Reads
  <2>3. PICK have \in BOOLEAN, wrote \in BOOLEAN :
          have = parser.have_pcap_header /\ wrote = parser.wrote_pcap_header
    BY DEF ThreadInv, Shapes, Parsers
  <2>4. /\ parser'.pending = s \o b /\ parser'.have_pcap_header = have
        /\ parser'.wrote_pcap_header = wrote
    BY <1>2, <2>2, <2>3 DEF ThreadInv, Shapes, Parsers
  <2>5. Kept' = Kept /\ Raw' = Raw /\ Descriptors' = Descriptors
    BY <2>1 DEF Kept, app_packet_matches, Raw, Descriptors
  <2>6. PICK h : h = Holding(have, wrote, s)
    OBVIOUS
  <2>7. h \in Seq(Byte)
    BY <2>6, HoldingType
  <2>8. Held = h
    BY <2>1, <2>2, <2>3, <2>6, Zenon DEF Held, Holding
  <2>9. Held' = h \o b
    <3>1. Held' = Holding(have, wrote, s \o b)
      BY <2>1, <2>4, <2>5, Zenon DEF Held, Holding
    <3>2. PICK x \in Seq(Byte) : x = Header
      BY HeaderProperties
    <3>3. (x \o s) \o b = x \o (s \o b)
      BY Associative
    <3>4. s \o b \in Seq(Byte)
      BY ConcatProperties
    <3>5. CASE have /\ ~wrote
      <4>1. Holding(have, wrote, s) = Header \o s /\ Holding(have, wrote, s \o b) = Header \o (s \o b)
        BY <3>4, <3>5, HoldingType
      <4> QED
        BY <2>6, <3>1, <3>2, <3>3, <4>1, Zenon
    <3>6. CASE ~(have /\ ~wrote)
      <4>1. Holding(have, wrote, s) = s /\ Holding(have, wrote, s \o b) = s \o b
        BY <3>4, <3>6, HoldingType
      <4> QED
        BY <2>6, <3>1, <4>1, Zenon
    <3> QED
      BY <3>5, <3>6
  <2>10. Started = wrote /\ Started' = wrote
    BY <2>1, <2>3, <2>4, <2>5 DEF Started
  <2>11. received \in Seq(Byte)
    BY DEF ThreadInv, Shapes
  <2>12. ASSUME ~broken  PROVE Output(file, received \o b, h \o b, wrote)
    <3>1. Output(file, received, h, wrote)
      BY <2>8, <2>10, <2>12 DEF OutputInv
    <3> QED
      BY <2>7, <2>11, <3>1, OutputMore
  <2>13. wrote => have
    BY <2>3 DEF OutputInv
  <2>14. ASSUME ~broken'  PROVE Output(file, received, Held, Started)'
    <3>1. Output(file, received \o b, h \o b, wrote)
      BY <2>1, <2>12, <2>14
    <3>2. received' = received \o b
      BY <1>2, <2>2
    <3> QED
      BY <2>1, <2>5, <2>9, <2>10, <3>1, <3>2 DEF Output, Wanted, Injected
  <2> QED
    BY <2>4, <2>13, <2>14 DEF OutputInv
<1> QED
  BY <1>1, <1>2 DEF process_data

(* The output after a step, said without primes.                           *)
LEMMA OutputPrimed ==
  ASSUME UNCHANGED cfg, NEW f, NEW all, NEW h, NEW started,
         file' = f, received' = all, Held' = h, Started' <=> started,
         Output(f, all, h, started)
  PROVE  Output(file, received, Held, Started)'
<1>1. Kept' = Kept /\ Raw' = Raw /\ Descriptors' = Descriptors
  BY DEF Kept, app_packet_matches, Raw, Descriptors
<1> QED
  BY <1>1 DEF Output, Wanted, Injected

(* The record behind the header, or no record, leaves what is held.        *)
LEMMA OutputTaken ==
  ASSUME NEW f \in Seq(Byte), NEW all, NEW have \in BOOLEAN, NEW wrote \in BOOLEAN,
         NEW s \in Seq(Byte), NEW rec, NEW left \in Seq(Byte), NEW c,
         ~Raw, Output(f, all, Holding(have, wrote, s), wrote),
         rec = <<>> => left = s /\ c = <<>>,
         rec # <<>> =>
           /\ have /\ s = rec \o left
           /\ \E id \in Ids, n \in Sizes :
                /\ rec = Stream!Chunk(id, n)
                /\ IF app_packet_matches(id) THEN wrote /\ c = rec ELSE c = <<>>
  PROVE  Output(f \o c, all, Holding(have, wrote, left), wrote)
<1>1. f \o <<>> = f
  BY NothingAdded
<1>2. CASE rec = <<>>
  BY <1>1, <1>2, Zenon
<1>3. CASE rec # <<>>
  <2>1. PICK id \in Ids, n \in Sizes :
          /\ rec = Stream!Chunk(id, n)
          /\ IF app_packet_matches(id) THEN wrote /\ c = rec ELSE c = <<>>
    BY <1>3, Zenon
  <2> n \in Nat \ {0}
    BY SizesNat
  <2>2. have /\ s = rec \o left /\ rec \in Seq(Byte)
    <3>1. id \in Names
      BY DEF Names
    <3> QED
      BY <1>3, <2>1, <3>1, ChunkProperties
  <2>3. CASE app_packet_matches(id)
    <3>1. wrote /\ c = rec
      BY <2>1, <2>3
    <3>2. Holding(have, wrote, s) = rec \o left /\ Holding(have, wrote, left) = left
      BY <2>2, <3>1, HoldingType
    <3>3. wrote = TRUE
      BY <3>1
    <3>4. Output(f, all, rec \o left, TRUE)
      BY <3>2, <3>3
    <3>5. Output(f \o rec, all, left, TRUE)
      BY <2>1, <2>3, <3>4, OutputRecord
    <3> QED
      BY <3>1, <3>2, <3>3, <3>5
  <2>4. CASE ~app_packet_matches(id)
    <3>1. c = <<>> /\ Wanted(rec) = <<>>
      BY <2>1, <2>4, WantedRecord
    <3>2. PICK y \in Seq(Byte) : y = Wanted(left)
      BY WantedType
    <3>3. Wanted(s) = y
      <4>1. Wanted(rec \o left) = Wanted(rec) \o Wanted(left)
        BY <2>2, WantedConcat
      <4>2. <<>> \o y = y
        BY NothingAdded
      <4> QED
        BY <2>2, <3>1, <3>2, <4>1, <4>2, Zenon
    <3>4. Wanted(Holding(have, wrote, left)) = Wanted(Holding(have, wrote, s))
      <4>1. CASE ~wrote
        <5>1. /\ Holding(have, wrote, s) = Header \o s
              /\ Holding(have, wrote, left) = Header \o left
          BY <2>2, <4>1, HoldingType
        <5>2. /\ Wanted(Header \o s) = Wanted(Header) \o Wanted(s)
              /\ Wanted(Header \o left) = Wanted(Header) \o Wanted(left)
          BY HeaderProperties, WantedConcat
        <5> QED
          BY <3>2, <3>3, <5>1, <5>2, Zenon
      <4>2. CASE wrote
        <5>1. Holding(have, wrote, s) = s /\ Holding(have, wrote, left) = left
          BY <4>2, HoldingType
        <5> QED
          BY <3>2, <3>3, <5>1, Zenon
      <4> QED
        BY <4>1, <4>2
    <3>5. Output(f, all, Holding(have, wrote, left), wrote)
      BY <3>4, OutputSame
    <3> QED
      BY <1>1, <3>1, <3>5, Zenon
  <2> QED
    BY <2>3, <2>4
<1> QED
  BY <1>2, <1>3

LEMMA ParseRecordOutput ==
  ASSUME ThreadInv, OutputInv, ParseRecord  PROVE OutputInv'
<1> DEFINE p      == TakeHeader(parser)
           rec    == NextRecord(p)
           match  == rec # <<>> /\ app_packet_matches(rec[1].id)
           begins == /\ p.have_pcap_header /\ ~p.wrote_pcap_header
                     /\ cfg.store = "immediate" \/ match
           d      == IF begins THEN OpenOutput(data) ELSE data
           left   == Drop(p.pending, Len(rec))
           e      == [d EXCEPT !.triggered = @ \/ begins,
                               !.dropped_packets =
                                  IF rec # <<>> /\ ~match THEN @ + 1 ELSE @]
           a      == IF begins THEN Header ELSE <<>>
           b      == IF begins THEN Descriptors ELSE <<>>
           c      == IF match THEN rec ELSE <<>>
<1>1. /\ thread = "parse" /\ data.process
      /\ UNCHANGED <<open, queue, cfg, received>>
  BY DEF ParseRecord, streamVars
<1>2. \/ /\ parser' = p /\ UNCHANGED <<file, broken>>
      \/ /\ parser' = [p EXCEPT !.pending = Drop(@, Len(rec)),
                                !.wrote_pcap_header = @ \/ begins]
         /\ write_data(e, <<a, b, c>>)
  BY DEF ParseRecord, outputVars
<1>3. /\ Shapes /\ Progress /\ ~Raw /\ Live
  BY <1>1 DEF ThreadInv, Progress, Live
<1>4. /\ queue \in Seq(Byte) /\ open \in BOOLEAN /\ parser \in Parsers /\ data \in Datas
      /\ file \in Seq(Byte)
  BY <1>3 DEF Shapes
<1>5. Rest(Feed(parser, queue), parser.have_pcap_header, open)
  <2>1. Given = <<>>
    BY <1>1 DEF Given
  <2>2. Unseen = Feed(parser, queue)
    BY <1>4, <2>1, ConcatEmptySeq DEF Unseen, Feed
  <2> QED
    BY <1>3, <2>2 DEF ThreadInv, StreamInv
<1>6. /\ p \in Parsers
      /\ Rest(Feed(p, queue), p.have_pcap_header, open)
      /\ \/ p = parser
         \/ /\ ~parser.have_pcap_header /\ p.have_pcap_header
            /\ p.wrote_pcap_header = parser.wrote_pcap_header
            /\ parser.pending = Header \o p.pending
  BY <1>4, <1>5, TakeHeaderProperties
<1> HIDE DEF p
<1>7. PICK s \in Seq(Byte), have \in BOOLEAN, wrote \in BOOLEAN :
        s = p.pending /\ have = p.have_pcap_header /\ wrote = p.wrote_pcap_header
  BY <1>6 DEF Parsers
<1>8. /\ Started = wrote /\ Held = Holding(have, wrote, s) /\ (wrote => have)
  <2>1. Held = Holding(parser.have_pcap_header, parser.wrote_pcap_header, parser.pending)
    BY <1>3 DEF Held, Holding
  <2>2. Started = parser.wrote_pcap_header
    BY <1>3 DEF Started
  <2>3. CASE p = parser
    BY <1>7, <2>1, <2>2, <2>3 DEF OutputInv
  <2>4. CASE /\ ~parser.have_pcap_header /\ p.have_pcap_header
             /\ p.wrote_pcap_header = parser.wrote_pcap_header
             /\ parser.pending = Header \o p.pending
    <3>1. ~wrote /\ have /\ ~parser.wrote_pcap_header
      BY <1>7, <2>4 DEF OutputInv
    <3>2. Holding(have, wrote, s) = Header \o s
      BY <3>1, HoldingType
    <3>3. PICK x \in Seq(Byte) : x = Header \o s
      BY <3>2, HoldingType
    <3>4. Holding(FALSE, FALSE, x) = x
      BY HoldingType
    <3>5. Held = Holding(FALSE, FALSE, x)
      BY <1>7, <2>1, <2>4, <3>1, <3>3 DEF Holding
    <3> QED
      BY <1>7, <2>2, <2>4, <3>1, <3>2, <3>3, <3>4, <3>5
  <2> QED
    BY <1>6, <2>3, <2>4
<1>9. Raw' = Raw
  BY <1>1 DEF Raw
<1>10. CASE parser' = p /\ UNCHANGED <<file, broken>>
  <2>1. Started' = wrote /\ Held' = Holding(have, wrote, s)
    BY <1>3, <1>7, <1>9, <1>10 DEF Started, Held, Holding
  <2>2. ASSUME ~broken'  PROVE Output(file, received, Held, Started)'
    <3>1. Output(file, received, Holding(have, wrote, s), wrote)
      BY <1>8, <1>10, <2>2 DEF OutputInv
    <3> QED
      BY <1>1, <1>10, <2>1, <3>1, OutputPrimed
  <2> QED
    BY <1>7, <1>8, <1>10, <2>2 DEF OutputInv
<1>11. rec # <<>> =>
         /\ have /\ rec[1].id \in Ids
         /\ \E n \in Sizes : rec = Stream!Chunk(rec[1].id, n)
         /\ s = rec \o left
  <2>1. SUFFICES ASSUME rec # <<>>
                 PROVE  /\ have /\ rec[1].id \in Ids
                        /\ \E n \in Sizes : rec = Stream!Chunk(rec[1].id, n)
                        /\ s = rec \o left
    OBVIOUS
  <2>2. have
    BY <1>7, <2>1 DEF NextRecord
  <2>3. /\ rec[1].id \in Ids
        /\ \E n \in Sizes : rec = Stream!Chunk(rec[1].id, n)
        /\ p.pending = rec \o Drop(p.pending, Len(rec))
    BY <1>4, <1>6, <2>1, NextRecordProperties
  <2> QED
    BY <1>7, <2>2, <2>3
<1>12. rec \in Seq(Byte) /\ left \in Seq(Byte)
  <2>1. PICK gone : gone = IF rec # <<>> /\ ~app_packet_matches(rec[1].id) THEN 1 ELSE 0
    OBVIOUS
  <2> QED
    BY <1>4, <1>6, <2>1, TakenProperties
<1>13. rec = <<>> => left = s
  <2>1. Drop(s, 0) = s /\ Len(<<>>) = 0
    BY DropNothing
  <2> QED
    BY <1>7, <2>1
<1> HIDE DEF rec, left
<1>14. match \in BOOLEAN /\ begins \in BOOLEAN /\ (rec # <<>> /\ match => wrote \/ begins)
       /\ (begins => have /\ ~wrote)
  BY <1>7, <1>11
<1>15. CASE /\ parser' = [p EXCEPT !.pending = Drop(@, Len(rec)),
                                   !.wrote_pcap_header = @ \/ begins]
            /\ write_data(e, <<a, b, c>>)
  <2> HIDE DEF begins
  <2>1. /\ parser'.pending = left /\ parser'.have_pcap_header = have
        /\ parser'.wrote_pcap_header = (wrote \/ begins)
    <3>1. parser' = [p EXCEPT !.pending = left, !.wrote_pcap_header = @ \/ begins]
      BY <1>6, <1>15 DEF left
    <3> QED
      BY <1>6, <1>7, <3>1 DEF Parsers
  <2>2. PICK w \in BOOLEAN : w = (wrote \/ begins)
    BY <1>14
  <2>3. Started' = w /\ Held' = Holding(have, w, left)
    BY <1>3, <1>9, <2>1, <2>2 DEF Started, Held, Holding
  <2>4. a \in Seq(Byte) /\ b \in Seq(Byte) /\ c \in Seq(Byte)
    <3>1. <<>> \in Seq(Byte)
      OBVIOUS
    <3> QED
      BY <1>12, <3>1, HeaderProperties, DescriptorsProperties
  <2>5. ASSUME ~broken'  PROVE ~broken /\ file' = ((file \o a) \o b) \o c
    <3>1. PICK o \in [1 .. 3 -> Outcomes] :
            /\ broken' = (broken \/ \E i \in {j \in 1 .. 3 : <<a, b, c>>[j] # <<>>} : o[i] # "ok")
            /\ file' = IF broken' THEN <<>>
                       ELSE file \o <<a, b, c>>[1] \o <<a, b, c>>[2] \o <<a, b, c>>[3]
      BY <1>15 DEF write_data
    <3>2. <<a, b, c>>[1] = a /\ <<a, b, c>>[2] = b /\ <<a, b, c>>[3] = c
      OBVIOUS
    <3> QED
      BY <2>5, <3>1, <3>2, Zenon
  <2>6. ASSUME ~broken'  PROVE Output(file, received, Held, Started)'
    <3>1. Output(file, received, Holding(have, wrote, s), wrote)
      BY <1>8, <2>5, <2>6 DEF OutputInv
    <3>2. PICK f \in Seq(Byte) : f = (file \o a) \o b
      BY <1>4, <2>4, ConcatProperties
    <3>3. Output(f, received, Holding(have, w, s), w)
      <4>1. CASE begins
        <5>1. have /\ ~wrote /\ wrote = FALSE /\ w = TRUE
          BY <1>14, <2>2, <4>1
        <5>2. Holding(have, wrote, s) = Header \o s /\ Holding(have, w, s) = s
          BY <5>1, HoldingType
        <5>3. Output(file, received, Header \o s, FALSE)
          BY <3>1, <5>1, <5>2
        <5>4. Output((file \o Header) \o Descriptors, received, s, TRUE)
          BY <1>3, <5>3, OutputBegin
        <5>5. f = (file \o Header) \o Descriptors
          BY <3>2, <4>1
        <5> QED
          BY <5>1, <5>2, <5>4, <5>5
      <4>2. CASE ~begins
        <5>1. w = wrote
          BY <2>2, <4>2
        <5>2. a = <<>> /\ b = <<>>
          BY <4>2
        <5>3. file \o <<>> = file
          BY <1>4, NothingAdded
        <5>4. f = file
          BY <3>2, <5>2, <5>3, Zenon
        <5> QED
          BY <3>1, <5>1, <5>4
      <4> QED
        BY <4>1, <4>2
    <3>4. rec # <<>> =>
            /\ have /\ s = rec \o left
            /\ \E id \in Ids, n \in Sizes :
                 /\ rec = Stream!Chunk(id, n)
                 /\ IF app_packet_matches(id) THEN w /\ c = rec ELSE c = <<>>
      <4>1. SUFFICES ASSUME rec # <<>>
                     PROVE  \E id \in Ids, n \in Sizes :
                              /\ rec = Stream!Chunk(id, n)
                              /\ IF app_packet_matches(id) THEN w /\ c = rec ELSE c = <<>>
        BY <1>11
      <4>2. PICK id \in Ids, n \in Sizes : id = rec[1].id /\ rec = Stream!Chunk(id, n)
        BY <1>11, <4>1
      <4>3. match <=> app_packet_matches(id)
        BY <4>1, <4>2
      <4>4. match => w
        BY <1>14, <2>2, <4>1
      <4> QED
        BY <4>2, <4>3, <4>4
    <3>5. rec = <<>> => left = s /\ c = <<>>
      BY <1>13
    <3> HIDE DEF a, b, c, match
    <3>6. Output(f \o c, received, Holding(have, w, left), w)
      BY <1>3, <1>12, <3>3, <3>4, <3>5, OutputTaken
    <3>7. file' = f \o c /\ received' = received
      BY <1>1, <2>5, <2>6, <3>2
    <3> QED
      BY <1>1, <2>3, <3>6, <3>7, OutputPrimed
  <2>7. parser'.wrote_pcap_header => parser'.have_pcap_header
    BY <1>8, <1>14, <2>1
  <2> QED
    BY <2>6, <2>7 DEF OutputInv
<1> QED
  BY <1>2, <1>10, <1>15

(* A plain copy: what is written is all that was received.                 *)
LEMMA OutputCopied ==
  ASSUME Raw, NEW w \in Seq(Byte), Len(w) >= GlobalHeaderLen
  PROVE  Output(Injected(w), w, <<>>, TRUE)
<1>1. Wanted(w) = w /\ Wanted(<<>>) = <<>>
  BY WantedRaw, WantedEmpty
<1>2. w \o <<>> = w
  BY NothingAdded
<1>3. Wanted(w) = w \o Wanted(<<>>)
  BY <1>1, <1>2, Zenon
<1> QED
  BY <1>3, Zenon DEF Output

LEMMA OutputCollected ==
  ASSUME Raw, NEW s \in Seq(Byte)
  PROVE  Output(<<>>, s, s, FALSE)
<1>1. PICK x \in Seq(Byte) : x = Wanted(s)
  BY WantedType
<1>2. <<>> \o x = x /\ <<>> \in Seq(Byte)
  BY NothingAdded
<1>3. Injected(<<>>) = <<>>
  BY DEF Injected
<1>4. Wanted(s) = <<>> \o Wanted(s)
  BY <1>1, <1>2, Zenon
<1> QED
  BY <1>2, <1>3, <1>4, Zenon DEF Output

LEMMA process_data_rawOutput ==
  ASSUME ThreadInv, OutputInv, process_data_raw  PROVE OutputInv'
<1> DEFINE missing == GlobalHeaderLen - Len(parser.buf)
           n       == ToWrite(missing, Len(read.bytes))
           buf     == parser.buf \o SubSeq(read.bytes, 1, n)
           filled  == missing > 0 /\ Len(buf) = GlobalHeaderLen
           a       == IF filled THEN buf ELSE <<>>
           b       == IF filled THEN Descriptors ELSE <<>>
           c       == Drop(read.bytes, n)
<1>1. /\ Raw /\ write_data(data, <<a, b, c>>)
      /\ parser' = [parser EXCEPT !.buf = buf]
      /\ received' = received \o read.bytes
      /\ UNCHANGED cfg
  BY DEF process_data_raw
<1>2. PICK r \in Seq(Byte), h \in Seq(Byte) : r = read.bytes /\ h = parser.buf
  BY DEF ThreadInv, Shapes, Parsers, Reads
<1>3. PICK g \in Nat \ {0} : g = GlobalHeaderLen
  BY ThreadAssumption
<1>4. Len(h) \in Nat /\ Len(h) <= g /\ Len(r) \in Nat
  BY <1>2, <1>3 DEF ThreadInv, Shapes
<1>5. missing = g - Len(h) /\ n = IF missing > Len(r) THEN Len(r) ELSE missing
  BY <1>2, <1>3 DEF ToWrite
<1>6. c = Drop(r, n) /\ buf = h \o SubSeq(r, 1, n)
  BY <1>2
<1> HIDE DEF n, missing
<1>7. n \in 0 .. Len(r) /\ missing \in Nat
  BY <1>4, <1>5
<1>8. /\ c \in Seq(Byte) /\ SubSeq(r, 1, n) \in Seq(Byte) /\ Len(SubSeq(r, 1, n)) = n
  BY <1>6, <1>7, DropProperties, FirstProperties
<1>9. buf \in Seq(Byte) /\ Len(buf) = Len(h) + n
  BY <1>6, <1>8, ConcatProperties
<1>10. PICK u : u = buf
  OBVIOUS
<1>11. /\ parser'.buf = u /\ UNCHANGED <<parser.wrote_pcap_header, parser.have_pcap_header>>
  <2> HIDE DEF buf
  <2> QED
    BY <1>1, <1>10 DEF ThreadInv, Shapes, Parsers
<1>12. /\ Raw' /\ (Started' <=> Len(u) = g)
       /\ (Len(u) < g => Held' = u) /\ (Len(u) = g => Held' = <<>>)
  <2> HIDE DEF buf
  <2>1. Raw'
    BY <1>1 DEF Raw
  <2> QED
    BY <1>3, <1>11, <2>1 DEF Started, Held
<1>13. /\ (Started <=> Len(h) = g)
       /\ (Len(h) < g => Held = h) /\ (Len(h) = g => Held = <<>>)
  BY <1>1, <1>2, <1>3 DEF Started, Held
<1>14. received \in Seq(Byte) /\ file \in Seq(Byte) /\ data \in Datas
  BY DEF ThreadInv, Shapes
<1>15. ASSUME ~broken'  PROVE ~broken /\ file' = ((file \o a) \o b) \o c
  <2> HIDE DEF a, b, c
  <2>1. PICK o \in [1 .. 3 -> Outcomes] :
          /\ broken' = (broken \/ \E i \in {j \in 1 .. 3 : <<a, b, c>>[j] # <<>>} : o[i] # "ok")
          /\ file' = IF broken' THEN <<>>
                     ELSE file \o <<a, b, c>>[1] \o <<a, b, c>>[2] \o <<a, b, c>>[3]
    BY <1>1 DEF write_data
  <2>2. <<a, b, c>>[1] = a /\ <<a, b, c>>[2] = b /\ <<a, b, c>>[3] = c
    OBVIOUS
  <2> QED
    BY <1>15, <2>1, <2>2, Zenon
<1>16. received' = received \o r
  BY <1>1, <1>2
<1>17. ASSUME ~broken'  PROVE Output(file, received, Held, Started)'
  <2>1. PICK w \in Seq(Byte) :
          /\ Wanted(received) = w \o Wanted(Held) /\ file = Injected(w)
          /\ Started => Len(w) >= GlobalHeaderLen
          /\ ~Started => w = <<>>
    BY <1>15, <1>17, Zenon DEF OutputInv, Output
  <2>2. Wanted(received) = received
    BY <1>1, <1>14, WantedRaw
  <2>3. CASE Len(h) = g
    <3>1. missing = 0 /\ n = 0 /\ Held = <<>> /\ Started
      BY <1>4, <1>5, <1>13, <2>3
    <3>2. c = r /\ SubSeq(r, 1, 0) = <<>>
      BY <1>6, <3>1, DropNothing
    <3>3. h \o <<>> = h /\ w \o <<>> = w /\ file \o <<>> = file
      BY <1>14, NothingAdded
    <3>4. u = h
      BY <1>6, <1>10, <3>1, <3>2, <3>3
    <3>5. a = <<>> /\ b = <<>>
      BY <3>1
    <3>6. received = w
      BY <2>1, <2>2, <3>1, <3>3, WantedEmpty, Zenon
    <3>7. file' = Injected(w) \o r
      BY <1>15, <1>17, <2>1, <3>2, <3>3, <3>5, Zenon
    <3>8. PICK v \in Seq(Byte) : v = w \o r /\ Len(v) = Len(w) + Len(r)
      BY ConcatProperties
    <3>9. Len(w) >= GlobalHeaderLen /\ Len(v) >= GlobalHeaderLen
      BY <1>3, <2>1, <3>1, <3>8
    <3>10. file' = Injected(v)
      BY <3>7, <3>8, <3>9, InjectedConcat
    <3>11. Output(Injected(v), v, <<>>, TRUE)
      BY <1>1, <3>9, OutputCopied
    <3>12. Held' = <<>> /\ (Started' <=> TRUE)
      BY <1>3, <1>12, <2>3, <3>4
    <3>13. received' = v
      BY <1>16, <3>6, <3>8
    <3> QED
      BY <1>1, <3>10, <3>11, <3>12, <3>13, OutputPrimed
  <2>4. CASE Len(h) < g
    <3>1. ~Started /\ Held = h /\ w = <<>>
      BY <1>4, <1>13, <2>1, <2>4
    <3>2. file = <<>>
      BY <2>1, <3>1 DEF Injected
    <3>3. received = h
      <4>1. Wanted(h) = h /\ <<>> \o h = h
        BY <1>1, WantedRaw, NothingAdded
      <4> QED
        BY <2>1, <2>2, <3>1, <4>1, Zenon
    <3>4. missing > 0
      BY <1>4, <1>5, <2>4
    <3>5. SubSeq(r, 1, n) \o c = r
      BY <1>6, <1>7, Split
    <3>6. h \o r = u \o c
      <4>1. PICK x : x = SubSeq(r, 1, n)
        OBVIOUS
      <4>2. x \in Seq(Byte)
        BY <1>8, <4>1
      <4>3. (h \o x) \o c = h \o (x \o c)
        <5> HIDE DEF c
        <5>1. PICK y \in Seq(Byte) : y = c
          BY <1>8
        <5>2. Associate(h, x, y)
          BY <4>2, BytesAssociate, Zenon
        <5> QED
          BY <5>1, <5>2, Zenon DEF Associate
      <4> QED
        BY <1>6, <1>10, <3>5, <4>1, <4>3, Zenon
    <3>7. CASE Len(u) = g
      <4>1. filled
        BY <1>3, <1>10, <3>4, <3>7
      <4>2. a = u /\ b = Descriptors
        BY <1>10, <4>1
      <4>3. u \in Seq(Byte) /\ c \in Seq(Byte)
        BY <1>8, <1>9, <1>10
      <4>4. PICK v \in Seq(Byte) : v = u \o c /\ Len(v) = Len(u) + Len(c)
        BY <4>3, ConcatProperties
      <4>5. Injected(v) = (u \o Descriptors) \o c
        <5>1. SubSeq(v, 1, g) = SubSeq(u, 1, g) /\ SubSeq(u, 1, g) = u
          BY <3>7, <4>3, <4>4, FirstOfConcat, DropNothing
        <5>2. Drop(v, g) = c
          BY <3>7, <4>3, <4>4, DropOfConcat
        <5>3. v # <<>>
          BY <3>7, <4>3, <4>4
        <5> QED
          BY <1>3, <5>1, <5>2, <5>3, Zenon DEF Injected
      <4>6. file' = (u \o Descriptors) \o c
        <5>1. <<>> \o u = u
          BY <4>3, NothingAdded
        <5> QED
          BY <1>15, <1>17, <3>2, <4>2, <5>1, Zenon
      <4>7. Len(v) >= GlobalHeaderLen
        BY <1>3, <3>7, <4>3, <4>4
      <4>8. Output(Injected(v), v, <<>>, TRUE)
        BY <1>1, <4>7, OutputCopied
      <4>9. Held' = <<>> /\ (Started' <=> TRUE)
        BY <1>3, <1>12, <3>7
      <4>10. received' = v
        BY <1>16, <3>3, <3>6, <4>4
      <4>11. file' = Injected(v)
        BY <4>5, <4>6
      <4> QED
        BY <1>1, <4>8, <4>9, <4>10, <4>11, OutputPrimed
    <3>8. CASE Len(u) # g
      <4>1. ~filled
        BY <1>3, <1>10, <3>8
      <4>2. a = <<>> /\ b = <<>>
        BY <4>1
      <4>3. Len(u) = Len(h) + n
        BY <1>9, <1>10
      <4>4. missing > Len(r) /\ n = Len(r) /\ Len(u) < g
        BY <1>4, <1>5, <3>8, <4>3
      <4>5. c = <<>>
        BY <1>6, <4>4 DEF Drop
      <4>6. u \in Seq(Byte) /\ u \o <<>> = u
        BY <1>9, <1>10, NothingAdded
      <4>7. received' = u
        BY <1>16, <3>3, <3>6, <4>5, <4>6, Zenon
      <4>8. file' = <<>>
        <5>1. PICK z : z = <<>>
          OBVIOUS
        <5>2. z \o z = z
          BY <5>1
        <5> QED
          BY <1>15, <1>17, <3>2, <4>2, <4>5, <5>1, <5>2, Zenon
      <4>9. Held' = u /\ (Started' <=> FALSE)
        BY <1>12, <3>8, <4>4
      <4>10. Output(<<>>, u, u, FALSE)
        BY <1>1, <4>6, OutputCollected
      <4> QED
        BY <1>1, <4>7, <4>8, <4>9, <4>10, OutputPrimed
    <3> QED
      BY <3>7, <3>8
  <2> QED
    BY <1>4, <2>3, <2>4
<1>18. parser'.wrote_pcap_header => parser'.have_pcap_header
  BY <1>11 DEF OutputInv
<1> QED
  BY <1>17, <1>18 DEF OutputInv

LEMMA OutputInit == Init => OutputInv
<1> SUFFICES ASSUME Init  PROVE OutputInv
  OBVIOUS
<1>1. /\ file = <<>> /\ received = <<>> /\ parser.buf = <<>> /\ parser.pending = <<>>
      /\ parser.wrote_pcap_header = FALSE /\ parser.have_pcap_header = FALSE
  BY DEF Init
<1>2. ~Started
  BY <1>1, ThreadAssumption DEF Started
<1>3. Held = <<>>
  <2>1. <<>> \o <<>> = <<>>
    OBVIOUS
  <2> QED
    BY <1>1, <2>1, Zenon DEF Held
<1>4. Injected(<<>>) = <<>> /\ <<>> \in Seq(Byte)
  BY DEF Injected
<1>5. Wanted(<<>>) = <<>> \o Wanted(<<>>)
  <2>1. <<>> \o <<>> = <<>>
    OBVIOUS
  <2> QED
    BY <2>1, WantedEmpty, Zenon
<1>6. Output(<<>>, <<>>, <<>>, FALSE)
  BY <1>4, <1>5, Zenon DEF Output
<1>7. Started = FALSE
  BY <1>2 DEF Started
<1> QED
  BY <1>1, <1>3, <1>6, <1>7 DEF OutputInv

LEMMA OutputNext == ASSUME ThreadInv, OutputInv, [Next]_vars  PROVE OutputInv'
<1>1. CASE process_data
  BY <1>1, process_dataOutput
<1>2. CASE process_data_raw
  BY <1>2, process_data_rawOutput
<1>3. CASE ParseRecord
  BY <1>3, ParseRecordOutput
<1>4. ASSUME ~process_data, ~process_data_raw, ~ParseRecord
      PROVE  UNCHANGED <<cfg, parser, received, file, broken>>
  <2>1. CASE UNCHANGED vars
    BY <2>1 DEF vars, outputVars
  <2>2. CASE \E id \in Ids, inclLen \in 0 .. snaplen : StorePacket(id, inclLen)
    BY <2>2 DEF StorePacket, outputVars
  <2>3. CASE \E n \in 1 .. Len(queue) : ReadCompletes(n)
    BY <2>3 DEF ReadCompletes, outputVars
  <2>4. CASE ReadFails \/ PipeConnected
    BY <2>4 DEF ReadFails, PipeConnected, outputVars
  <2>5. CASE ThreadStep
    BY <1>4, <2>5 DEF ThreadStep, BeginThread, CheckProcess, StopThread, ParseStopped,
       ReadAgain, LeaveThread, outputVars
  <2>6. CASE \/ RejectCapture \/ RejectWorker \/ wait_for_exit_signal \/ SetExitEvent
             \/ WorkerCreates \/ WorkerEnds
    BY <2>6 DEF RejectCapture, RejectWorker, GiveUp, wait_for_exit_signal, SetExitEvent,
       WorkerCreates, WorkerEnds, outputVars
  <2>7. CASE start_capture
    BY <2>7 DEF start_capture, outputVars
  <2>8. CASE CloseHandles \/ Report
    BY <2>8 DEF CloseHandles, Report, outputVars
  <2> QED
    BY <2>1, <2>2, <2>3, <2>4, <2>5, <2>6, <2>7, <2>8 DEF Next
<1> QED
  BY <1>1, <1>2, <1>3, <1>4, OutputQuiet

LEMMA OutputInvariant == Spec => [](ThreadInv /\ OutputInv)
<1>1. Init => OutputInv
  BY OutputInit
<1>2. ThreadInv /\ OutputInv /\ [Next]_vars => OutputInv'
  BY OutputNext
<1> QED
  BY <1>1, <1>2, ThreadInvariant, PTL DEF Spec

(* However reads cut the stream and whatever the filter, the trigger, the  *)
(* sizes and the number of packets: as long as no write failed, the output *)
(* followed by what process_data still holds is exactly the wanted part of *)
(* what it was given, with the descriptors once, behind the header.        *)
THEOREM OutputIsWhatWasWanted == Spec => []OutputIsFilteredStream
<1>1. ThreadInv /\ OutputInv => OutputIsFilteredStream
  <2> SUFFICES ASSUME ThreadInv, OutputInv, ~broken
               PROVE  LET all == Wanted(received)
                          n   == Len(all) - Len(Wanted(Held))
                      IN  /\ n >= 0 /\ Drop(all, n) = Wanted(Held)
                          /\ file = Injected(SubSeq(all, 1, n))
    BY DEF OutputIsFilteredStream
  <2>1. PICK w \in Seq(Byte) : Wanted(received) = w \o Wanted(Held) /\ file = Injected(w)
    BY Zenon DEF OutputInv, Output
  <2>2. Held \in Seq(Byte)
    <3>1. PICK s \in Seq(Byte), h \in Seq(Byte), have \in BOOLEAN, wrote \in BOOLEAN :
            /\ s = parser.pending /\ h = parser.buf
            /\ have = parser.have_pcap_header /\ wrote = parser.wrote_pcap_header
      BY DEF ThreadInv, Shapes, Parsers
    <3>2. Holding(have, wrote, s) \in Seq(Byte) /\ <<>> \in Seq(Byte)
      BY HoldingType
    <3>3. CASE Raw
      BY <3>1, <3>2, <3>3 DEF Held
    <3>4. CASE ~Raw
      <4>1. Held = Holding(have, wrote, s)
        BY <3>1, <3>4, Zenon DEF Held, Holding
      <4> QED
        BY <3>2, <4>1
    <3> QED
      BY <3>3, <3>4
  <2>3. PICK x \in Seq(Byte) : x = Wanted(Held)
    BY <2>2, WantedType
  <2>4. PICK all \in Seq(Byte) : all = w \o x /\ Len(all) = Len(w) + Len(x)
    BY ConcatProperties
  <2>5. PICK n \in Nat : n = Len(w)
    OBVIOUS
  <2>6. Len(all) - Len(x) = n
    BY <2>4, <2>5
  <2>7. Drop(all, n) = x
    BY <2>4, <2>5, DropOfConcat
  <2>8. SubSeq(all, 1, n) = w
    <3>1. SubSeq(all, 1, n) = SubSeq(w, 1, n) /\ SubSeq(w, 1, n) = w
      BY <2>4, <2>5, FirstOfConcat, DropNothing
    <3> QED
      BY <3>1
  <2>9. Wanted(received) = all
    BY <2>1, <2>3, <2>4, Zenon
  <2>10. n >= 0
    OBVIOUS
  <2> QED
    BY <2>1, <2>3, <2>6, <2>7, <2>8, <2>9, <2>10, Zenon
<1> QED
  BY <1>1, OutputInvariant, PTL
-----------------------------------------------------------------------------
(* The service counts the records of the output. *)

Summaries == [error : BOOLEAN, packets : Nat]

(* One more record.                                                        *)
More(s) == [s EXCEPT !.packets = @ + 1]

(* The function inside SummarizeReader.                                    *)
IsWalk(g, f) ==
  g = [pos \in 0 .. Len(f) |->
         IF Reader!Next(f, pos) = "record"
         THEN LET s == g[pos + f[pos + 1].of]
              IN  [s EXCEPT !.packets = @ + 1]
         ELSE [error |-> Reader!Next(f, pos) = "error", packets |-> 0]]

Walks(g, f) ==
  \A pos \in 0 .. Len(f) :
    g[pos] = IF Reader!Next(f, pos) = "record"
             THEN More(g[pos + f[pos + 1].of])
             ELSE [error |-> Reader!Next(f, pos) = "error", packets |-> 0]

LEMMA MoreProperties ==
  ASSUME NEW s \in Summaries
  PROVE  /\ More(s) \in Summaries /\ More(s).error = s.error
         /\ More(s).packets = s.packets + 1
<1>1. PICK k \in Nat : k = s.packets
  BY DEF Summaries
<1>2. More(s) = [s EXCEPT !.packets = k + 1]
  BY <1>1 DEF More
<1> QED
  BY <1>1, <1>2 DEF Summaries

LEMMA NextRecordThere ==
  ASSUME NEW f \in Seq(Byte), NEW pos \in 0 .. Len(f), Reader!Next(f, pos) = "record"
  PROVE  pos < Len(f) /\ f[pos + 1].of \in Nat /\ pos + f[pos + 1].of \in 0 .. Len(f)
<1>1. pos # Len(f)
  <2>1. SUFFICES ASSUME pos = Len(f)  PROVE FALSE
    OBVIOUS
  <2>2. Len(f) - pos = 0
    BY <2>1
  <2> QED
    BY <2>2 DEF Reader!Next
<1>2. pos < Len(f) /\ pos + 1 \in 1 .. Len(f)
  BY <1>1
<1>3. PICK k \in Nat : k = f[pos + 1].of
  BY <1>2, ByteFields
<1>4. RecordHeaderLen \in Nat /\ MaxRecordSize \in Nat
  BY ThreadAssumption
<1>5. ~ (Len(f) - pos < RecordHeaderLen + (k - RecordHeaderLen))
  BY <1>3 DEF Reader!Next
<1> QED
  BY <1>2, <1>3, <1>4, <1>5

LEMMA WalkExists ==
  ASSUME NEW f \in Seq(Byte), \A i \in 1 .. Len(f) : f[i].of > 0
  PROVE  \E g : IsWalk(g, f)
<1>1. PICK n \in Nat : n = Len(f)
  OBVIOUS
<1>2. PICK W : W = [0 .. n -> Summaries]
  OBVIOUS
<1> DEFINE Value(g, pos) == IF Reader!Next(f, pos) = "record"
                            THEN More(g[pos + f[pos + 1].of])
                            ELSE [error |-> Reader!Next(f, pos) = "error", packets |-> 0]
<1>3. PICK step : step = [x \in W \X (0 .. n) |-> Value(x[1], x[2])]
  OBVIOUS
<1>4. ASSUME NEW g \in W, NEW pos \in 0 .. n  PROVE Value(g, pos) \in Summaries
  <2>1. CASE Reader!Next(f, pos) = "record"
    <3>1. pos + f[pos + 1].of \in 0 .. n
      BY <1>1, <2>1, NextRecordThere
    <3>2. g[pos + f[pos + 1].of] \in Summaries
      BY <1>2, <3>1
    <3>3. More(g[pos + f[pos + 1].of]) \in Summaries
      BY <3>2, MoreProperties
    <3> QED
      BY <2>1, <3>3
  <2>2. CASE Reader!Next(f, pos) # "record"
    BY <2>2 DEF Summaries
  <2> QED
    BY <2>1, <2>2
<1> HIDE DEF Value
<1>5. step \in [W \X (0 .. n) -> Summaries]
  BY <1>3, <1>4
<1>6. ASSUME NEW g \in W, NEW pos \in 0 .. n
      PROVE  step[<<g, pos>>] = Value(g, pos)
  <2>1. <<g, pos>> \in W \X (0 .. n)
    OBVIOUS
  <2> QED
    BY <1>3, <2>1
<1>7. ASSUME NEW g \in W, NEW h \in W, NEW pos \in 0 .. n,
             \A j \in 0 .. n : pos < j => g[j] = h[j]
      PROVE  step[<<g, pos>>] = step[<<h, pos>>]
  <2>1. Value(g, pos) = Value(h, pos)
    <3>1. CASE Reader!Next(f, pos) = "record"
      <4>1. PICK k \in Nat : k = f[pos + 1].of
        BY <1>1, <3>1, NextRecordThere
      <4>2. pos < Len(f) /\ pos + k \in 0 .. n
        BY <1>1, <3>1, <4>1, NextRecordThere
      <4>3. k > 0
        <5>1. pos + 1 \in 1 .. Len(f)
          BY <4>2
        <5> QED
          BY <4>1, <5>1
      <4>4. g[pos + k] = h[pos + k]
        BY <1>7, <4>2, <4>3
      <4> QED
        BY <4>1, <4>4, Zenon DEF Value
    <3>2. CASE Reader!Next(f, pos) # "record"
      BY <3>2, Zenon DEF Value
    <3> QED
      BY <3>1, <3>2
  <2> QED
    BY <1>6, <2>1
<1>8. PICK b \in Summaries : b = [error |-> FALSE, packets |-> 0]
  BY DEF Summaries
<1>9. PICK st \in [[0 .. n -> Summaries] \X (0 .. n) -> Summaries] : st = step
  BY <1>2, <1>5
<1>10. \A g, h \in [0 .. n -> Summaries], i \in 0 .. n :
         (\A j \in 0 .. n : i < j => g[j] = h[j]) => st[<<g, i>>] = st[<<h, i>>]
  BY <1>2, <1>7, <1>9
<1>11. PICK g \in [0 .. n -> Summaries] : Descends(g, n, st)
  BY <1>10, Descent
<1>12. ASSUME NEW pos \in 0 .. n  PROVE g[pos] = Value(g, pos)
  <2>1. g[pos] = st[<<g, pos>>]
    BY <1>11 DEF Descends
  <2> QED
    BY <1>2, <1>6, <1>9, <2>1
<1>13. g = [pos \in 0 .. n |-> Value(g, pos)]
  <2>1. g = [pos \in 0 .. n |-> g[pos]]
    BY <1>11
  <2> QED
    BY <1>12, <2>1, Zenon
<1>14. IsWalk(g, f)
  BY <1>1, <1>13, Zenon DEF IsWalk, Value, More
<1> QED
  BY <1>14

LEMMA SummarizeWalks ==
  ASSUME NEW f \in Seq(Byte), \A i \in 1 .. Len(f) : f[i].of > 0
  PROVE  \E g : /\ Walks(g, f)
                /\ Reader!SummarizeReader(f) =
                     IF Reader!OpenReader(f) THEN g[GlobalHeaderLen]
                     ELSE [error |-> TRUE, packets |-> 0]
<1>1. PICK h : h = CHOOSE g : IsWalk(g, f)
  OBVIOUS
<1>2. IsWalk(h, f)
  BY <1>1, WalkExists
<1>3. Reader!SummarizeReader(f) =
        IF Reader!OpenReader(f) THEN h[GlobalHeaderLen]
        ELSE [error |-> TRUE, packets |-> 0]
  BY <1>1 DEF Reader!SummarizeReader, IsWalk
<1>4. Walks(h, f)
  BY <1>2, Zenon DEF IsWalk, Walks, More
<1> QED
  BY <1>3, <1>4

(* The global header, then records; only the last one may be torn.         *)
Packed(f) ==
  /\ f \in Seq(Byte) /\ GlobalHeaderLen <= Len(f) /\ Aligned(f)
  /\ \A i \in 1 .. GlobalHeaderLen : f[i].id = GlobalId
  /\ \A i \in GlobalHeaderLen + 1 .. Len(f) :
       /\ f[i].id # GlobalId
       /\ RecordHeaderLen <= f[i].of /\ f[i].of <= RecordHeaderLen + MaxRecordSize
  /\ GlobalHeaderLen < Len(f) => f[GlobalHeaderLen + 1].at = 1

Boundary(f, pos)   == pos < Len(f) => f[pos + 1].at = 1
CompleteFrom(f, pos) == {i \in pos + 1 .. Len(f) : f[i].at = f[i].of}

LEMMA RecordAhead ==
  ASSUME NEW f, Packed(f), NEW pos \in GlobalHeaderLen .. Len(f), pos < Len(f),
         Boundary(f, pos), NEW k \in Nat, f[pos + 1].of = k
  PROVE  /\ k > 0
         /\ \A i \in pos + 1 .. Len(f) : i < pos + k => f[i].at # f[i].of
         /\ pos + k > Len(f) =>
              Reader!Next(f, pos) # "record" /\ f[Len(f)].at # f[Len(f)].of
         /\ pos + k <= Len(f) =>
              /\ Reader!Next(f, pos) = "record" /\ f[pos + k].at = f[pos + k].of
              /\ Boundary(f, pos + k)
<1>1. f \in Seq(Byte) /\ Aligned(f) /\ f[pos + 1].at = 1
  BY DEF Packed, Boundary
<1>2. PICK n \in Nat, g \in Nat \ {0}, rh \in Nat \ {0}, mx \in Nat :
        n = Len(f) /\ g = GlobalHeaderLen /\ rh = RecordHeaderLen /\ mx = MaxRecordSize
  BY <1>1, ThreadAssumption
<1>3. pos \in Nat /\ g <= pos /\ pos + 1 \in 1 .. n /\ pos + 1 \in g + 1 .. n
  BY <1>2
<1>4. rh <= k /\ k <= rh + mx /\ k > 0
  BY <1>2, <1>3 DEF Packed
<1>5. \A i \in pos + 1 .. n : i <= pos + k => f[i].at = i - pos /\ f[i].of = k
  <2> SUFFICES ASSUME NEW i \in pos + 1 .. n, i <= pos + k
               PROVE  f[i].at = i - pos /\ f[i].of = k
    OBVIOUS
  <2>1. PICK q \in 1 .. n : q = pos + 1
    BY <1>3
  <2>2. i \in 1 .. n
    BY <1>3
  <2>3. /\ q - f[q].at < i /\ i <= q - f[q].at + f[q].of =>
             f[i].of = f[q].of /\ f[i].at = i - (q - f[q].at)
    BY <1>1, <1>2, <2>1, <2>2 DEF Aligned
  <2>4. f[q].at = 1 /\ f[q].of = k
    BY <1>1, <2>1
  <2>5. q - 1 < i /\ i <= q - 1 + k /\ i - (q - 1) = i - pos
    BY <1>3, <2>1, <2>2
  <2> QED
    BY <2>3, <2>4, <2>5
<1>6. \A i \in pos + 1 .. Len(f) : i < pos + k => f[i].at # f[i].of
  <2> SUFFICES ASSUME NEW i \in pos + 1 .. n, i < pos + k  PROVE f[i].at # f[i].of
    BY <1>2
  <2>1. f[i].at = i - pos /\ f[i].of = k
    BY <1>3, <1>5
  <2>2. i - pos < k
    BY <1>3
  <2> QED
    BY <1>3, <2>1, <2>2
<1>7. ASSUME pos + k > Len(f)
      PROVE  Reader!Next(f, pos) # "record" /\ f[Len(f)].at # f[Len(f)].of
  <2>1. n \in pos + 1 .. n /\ n < pos + k
    BY <1>2, <1>3, <1>7
  <2>2. f[n].at # f[n].of
    BY <1>2, <1>6, <2>1
  <2>3. n - pos < rh + (k - rh)
    BY <1>3, <2>1
  <2>4. Reader!Next(f, pos) # "record"
    BY <1>2, <2>3 DEF Reader!Next
  <2> QED
    BY <1>2, <2>2, <2>4
<1>8. ASSUME pos + k <= Len(f)
      PROVE  /\ Reader!Next(f, pos) = "record" /\ f[pos + k].at = f[pos + k].of
             /\ Boundary(f, pos + k)
  <2>1. pos + k \in pos + 1 .. n
    BY <1>2, <1>3, <1>4, <1>8
  <2>2. f[pos + k].at = k /\ f[pos + k].of = k
    <3>1. (pos + k) - pos = k
      BY <1>3
    <3> QED
      BY <1>3, <1>5, <2>1, <3>1
  <2>3. Reader!Next(f, pos) = "record"
    <3>1. /\ n - pos # 0 /\ ~ (n - pos < rh) /\ ~ (k - rh > mx)
          /\ ~ (n - pos = rh /\ k - rh > 0) /\ ~ (n - pos < rh + (k - rh))
      BY <1>2, <1>3, <1>4, <1>8
    <3> QED
      BY <1>2, <3>1 DEF Reader!Next
  <2>4. ASSUME pos + k < Len(f)  PROVE f[pos + k + 1].at = 1
    <3>1. PICK q \in 1 .. n, j \in 1 .. n : q = pos + k + 1 /\ j = pos + k
      BY <1>2, <1>3, <2>1, <2>4
    <3>2. PICK a \in Nat, o \in Nat : a = f[q].at /\ o = f[q].of
      BY <1>1, <1>2, ByteFields
    <3>3. /\ 1 <= a /\ a <= o
          /\ q - a < j /\ j <= q - a + o => f[j].of = o /\ f[j].at = j - (q - a)
      BY <1>1, <1>2, <3>2 DEF Aligned
    <3>4. j = q - 1
      BY <3>1
    <3>5. f[j].at = k /\ f[j].of = k
      BY <2>2, <3>1
    <3>6. a = 1
      <4>1. SUFFICES ASSUME a > 1  PROVE FALSE
        BY <3>3
      <4>2. q - a < j /\ j <= q - a + o
        BY <3>3, <3>4, <4>1
      <4>3. k = o /\ k = j - (q - a)
        BY <3>3, <3>5, <4>2
      <4>4. j - (q - a) = a - 1
        BY <3>4
      <4> QED
        BY <3>3, <4>3, <4>4
    <3> QED
      BY <3>1, <3>2, <3>6
  <2> QED
    BY <2>2, <2>3, <2>4 DEF Boundary
<1> QED
  BY <1>4, <1>6, <1>7, <1>8

LEMMA CompleteFinite ==
  ASSUME NEW f \in Seq(Byte), NEW pos \in Nat
  PROVE  IsFiniteSet(CompleteFrom(f, pos)) /\ Cardinality(CompleteFrom(f, pos)) \in Nat
<1>1. IsFiniteSet(pos + 1 .. Len(f))
  BY FS_Interval
<1>2. CompleteFrom(f, pos) \in SUBSET (pos + 1 .. Len(f))
  BY DEF CompleteFrom
<1>3. IsFiniteSet(CompleteFrom(f, pos))
  BY <1>1, <1>2, FS_Subset
<1> QED
  BY <1>3, FS_CardinalityType

(* The summary of the records behind pos.                                  *)
RightFrom(g, f, pos) ==
  pos >= GlobalHeaderLen /\ Boundary(f, pos) =>
    /\ g[pos] \in Summaries
    /\ g[pos].error => f[Len(f)].at # f[Len(f)].of
    /\ ~g[pos].error => g[pos].packets = Cardinality(CompleteFrom(f, pos))

LEMMA WalkIsRight ==
  ASSUME NEW f, Packed(f), NEW g, Walks(g, f)
  PROVE  RightFrom(g, f, GlobalHeaderLen)
<1>1. f \in Seq(Byte)
  BY DEF Packed
<1>2. PICK n \in Nat, h \in Nat \ {0} : n = Len(f) /\ h = GlobalHeaderLen /\ h <= n
  BY <1>1, ThreadAssumption DEF Packed
<1> DEFINE T == {pos \in 0 .. n : RightFrom(g, f, pos)}
<1>3. ASSUME NEW pos \in 0 .. n, \A j \in 0 .. n : pos < j => j \in T
      PROVE  pos \in T
  <2> SUFFICES ASSUME pos >= h, Boundary(f, pos)
               PROVE  /\ g[pos] \in Summaries
                      /\ g[pos].error => f[Len(f)].at # f[Len(f)].of
                      /\ ~g[pos].error => g[pos].packets = Cardinality(CompleteFrom(f, pos))
    BY <1>2 DEF RightFrom
  <2>1. g[pos] = IF Reader!Next(f, pos) = "record"
                 THEN More(g[pos + f[pos + 1].of])
                 ELSE [error |-> Reader!Next(f, pos) = "error", packets |-> 0]
    BY <1>2 DEF Walks
  <2>2. CASE pos = n
    <3>1. Reader!Next(f, pos) = "eof"
      <4>1. Len(f) - pos = 0
        BY <1>2, <2>2
      <4> QED
        BY <4>1 DEF Reader!Next
    <3>2. g[pos] = [error |-> FALSE, packets |-> 0]
      BY <2>1, <3>1
    <3>3. CompleteFrom(f, pos) = {}
      BY <1>2, <2>2 DEF CompleteFrom
    <3> QED
      BY <3>2, <3>3, FS_EmptySet DEF Summaries
  <2>3. CASE pos < n
    <3>1. pos + 1 \in 1 .. Len(f) /\ pos \in h .. n
      BY <1>2, <2>3
    <3>2. PICK k \in Nat : f[pos + 1].of = k
      BY <1>1, <3>1, ByteFields
    <3>3. /\ k > 0
          /\ \A i \in pos + 1 .. Len(f) : i < pos + k => f[i].at # f[i].of
          /\ pos + k > Len(f) =>
               Reader!Next(f, pos) # "record" /\ f[Len(f)].at # f[Len(f)].of
          /\ pos + k <= Len(f) =>
               /\ Reader!Next(f, pos) = "record" /\ f[pos + k].at = f[pos + k].of
               /\ Boundary(f, pos + k)
      BY <1>2, <2>3, <3>1, <3>2, RecordAhead
    <3>4. CASE pos + k > n
      <4>1. Reader!Next(f, pos) # "record" /\ f[Len(f)].at # f[Len(f)].of
        BY <1>2, <3>3, <3>4
      <4>2. g[pos] = [error |-> Reader!Next(f, pos) = "error", packets |-> 0]
        BY <2>1, <4>1
      <4>3. CompleteFrom(f, pos) = {}
        <5>1. \A i \in pos + 1 .. Len(f) : i < pos + k
          BY <1>2, <3>4
        <5> QED
          BY <3>3, <5>1 DEF CompleteFrom
      <4>4. g[pos] \in Summaries /\ g[pos].packets = 0
        BY <4>2 DEF Summaries
      <4> QED
        BY <4>1, <4>3, <4>4, FS_EmptySet
    <3>5. CASE pos + k <= n
      <4>1. Reader!Next(f, pos) = "record" /\ f[pos + k].at = f[pos + k].of /\ Boundary(f, pos + k)
        BY <1>2, <3>3, <3>5
      <4>2. PICK q \in 0 .. n : q = pos + k /\ pos < q /\ q >= h
        BY <1>2, <3>3, <3>5
      <4>3. RightFrom(g, f, q)
        BY <1>3, <4>2
      <4>4. /\ g[q] \in Summaries
            /\ g[q].error => f[Len(f)].at # f[Len(f)].of
            /\ ~g[q].error => g[q].packets = Cardinality(CompleteFrom(f, q))
        BY <1>2, <4>1, <4>2, <4>3 DEF RightFrom
      <4>5. g[pos] = More(g[q])
        BY <2>1, <3>2, <4>1, <4>2
      <4>6. PICK A, B : A = CompleteFrom(f, pos) /\ B = CompleteFrom(f, q)
        OBVIOUS
      <4>7. A = B \cup {q} /\ q \notin B
        <5>1. q \in A /\ q \notin B
          BY <1>2, <4>1, <4>2, <4>6 DEF CompleteFrom
        <5>2. \A i \in A : i = q \/ i \in B
          <6> SUFFICES ASSUME NEW i \in A, i # q  PROVE i \in B
            OBVIOUS
          <6>1. i \in pos + 1 .. n /\ f[i].at = f[i].of
            BY <1>2, <4>6 DEF CompleteFrom
          <6>2. ~ (i < q)
            BY <1>2, <3>3, <4>2, <6>1
          <6>3. i \in q + 1 .. n
            BY <4>2, <6>1, <6>2
          <6> QED
            BY <1>2, <4>6, <6>1, <6>3 DEF CompleteFrom
        <5>3. B \subseteq A
          BY <1>2, <4>2, <4>6 DEF CompleteFrom
        <5> QED
          BY <5>1, <5>2, <5>3
      <4>8. IsFiniteSet(B)
        BY <1>1, <4>2, <4>6, CompleteFinite
      <4>9. Cardinality(A) = Cardinality(B) + 1
        BY <4>7, <4>8, FS_AddElement
      <4>10. /\ g[pos] \in Summaries /\ g[pos].error = g[q].error
             /\ g[pos].packets = g[q].packets + 1
        BY <4>4, <4>5, MoreProperties
      <4> QED
        BY <4>4, <4>6, <4>9, <4>10
    <3> QED
      BY <3>4, <3>5
  <2> QED
    BY <2>2, <2>3
<1>4. 0 .. n \subseteq T
  <2> HIDE DEF T
  <2> QED
    BY <1>3, DownTo
<1>5. h \in T
  BY <1>2, <1>4
<1> QED
  BY <1>2, <1>5

LEMMA PackedSummary ==
  ASSUME NEW f, Packed(f)
  PROVE  LET s        == Reader!SummarizeReader(f)
             complete == {i \in DOMAIN f : f[i].at = f[i].of /\ f[i].id # GlobalId}
         IN  IF s.error THEN f[Len(f)].at # f[Len(f)].of
                        ELSE s.packets = Cardinality(complete)
<1>1. f \in Seq(Byte) /\ GlobalHeaderLen <= Len(f)
  BY DEF Packed
<1>2. PICK n \in Nat, h \in Nat \ {0} : n = Len(f) /\ h = GlobalHeaderLen /\ h <= n
  BY <1>1, ThreadAssumption DEF Packed
<1>3. \A i \in 1 .. Len(f) : f[i].of > 0
  <2> SUFFICES ASSUME NEW i \in 1 .. n  PROVE f[i].of > 0
    BY <1>2
  <2>1. f[i].at \in Nat /\ f[i].of \in Nat
    BY <1>1, <1>2, ByteFields
  <2>2. 1 <= f[i].at /\ f[i].at <= f[i].of
    BY <1>2 DEF Packed, Aligned
  <2> QED
    BY <2>1, <2>2
<1>4. PICK g : /\ Walks(g, f)
               /\ Reader!SummarizeReader(f) =
                    IF Reader!OpenReader(f) THEN g[GlobalHeaderLen]
                    ELSE [error |-> TRUE, packets |-> 0]
  BY <1>1, <1>3, SummarizeWalks, Zenon
<1>5. Reader!OpenReader(f)
  <2>1. f[1].id = GlobalId
    BY <1>2 DEF Packed
  <2> QED
    BY <1>2, <2>1 DEF Reader!OpenReader
<1>6. PICK s : s = Reader!SummarizeReader(f) /\ s = g[h]
  BY <1>2, <1>4, <1>5
<1>7. RightFrom(g, f, h) /\ Boundary(f, h)
  BY <1>2, <1>4, WalkIsRight DEF Packed, Boundary
<1>8. /\ s.error => f[Len(f)].at # f[Len(f)].of
      /\ ~s.error => s.packets = Cardinality(CompleteFrom(f, h))
  BY <1>2, <1>6, <1>7 DEF RightFrom
<1>9. CompleteFrom(f, h) = {i \in DOMAIN f : f[i].at = f[i].of /\ f[i].id # GlobalId}
  <2>1. DOMAIN f = 1 .. n
    BY <1>1, <1>2
  <2>2. \A i \in 1 .. n : i \in h + 1 .. n <=> f[i].id # GlobalId
    BY <1>2 DEF Packed
  <2>3. \A i \in h + 1 .. n : i \in 1 .. n
    BY <1>2
  <2> QED
    BY <1>2, <2>1, <2>2, <2>3 DEF CompleteFrom
<1> QED
  BY <1>6, <1>8, <1>9
-----------------------------------------------------------------------------
(* A plain copy of the stream. *)

(* What was received, was read or is unread is a stream, and as much of it *)
(* as was received stays the beginning of one when the stream is closed.   *)
Came == received \o (Given \o queue)

RawInv ==
  /\ Raw /\ thread \notin {"leave", "exited"} => Rest(Came, FALSE, open)
  /\ Raw /\ received # <<>> => \E t \in Seq(Byte) : Rest(received \o t, FALSE, TRUE)
  /\ thread = "none" => received = <<>>

LEMMA RawQuiet ==
  ASSUME RawInv, UNCHANGED <<cfg, received, queue, open>>,
         thread' \notin {"leave", "exited"} =>
           thread \notin {"leave", "exited"} /\ (Raw => Given' = Given),
         thread' = "none" => thread = "none"
  PROVE  RawInv'
<1>1. Raw' <=> Raw
  BY DEF Raw
<1>2. Raw /\ thread' \notin {"leave", "exited"} => Came' = Came
  BY DEF Came
<1>3. Raw' /\ thread' \notin {"leave", "exited"} => Rest(Came', FALSE, open')
  BY <1>1, <1>2 DEF RawInv
<1>4. Raw' /\ received' # <<>> => \E t \in Seq(Byte) : Rest(received' \o t, FALSE, TRUE)
  BY <1>1 DEF RawInv
<1> QED
  BY <1>3, <1>4 DEF RawInv, Rest, Header

Joins(w, g, u, v) == w \o (g \o (u \o v)) = (w \o (g \o u)) \o v

LEMMA LongerJoins ==
  ASSUME NEW w \in Seq(Byte), NEW g \in Seq(Byte), NEW u \in Seq(Byte), NEW v \in Seq(Byte)
  PROVE  Joins(w, g, u, v)
<1>1. PICK a \in Seq(Byte) : a = g \o u
  BY ConcatProperties
<1>2. (g \o u) \o v = g \o (u \o v)
  BY Associative, SMTT(30)
<1>3. (w \o a) \o v = w \o (a \o v)
  BY Associative, SMTT(30)
<1> QED
  BY <1>1, <1>2, <1>3 DEF Joins

LEMMA StorePacketRaw ==
  ASSUME ThreadInv, RawInv, NEW id \in Ids, NEW inclLen \in 0 .. snaplen,
         StorePacket(id, inclLen)
  PROVE  RawInv'
<1>1. Shapes
  BY DEF ThreadInv
<1>2. PICK of, c : of = RecordHeaderLen + inclLen /\ c = Stream!Chunk(id, of)
  OBVIOUS
<1>3. of \in Nat \ {0} /\ of \in Sizes
  BY <1>1, <1>2, ThreadAssumption, SMTT(30) DEF Shapes, Sizes
<1>4. PICK v \in Seq(Byte) : v = c
  BY <1>2, <1>3, ChunkProperties DEF Names
<1>5. PICK u \in Seq(Byte), g \in Seq(Byte), w \in Seq(Byte) :
        u = queue /\ g = Given /\ w = received
  BY <1>1, UnseenBytes DEF Shapes
<1>6. PICK q \in Seq(Byte) : q = u \o v
  BY ConcatProperties
<1>7. /\ open /\ open' = open /\ queue' = Drop(q, 0)
      /\ UNCHANGED <<cfg, read, thread, received>>
  BY <1>2, <1>4, <1>5, <1>6 DEF StorePacket, Stream!Store, Stream!TakeFrom, Drop
<1>8. queue' = q
  BY <1>7, DropNothing
<1>9. Given' = g /\ (Raw' <=> Raw)
  BY <1>5, <1>7 DEF Given, Raw
<1>10. Joins(w, g, u, v)
  BY LongerJoins
<1>13. Came' = Came \o v
  BY <1>5, <1>6, <1>7, <1>8, <1>9, <1>10, Zenon DEF Came, Joins
<1>14. Raw' /\ thread' \notin {"leave", "exited"} => Rest(Came', FALSE, TRUE)
  <2>1. SUFFICES ASSUME Raw, thread \notin {"leave", "exited"}
                 PROVE  Rest(Came', FALSE, TRUE)
    BY <1>7, <1>9
  <2>2. open = TRUE
    BY <1>1, <1>7 DEF Shapes
  <2>3. Rest(Came, FALSE, TRUE)
    BY <2>1, <2>2 DEF RawInv
  <2>4. Rest(Came \o c, FALSE, TRUE)
    BY <1>2, <1>3, <2>3, RestStore
  <2> QED
    BY <1>4, <1>13, <2>4
<1>15. open' = TRUE
  BY <1>1, <1>7 DEF Shapes
<1> QED
  BY <1>7, <1>9, <1>14, <1>15 DEF RawInv, Rest, Header

LEMMA ReadCompletesRaw ==
  ASSUME ThreadInv, RawInv, NEW n \in 1 .. Len(queue), ReadCompletes(n)
  PROVE  RawInv'
<1>1. Shapes /\ queue \in Seq(Byte) /\ n \in 0 .. Len(queue)
  BY DEF ThreadInv, Shapes
<1>2. PICK f, d : f = SubSeq(queue, 1, n) /\ d = Drop(queue, n)
  OBVIOUS
<1>3. f \in Seq(Byte) /\ d \in Seq(Byte) /\ f \o d = queue
  BY <1>1, <1>2, Split, FirstProperties, DropProperties
<1>4. /\ read.at = "issued" /\ open' = open
      /\ queue' = d /\ read' = [at |-> "done", bytes |-> f]
      /\ UNCHANGED <<cfg, thread, received>>
  BY <1>2 DEF ReadCompletes, Stream!Read, Stream!TakeFrom, Drop
<1>5. thread \notin {"none", "begin", "parse", "reread"} /\ read.bytes = <<>>
  BY <1>4 DEF ThreadInv, Progress
<1>6. Given' = f /\ Given = <<>> /\ (Raw' <=> Raw)
  BY <1>4, <1>5 DEF Given, Raw
<1>7. Given' \o queue' = queue /\ Given \o queue = queue
  BY <1>1, <1>3, <1>4, <1>6, ConcatEmptySeq
<1>8. Came' = Came
  BY <1>4, <1>7 DEF Came
<1> QED
  BY <1>4, <1>6, <1>8 DEF RawInv, Rest, Header

LEMMA process_data_rawRaw ==
  ASSUME ThreadInv, RawInv, process_data_raw
  PROVE  RawInv'
<1>1. /\ thread = "wait" /\ read.at = "done" /\ Raw
      /\ received' = received \o read.bytes /\ thread' = "reread"
      /\ UNCHANGED <<open, queue, cfg, read>>
  BY DEF process_data_raw, streamVars
<1>2. Shapes
  BY DEF ThreadInv
<1>3. PICK u \in Seq(Byte), g \in Seq(Byte), w \in Seq(Byte) :
        u = queue /\ g = read.bytes /\ w = received
  BY <1>2, UnseenBytes DEF Shapes
<1>4. Given = g /\ Given' = <<>>
  BY <1>1, <1>3 DEF Given
<1>5. (w \o g) \o u = w \o (g \o u)
  BY BytesAssociate, Zenon DEF Associate
<1>6. <<>> \o u = u
  BY NothingAdded
<1>7. Given' \o queue' = u
  BY <1>1, <1>3, <1>4, <1>6
<1>8. Came' = Came
  BY <1>1, <1>3, <1>4, <1>5, <1>7 DEF Came
<1>9. Rest(Came, FALSE, open)
  BY <1>1 DEF RawInv
<1>10. received' # <<>> => \E t \in Seq(Byte) : Rest(received' \o t, FALSE, TRUE)
  <2>1. SUFFICES ASSUME received' # <<>>
                 PROVE  Rest((w \o g) \o u, FALSE, TRUE)
    BY <1>1, <1>3
  <2>2. (w \o g) \o u = Came
    BY <1>3, <1>4, <1>5 DEF Came
  <2>3. open
    <3>1. SUFFICES ASSUME ~open PROVE FALSE
      OBVIOUS
    <3>2. (w \o g) \o u = <<>>
      BY <1>9, <2>2, <3>1 DEF Rest
    <3>3. PICK v \in Seq(Byte) : v = w \o g
      BY ConcatProperties
    <3>4. Len(v \o u) = Len(v) + Len(u)
      BY ConcatProperties
    <3>5. Len(v) = 0
      BY <3>2, <3>3, <3>4
    <3> QED
      BY <1>1, <1>3, <2>1, <3>3, <3>5
  <2>4. open = TRUE
    BY <1>2, <2>3 DEF Shapes
  <2> QED
    BY <1>9, <2>2, <2>4
<1>11. Rest(Came', FALSE, open')
  BY <1>1, <1>8, <1>9
<1> QED
  BY <1>1, <1>10, <1>11 DEF RawInv, Rest, Header

LEMMA start_captureRaw ==
  ASSUME ThreadInv, RawInv, start_capture
  PROVE  RawInv'
<1>1. /\ thread = "none" /\ queue = <<>> /\ ~open /\ read.bytes = <<>>
  BY DEF ThreadInv, Progress, start_capture
<1>2. UNCHANGED <<cfg, read, received>>
  BY DEF start_capture
<1>3. received = <<>> /\ received' = <<>> /\ Given' = <<>>
  BY <1>1, <1>2 DEF RawInv, Given
<1>4. \/ queue' = Header /\ open' = TRUE
      \/ queue' = <<>> /\ open' = FALSE
  <2>1. PICK reads \in BOOLEAN :
          IF reads THEN snaplen' = Snaplen /\ Stream!Open
                   ELSE UNCHANGED <<open, queue, last, snaplen>>
    BY DEF start_capture
  <2>2. open = FALSE
    BY <1>1 DEF ThreadInv, Shapes
  <2>3. CASE reads
    BY <2>1, <2>3 DEF Stream!Open, Header
  <2>4. CASE ~reads
    BY <1>1, <2>1, <2>2, <2>4
  <2> QED
    BY <2>3, <2>4
<1>5. queue' \in Seq(Byte)
  <2>1. <<>> \in Seq(Byte)
    OBVIOUS
  <2> QED
    BY <1>4, <2>1, HeaderProperties
<1>6. Came' = queue'
  <2>1. <<>> \o queue' = queue'
    BY <1>5, NothingAdded
  <2> QED
    BY <1>3, <2>1 DEF Came
<1>7. Rest(queue', FALSE, open')
  <2>1. Header \o <<>> = Header /\ <<>> \in Seq(Byte)
    BY HeaderProperties, ConcatEmptySeq
  <2> QED
    BY <1>4, <2>1, NoRecords DEF Rest
<1> QED
  BY <1>3, <1>6, <1>7 DEF RawInv, Rest, Header

LEMMA CloseHandlesRaw ==
  ASSUME ThreadInv, RawInv, CloseHandles
  PROVE  RawInv'
<1>1. UNCHANGED <<cfg, read, thread, received>> /\ thread \in {"none", "exited"}
  BY DEF CloseHandles
<1>2. Given' = Given
  BY <1>1 DEF Given
<1>3. CASE data.read_handle
  <2>1. queue' = <<>> /\ open' = FALSE
    BY <1>3 DEF CloseHandles, Stream!Close
  <2>2. ASSUME thread = "none"
        PROVE  Rest(Came', FALSE, FALSE)
    <3>1. received' = <<>> /\ Given' = <<>>
      BY <1>1, <2>2 DEF RawInv, ThreadInv, Progress, Given
    <3>2. <<>> \in Seq(Byte) /\ <<>> \o <<>> = <<>>
      BY ConcatEmptySeq
    <3>3. Came' = <<>>
      BY <2>1, <3>1, <3>2, Zenon DEF Came
    <3> QED
      BY <3>2, <3>3, NoRecords DEF Rest
  <2> QED
    BY <1>1, <2>1, <2>2 DEF RawInv, Rest, Header, Raw
<1>4. CASE ~data.read_handle
  <2>1. UNCHANGED <<open, queue>>
    BY <1>4 DEF CloseHandles
  <2> QED
    BY <1>1, <1>2, <2>1, RawQuiet
<1> QED
  BY <1>3, <1>4

LEMMA RawInit == Init => RawInv
<1>1. SUFFICES ASSUME Init PROVE RawInv
  OBVIOUS
<1>2. open = FALSE /\ queue = <<>> /\ received = <<>> /\ Given = <<>>
  BY <1>1 DEF Init, Stream!Init, Given
<1>3. <<>> \in Seq(Byte) /\ <<>> \o <<>> = <<>>
  BY ConcatEmptySeq
<1>4. Came = <<>>
  BY <1>2, <1>3, Zenon DEF Came
<1>5. Rest(<<>>, FALSE, FALSE)
  BY <1>3, NoRecords DEF Rest
<1> QED
  BY <1>2, <1>4, <1>5 DEF RawInv

LEMMA RawNext == ASSUME ThreadInv, RawInv, [Next]_vars  PROVE RawInv'
<1>1. CASE UNCHANGED vars
  <2>1. UNCHANGED <<cfg, received, queue, open, thread, read>>
    BY <1>1 DEF vars, streamVars
  <2> QED
    BY <2>1, RawQuiet DEF Given
<1>2. CASE \E id \in Ids, inclLen \in 0 .. snaplen : StorePacket(id, inclLen)
  BY <1>2, StorePacketRaw
<1>3. CASE \E n \in 1 .. Len(queue) : ReadCompletes(n)
  BY <1>3, ReadCompletesRaw
<1>4. CASE ReadFails \/ PipeConnected \/ BeginThread \/ ReadAgain
  <2>1. UNCHANGED <<cfg, received, queue, open>>
    BY <1>4 DEF ReadFails, PipeConnected, BeginThread, ReadAgain, streamVars
  <2>2. read \in Reads
    BY DEF ThreadInv, Shapes
  <2>3. thread \notin {"leave", "exited"} \/ thread' = thread
    BY <1>4 DEF ReadFails, PipeConnected, BeginThread, ReadAgain
  <2>4. thread' = "none" => thread = "none"
    BY <1>4 DEF ReadFails, PipeConnected, BeginThread, ReadAgain
  <2>5. Given' = Given
    BY <1>4, <2>2 DEF ReadFails, PipeConnected, BeginThread, ReadAgain, Given,
                     Reads, ThreadInv, Progress
  <2> QED
    BY <2>1, <2>3, <2>4, <2>5, RawQuiet
<1>5. CASE CheckProcess \/ StopThread \/ ParseStopped \/ LeaveThread
  <2>1. UNCHANGED <<cfg, received, queue, open>>
    BY <1>5 DEF CheckProcess, StopThread, ParseStopped, LeaveThread, streamVars
  <2>2. /\ thread' \notin {"leave", "exited"} =>
             thread \notin {"leave", "exited"} /\ Given' = Given
        /\ thread' # "none"
    BY <1>5 DEF CheckProcess, StopThread, ParseStopped, LeaveThread, Given
  <2> QED
    BY <2>1, <2>2, RawQuiet
<1>6. CASE process_data_raw
  BY <1>6, process_data_rawRaw
<1>7. CASE process_data \/ ParseRecord
  <2>1. ~Raw /\ ~Raw' /\ thread' # "none"
    BY <1>7 DEF process_data, ParseRecord, ThreadInv, Progress, Raw
  <2> QED
    BY <2>1 DEF RawInv
<1>8. CASE \/ RejectCapture \/ RejectWorker \/ wait_for_exit_signal \/ SetExitEvent
           \/ Report \/ WorkerCreates \/ WorkerEnds
  <2>1. UNCHANGED <<cfg, received, queue, open, thread, read>>
    BY <1>8 DEF RejectCapture, RejectWorker, GiveUp, wait_for_exit_signal, SetExitEvent,
       Report, WorkerCreates, WorkerEnds, streamVars
  <2> QED
    BY <2>1, RawQuiet DEF Given
<1>9. CASE start_capture
  BY <1>9, start_captureRaw
<1>10. CASE CloseHandles
  BY <1>10, CloseHandlesRaw
<1> QED
  BY <1>1, <1>2, <1>3, <1>4, <1>5, <1>6, <1>7, <1>8, <1>9, <1>10 DEF Next, ThreadStep

LEMMA RawInvariant == Spec => [](ThreadInv /\ OutputInv /\ RawInv)
<1>1. Init => RawInv
  BY RawInit
<1>2. ThreadInv /\ RawInv /\ [Next]_vars => RawInv'
  BY RawNext
<1> QED
  BY <1>1, <1>2, OutputInvariant, PTL DEF Spec
-----------------------------------------------------------------------------
(* The output is a pcap file. *)

(* Two pieces fit together where one chunk ends and another begins.        *)
LEMMA AlignedConcat ==
  ASSUME NEW s \in Seq(Byte), NEW t \in Seq(Byte), Aligned(s), Ended(s), Aligned(t), Begun(t)
  PROVE  Aligned(s \o t)
<1>1. PICK c, n, m : c = s \o t /\ n = Len(s) /\ m = Len(t)
  OBVIOUS
<1>2. n \in Nat /\ m \in Nat
  BY <1>1
<1>3. /\ c \in Seq(Byte) /\ Len(c) = n + m
      /\ \A i \in 1 .. n + m : c[i] = IF i <= n THEN s[i] ELSE t[i - n]
  BY <1>1, ConcatProperties
<1>4. /\ \A i \in 1 .. n : c[i] = s[i]
      /\ \A i \in 1 .. m : c[n + i] = t[i]
  <2>1. \A i \in 1 .. n : i \in 1 .. n + m /\ i <= n
    BY <1>2
  <2>2. \A i \in 1 .. m : n + i \in 1 .. n + m /\ ~(n + i <= n) /\ (n + i) - n = i
    BY <1>2
  <2> QED
    BY <1>3, <2>1, <2>2
<1>5. /\ \A i \in 1 .. n : s[i].at \in Nat /\ s[i].of \in Nat
      /\ \A i \in 1 .. m : t[i].at \in Nat /\ t[i].of \in Nat
  BY <1>1, ByteFields
<1>6. ASSUME NEW k \in 1 .. n
      PROVE  k - s[k].at + s[k].of <= n
  <2>1. SUFFICES ASSUME k - s[k].at + s[k].of > n PROVE FALSE
    BY <1>2, <1>5
  <2>2. PICK at \in Nat, of \in Nat : at = s[k].at /\ of = s[k].of
    BY <1>5
  <2>3. n \in 1 .. n /\ s # <<>>
    BY <1>1, <1>2
  <2>4. s[n].at = s[n].of
    BY <1>1, <2>3 DEF Ended
  <2>5. 1 <= at /\ k - at < n
    BY <1>1, <1>2, <2>2 DEF Aligned
  <2>7. n <= k - at + of
    BY <1>2, <2>1, <2>2, SMTT(30)
  <2>6. s[n].of = of /\ s[n].at = n - (k - at)
    BY <1>1, <2>2, <2>3, <2>5, <2>7 DEF Aligned
  <2> QED
    BY <1>2, <2>1, <2>2, <2>4, <2>6, SMTT(30)
<1>7. ASSUME NEW k \in 1 .. m
      PROVE  k - t[k].at >= 0
  <2>1. SUFFICES ASSUME k - t[k].at < 0 PROVE FALSE
    BY <1>2, <1>5
  <2>2. PICK at \in Nat, of \in Nat : at = t[k].at /\ of = t[k].of
    BY <1>5
  <2>3. 1 \in 1 .. m /\ t # <<>>
    BY <1>1, <1>2
  <2>4. t[1].at = 1
    BY <2>3 DEF Begun
  <2>5. at <= of
    BY <1>1, <2>2 DEF Aligned
  <2>6. k - at < 1 /\ 1 <= k - at + of
    BY <1>2, <2>1, <2>2, <2>5
  <2>7. t[1].at = 1 - (k - at)
    BY <1>1, <2>2, <2>3, <2>6 DEF Aligned
  <2> QED
    BY <1>2, <2>1, <2>2, <2>4, <2>7
<1>8. SUFFICES ASSUME NEW k \in 1 .. n + m, NEW j \in 1 .. n + m
               PROVE  /\ 1 <= c[k].at /\ c[k].at <= c[k].of
                      /\ k - c[k].at < j /\ j <= k - c[k].at + c[k].of =>
                           /\ c[j].id = c[k].id /\ c[j].of = c[k].of
                           /\ c[j].at = j - (k - c[k].at)
  BY <1>1, <1>3, SMTT(30) DEF Aligned
<1>9. CASE k <= n
  <2>1. k \in 1 .. n
    BY <1>2, <1>9
  <2>2. PICK at \in Nat, of \in Nat : at = s[k].at /\ of = s[k].of
    BY <1>5, <2>1
  <2>3. c[k] = s[k] /\ 1 <= at /\ at <= of
    BY <1>1, <1>4, <2>1, <2>2 DEF Aligned
  <2>4. ASSUME k - at < j, j <= k - at + of
        PROVE  c[j].id = c[k].id /\ c[j].of = of /\ c[j].at = j - (k - at)
    <3>1. j \in 1 .. n
      BY <1>2, <1>6, <2>1, <2>2, <2>4, SMTT(30)
    <3>2. s[j].id = s[k].id /\ s[j].of = of /\ s[j].at = j - (k - at)
      BY <1>1, <2>1, <2>2, <2>4, <3>1 DEF Aligned
    <3> QED
      BY <1>4, <2>3, <3>1, <3>2
  <2> QED
    BY <2>2, <2>3, <2>4
<1>10. CASE k > n
  <2>1. PICK i \in 1 .. m : k = n + i
    <3>1. k - n \in 1 .. m /\ k = n + (k - n)
      BY <1>2, <1>10
    <3> QED
      BY <3>1
  <2>2. PICK at \in Nat, of \in Nat : at = t[i].at /\ of = t[i].of
    BY <1>5
  <2>3. c[k] = t[i] /\ 1 <= at /\ at <= of
    BY <1>1, <1>4, <2>1, <2>2 DEF Aligned
  <2>4. ASSUME k - at < j, j <= k - at + of
        PROVE  c[j].id = c[k].id /\ c[j].of = of /\ c[j].at = j - (k - at)
    <3>1. i - at >= 0
      BY <1>7, <2>2
    <3>2. PICK l \in 1 .. m : j = n + l
      <4>1. j - n \in 1 .. m /\ j = n + (j - n)
        BY <1>2, <2>1, <2>2, <2>4, <3>1
      <4> QED
        BY <4>1
    <3>3. i - at < l /\ l <= i - at + of
      <4>1. n \in Int /\ i \in Int /\ l \in Int /\ at \in Int /\ of \in Int
        BY <1>2
      <4>2. (n + i) - at < n + l /\ n + l <= (n + i) - at + of
        BY <2>1, <2>4, <3>2
      <4> QED
        BY <4>1, <4>2
    <3>4. t[l].id = t[i].id /\ t[l].of = of /\ t[l].at = l - (i - at)
      BY <1>1, <2>2, <3>2, <3>3 DEF Aligned
    <3>5. c[j] = t[l]
      BY <1>4, <3>2
    <3>6. l - (i - at) = j - (k - at)
      BY <1>2, <2>1, <2>2, <3>2
    <3> QED
      BY <2>3, <3>4, <3>5, <3>6
  <2> QED
    BY <2>2, <2>3, <2>4
<1> QED
  BY <1>2, <1>9, <1>10

LEMMA ChunkAligned ==
  ASSUME NEW id \in Names, NEW of \in Nat \ {0}, NEW c, c = Stream!Chunk(id, of)
  PROVE  Aligned(c) /\ Begun(c)
<1>1. /\ c \in Seq(Byte) /\ Len(c) = of /\ c # <<>>
      /\ \A i \in 1 .. of : c[i].id = id /\ c[i].at = i /\ c[i].of = of
  BY ChunkProperties
<1>2. 1 \in 1 .. of
  OBVIOUS
<1> QED
  BY <1>1, <1>2 DEF Aligned, Begun

(* Records and descriptors, the last of them perhaps not complete.         *)
Body(t) ==
  /\ t \in Seq(Byte) /\ Aligned(t) /\ Begun(t)
  /\ \A k \in 1 .. Len(t) :
       /\ t[k].id # GlobalId
       /\ RecordHeaderLen <= t[k].of /\ t[k].of <= RecordHeaderLen + MaxRecordSize

LEMMA PrefixBody ==
  ASSUME NEW r, Records(r), NEW m \in 0 .. Len(r), NEW p, p = SubSeq(r, 1, m)
  PROVE  Body(p)
<1>1. r \in Seq(Byte)
  BY DEF Records
<1>2. p \in Seq(Byte) /\ Len(p) = m /\ \A i \in 1 .. m : p[i] = r[i]
  BY <1>1, FirstProperties
<1>3. m \in Nat /\ \A i \in 1 .. m : i \in 1 .. Len(r)
  BY <1>1
<1>4. Aligned(p)
  <2>1. SUFFICES ASSUME NEW k \in 1 .. m, NEW j \in 1 .. m
                 PROVE  /\ 1 <= p[k].at /\ p[k].at <= p[k].of
                        /\ k - p[k].at < j /\ j <= k - p[k].at + p[k].of =>
                             /\ p[j].id = p[k].id /\ p[j].of = p[k].of
                             /\ p[j].at = j - (k - p[k].at)
    BY <1>2 DEF Aligned
  <2>2. k \in 1 .. Len(r) /\ j \in 1 .. Len(r) /\ p[k] = r[k] /\ p[j] = r[j]
    BY <1>2, <1>3
  <2> QED
    BY <2>2 DEF Records, Aligned
<1>5. Begun(p)
  <2>1. SUFFICES ASSUME p # <<>> PROVE p[1].at = 1
    BY DEF Begun
  <2>2. 1 \in 1 .. m
    BY <1>2, <1>3, <2>1
  <2>3. r # <<>> /\ p[1] = r[1]
    BY <1>1, <1>2, <1>3, <2>2
  <2> QED
    BY <2>3 DEF Records, Begun
<1>6. ASSUME NEW k \in 1 .. Len(p)
      PROVE  /\ p[k].id # GlobalId
             /\ RecordHeaderLen <= p[k].of /\ p[k].of <= RecordHeaderLen + MaxRecordSize
  <2>1. k \in 1 .. Len(r) /\ p[k] = r[k]
    BY <1>2, <1>3
  <2>2. p[k].id \in Ids /\ p[k].of \in Sizes
    BY <2>1 DEF Records
  <2>3. GlobalId \notin Ids
    BY ThreadAssumption
  <2>4. PICK of \in Nat : of = p[k].of /\ RecordHeaderLen <= of /\ of <= RecordHeaderLen + Snaplen
    BY <2>2 DEF Sizes
  <2>5. of <= RecordHeaderLen + MaxRecordSize
    BY <2>4, ThreadAssumption
  <2> QED
    BY <2>2, <2>3, <2>4, <2>5
<1> QED
  BY <1>2, <1>4, <1>5, <1>6 DEF Body

LEMMA NamesDiffer == GlobalId # DescId
<1>1. SUFFICES ASSUME GlobalId = DescId PROVE FALSE
  OBVIOUS
<1>2. {GlobalId, DescId, NoId} = {GlobalId} \cup {NoId}
  BY <1>1
<1>3. IsFiniteSet({GlobalId}) /\ Cardinality({GlobalId}) = 1
  BY FS_Singleton
<1>4. Cardinality({GlobalId} \cup {NoId}) =
        IF NoId \in {GlobalId} THEN Cardinality({GlobalId}) ELSE Cardinality({GlobalId}) + 1
  BY <1>3, FS_AddElement
<1>5. Cardinality({GlobalId, DescId, NoId}) = 3
  BY ThreadAssumption
<1> QED
  BY <1>2, <1>3, <1>4, <1>5

LEMMA InjectedBody ==
  ASSUME NEW p, Body(p)
  PROVE  Body(Descriptors \o p)
<1>1. p \in Seq(Byte)
  BY DEF Body
<1>2. CASE ~cfg.inject
  <2>1. <<>> \o p = p
    BY <1>1, NothingAdded
  <2> QED
    BY <1>2, <2>1, Zenon DEF Descriptors
<1>3. CASE cfg.inject
  <2>1. PICK c : c = Stream!Chunk(DescId, RecordHeaderLen)
    OBVIOUS
  <2>2. Descriptors = c
    BY <1>3, <2>1 DEF Descriptors
  <2>3. DescId \in Names /\ RecordHeaderLen \in Nat \ {0} /\ MaxRecordSize \in Nat
    BY ThreadAssumption DEF Names
  <2>4. PICK n \in Nat \ {0}, mx \in Nat : n = RecordHeaderLen /\ mx = MaxRecordSize
    BY <2>3
  <2>5. /\ c \in Seq(Byte) /\ Len(c) = n /\ c # <<>>
        /\ \A i \in 1 .. n : c[i].id = DescId /\ c[i].at = i /\ c[i].of = n
    BY <2>1, <2>3, <2>4, ChunkProperties
  <2>6. Aligned(c) /\ Begun(c) /\ Ended(c)
    BY <2>1, <2>3, ChunkAligned, ChunkEnded
  <2>7. PICK t : t = c \o p
    OBVIOUS
  <2>8. /\ t \in Seq(Byte) /\ Len(t) = Len(c) + Len(p)
        /\ \A i \in 1 .. Len(c) + Len(p) : t[i] = IF i <= Len(c) THEN c[i] ELSE p[i - Len(c)]
    BY <1>1, <2>5, <2>7, ConcatProperties
  <2>9. Aligned(t)
    BY <1>1, <2>5, <2>6, <2>7, AlignedConcat DEF Body
  <2>10. t[1] = c[1] /\ t[1].at = 1
    BY <1>1, <2>5, <2>8
  <2>11. ASSUME NEW k \in 1 .. Len(t)
         PROVE  t[k].id # GlobalId /\ n <= t[k].of /\ t[k].of <= n + mx
    <3>1. CASE k <= n
      <4>1. k \in 1 .. n /\ t[k] = c[k]
        BY <1>1, <2>5, <2>8, <3>1
      <4>2. t[k].id = DescId /\ t[k].of = n
        BY <2>5, <4>1
      <4> QED
        BY <4>2, NamesDiffer
    <3>2. CASE k > n
      <4>1. PICK l \in 1 .. Len(p) : t[k] = p[l]
        <5>1. k - n \in 1 .. Len(p) /\ t[k] = p[k - n]
          BY <1>1, <2>5, <2>8, <3>2
        <5> QED
          BY <5>1
      <4> QED
        BY <2>4, <4>1 DEF Body
    <3> QED
      BY <1>1, <2>8, <3>1, <3>2
  <2> QED
    BY <2>2, <2>4, <2>7, <2>8, <2>9, <2>10, <2>11 DEF Body, Begun
<1> QED
  BY <1>2, <1>3

LEMMA PackedBody ==
  ASSUME NEW t, Body(t)
  PROVE  Packed(Header \o t)
<1>1. t \in Seq(Byte)
  BY DEF Body
<1>2. GlobalId \in Names /\ GlobalHeaderLen \in Nat \ {0}
  BY ThreadAssumption DEF Names
<1>3. PICK g \in Nat \ {0} : g = GlobalHeaderLen
  BY <1>2
<1>4. PICK h : h = Header
  OBVIOUS
<1>5. h \in Seq(Byte) /\ Len(h) = g /\ Ended(h) /\ \A i \in 1 .. g : h[i].id = GlobalId
  BY <1>3, <1>4, HeaderProperties
<1>6. Aligned(h)
  BY <1>2, <1>4, ChunkAligned DEF Header
<1>7. PICK f : f = h \o t
  OBVIOUS
<1>8. /\ f \in Seq(Byte) /\ Len(f) = Len(h) + Len(t)
      /\ \A i \in 1 .. Len(h) + Len(t) : f[i] = IF i <= Len(h) THEN h[i] ELSE t[i - Len(h)]
  BY <1>1, <1>5, <1>7, ConcatProperties
<1>9. Aligned(f)
  BY <1>1, <1>5, <1>6, <1>7, AlignedConcat DEF Body
<1>10. g <= Len(f) /\ \A i \in 1 .. g : f[i].id = GlobalId
  BY <1>1, <1>5, <1>8
<1>11. ASSUME NEW i \in g + 1 .. Len(f)
       PROVE  /\ f[i].id # GlobalId
              /\ RecordHeaderLen <= f[i].of /\ f[i].of <= RecordHeaderLen + MaxRecordSize
  <2>1. PICK l \in 1 .. Len(t) : f[i] = t[l]
    <3>1. i - g \in 1 .. Len(t) /\ f[i] = t[i - g]
      BY <1>1, <1>5, <1>8
    <3> QED
      BY <3>1
  <2> QED
    BY <2>1 DEF Body
<1>12. g < Len(f) => f[g + 1].at = 1
  <2>1. SUFFICES ASSUME g < Len(f) PROVE f[g + 1].at = 1
    OBVIOUS
  <2>2. t # <<>> /\ f[g + 1] = t[1]
    BY <1>1, <1>5, <1>8, <2>1
  <2> QED
    BY <2>2 DEF Body, Begun
<1> QED
  BY <1>3, <1>4, <1>7, <1>8, <1>9, <1>10, <1>11, <1>12 DEF Packed

(* A stream, or as much of it as has come, with the descriptors.           *)
LEMMA InjectedPacked ==
  ASSUME NEW p, Body(p)
  PROVE  Packed(Injected(Header \o p))
<1>1. PICK q \in Seq(Byte), h \in Seq(Byte), d \in Seq(Byte) :
        q = p /\ h = Header /\ d = Descriptors
  BY HeaderProperties, DescriptorsProperties DEF Body
<1>2. Len(h) >= GlobalHeaderLen
  BY <1>1, HeaderProperties, ThreadAssumption
<1>3. Injected(h \o q) = Injected(h) \o q
  BY <1>2, InjectedConcat
<1>4. Injected(h) = h \o d
  BY <1>1, InjectedHeader
<1>5. (h \o d) \o q = h \o (d \o q)
  BY Associative
<1>6. Packed(Header \o (Descriptors \o p))
  BY InjectedBody, PackedBody
<1> QED
  BY <1>1, <1>3, <1>4, <1>5, <1>6

(* The beginning of a stream, if it has all of the global header.          *)
LEMMA StreamBeginning ==
  ASSUME NEW w \in Seq(Byte), NEW t \in Seq(Byte), Rest(w \o t, FALSE, TRUE),
         Len(w) >= GlobalHeaderLen
  PROVE  \E p : Body(p) /\ w = Header \o p
<1>1. PICK r \in Seq(Byte) : Records(r) /\ w \o t = Header \o r
  BY DEF Rest
<1>2. PICK h, c, n, g : h = Header /\ c = w \o t /\ n = Len(w) /\ g = GlobalHeaderLen
  OBVIOUS
<1>3. /\ h \in Seq(Byte) /\ Len(h) = g /\ n \in Nat /\ g \in Nat /\ n >= g
      /\ c = h \o r
  BY <1>1, <1>2, HeaderProperties, ThreadAssumption
<1>4. /\ c \in Seq(Byte) /\ Len(c) = n + Len(t)
      /\ \A i \in 1 .. n + Len(t) : c[i] = IF i <= n THEN w[i] ELSE t[i - n]
  BY <1>2, ConcatProperties
<1>5. /\ Len(c) = g + Len(r)
      /\ \A i \in 1 .. g + Len(r) : c[i] = IF i <= g THEN h[i] ELSE r[i - g]
  BY <1>3, ConcatProperties
<1>6. PICK m \in 0 .. Len(r) : m = n - g
  <2>1. n - g \in 0 .. Len(r)
    BY <1>3, <1>4, <1>5
  <2> QED
    BY <2>1
<1>7. PICK p : p = SubSeq(r, 1, m)
  OBVIOUS
<1>8. p \in Seq(Byte) /\ Len(p) = m /\ \A i \in 1 .. m : p[i] = r[i]
  BY <1>7, FirstProperties
<1>9. PICK v : v = h \o p
  OBVIOUS
<1>10. /\ v \in Seq(Byte) /\ Len(v) = g + m
       /\ \A i \in 1 .. g + m : v[i] = IF i <= g THEN h[i] ELSE p[i - g]
  BY <1>3, <1>8, <1>9, ConcatProperties, ZenonT(60)
<1>11. Len(v) = n /\ m \in Nat
  BY <1>3, <1>6, <1>10
<1>12. ASSUME NEW i \in 1 .. n
       PROVE  v[i] = w[i]
  <2>1. i \in 1 .. n + Len(t) /\ i \in 1 .. g + Len(r) /\ i \in 1 .. g + m
    BY <1>3, <1>4, <1>5, <1>6
  <2>2. c[i] = w[i]
    BY <1>4, <2>1
  <2>3. CASE i <= g
    BY <1>5, <1>10, <2>1, <2>2, <2>3
  <2>4. CASE i > g
    <3>1. i - g \in 1 .. m /\ ~(i <= g)
      BY <1>3, <1>6, <2>4
    <3> QED
      BY <1>5, <1>8, <1>10, <2>1, <2>2, <3>1
  <2> QED
    BY <1>3, <2>3, <2>4
<1>13. v = w
  BY <1>2, <1>10, <1>11, <1>12, SeqEqual
<1>14. Body(p)
  BY <1>1, <1>7, PrefixBody
<1> QED
  BY <1>2, <1>9, <1>13, <1>14

LEMMA FilePacked ==
  ASSUME ThreadInv, OutputInv, RawInv, ~broken, file # <<>>
  PROVE  Packed(file)
<1>1. PICK w \in Seq(Byte) :
        /\ Wanted(received) = w \o Wanted(Held)
        /\ file = Injected(w)
        /\ Started => Len(w) >= GlobalHeaderLen /\ (~Raw => Rest(w, FALSE, TRUE))
        /\ ~Started => w = <<>>
  BY Zenon DEF OutputInv, Output
<1>2. Started
  BY <1>1 DEF Injected
<1>3. w \o <<>> = w
  BY NothingAdded
<1>4. \E t \in Seq(Byte) : Rest(w \o t, FALSE, TRUE)
  <2>1. <<>> \in Seq(Byte)
    OBVIOUS
  <2>2. CASE ~Raw
    BY <1>1, <1>2, <1>3, <2>1, <2>2
  <2>3. CASE Raw
    <3>1. Len(parser.buf) = GlobalHeaderLen /\ GlobalHeaderLen \in Nat
      BY <1>2, <2>3, ThreadAssumption DEF Started
    <3>2. ~(Len(parser.buf) < GlobalHeaderLen)
      BY <3>1
    <3>3. Held = <<>>
      BY <2>3, <3>2, Zenon DEF Held
    <3>4. Wanted(Held) = <<>>
      BY <3>3, WantedEmpty
    <3>5. received \in Seq(Byte)
      BY DEF ThreadInv, Shapes
    <3>6. Wanted(received) = received
      BY <2>3, <3>5, WantedRaw
    <3>7. w = received
      BY <1>1, <1>3, <3>4, <3>6
    <3>8. w # <<>>
      <4>1. Len(w) >= GlobalHeaderLen /\ GlobalHeaderLen \in Nat \ {0}
        BY <1>1, <1>2, ThreadAssumption
      <4> QED
        BY <4>1
    <3> QED
      BY <2>3, <3>7, <3>8 DEF RawInv
  <2> QED
    BY <2>2, <2>3
<1>5. PICK p : Body(p) /\ w = Header \o p
  BY <1>1, <1>2, <1>4, StreamBeginning
<1> QED
  BY <1>1, <1>5, InjectedPacked

(* Whenever the service looks at the file, as long as no write failed, its *)
(* reader finds the global header and counts exactly the complete records  *)
(* behind it, the injected descriptors included, and refuses only a file   *)
(* whose last record is torn: OpenReader, Next and the walk over the       *)
(* records agree with what thread.c wrote, for every snaplen that the      *)
(* reader's limit admits.                                                  *)
THEOREM ReaderCountsRecords == Spec => []SummaryAgrees
<1>1. ThreadInv /\ OutputInv /\ RawInv => SummaryAgrees
  <2>1. SUFFICES ASSUME ThreadInv, OutputInv, RawInv, ~broken, file # <<>>
                 PROVE  LET s        == Reader!SummarizeReader(file)
                            complete == {i \in DOMAIN file : file[i].at = file[i].of
                                                              /\ file[i].id # GlobalId}
                        IN  IF s.error THEN file[Len(file)].at # file[Len(file)].of
                                       ELSE s.packets = Cardinality(complete)
    BY DEF SummaryAgrees
  <2>2. Packed(file)
    BY <2>1, FilePacked
  <2> QED
    BY <2>2, PackedSummary
<1> QED
  BY <1>1, RawInvariant, PTL
=============================================================================
