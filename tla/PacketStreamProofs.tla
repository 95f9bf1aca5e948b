------------------------- MODULE PacketStreamProofs -------------------------
(***************************************************************************)
(* Theorems about the ring buffer and about one direction of a connection, *)
(* for rings, reallocations, fields, heads, packets and wires of every     *)
(* size.                                                                   *)
(*                                                                         *)
(* Rings: each operation keeps the index invariant RingOK and acts on      *)
(* Content as a queue of bytes.  Streams: from that, the bytes between     *)
(* AddPacket and GetTcpPacket are always the frames of the packets sent    *)
(* and not yet received (StreamInv), provided that no frame wraps the      *)
(* 16-bit length field (NoWrap).                                           *)
(***************************************************************************)
EXTENDS PacketStream, SequenceTheorems, TLAPS

(***************************************************************************)
(* Rings.                                                                  *)
(***************************************************************************)
\* A ring object: the fields of NetworkBuffer, over bytes of a set B.
Rings(B) == [buf : UNION {[0 .. n - 1 -> B] : n \in Nat}, size : Nat,
             begin : Nat, end : Nat, data : Nat]
GoodRing(r, B) == r \in Rings(B) /\ RingOK(r) /\ r.buf \in [0 .. r.size - 1 -> B]

LEMMA RingFields ==
    ASSUME NEW B, NEW r, GoodRing(r, B)
    PROVE  /\ r.size \in Nat /\ r.size > 0 /\ r.data \in Nat /\ r.data <= r.size
           /\ r.begin \in Nat /\ r.begin < r.size /\ r.end \in Nat /\ r.end < r.size
           /\ r.buf \in [0 .. r.size - 1 -> B]
           /\ \A k \in 0 .. r.size - 1 : r.buf[k] \in B
BY DEF GoodRing, RingOK, Rings

\* The offset of the i-th byte past b, in an allocation of z bytes that wraps.
LEMMA WrapInside ==
    ASSUME NEW z \in Nat, NEW b \in Nat, b < z, NEW i \in Nat, i < z
    PROVE  /\ b + i < z => b + i \in 0 .. z - 1
           /\ ~(b + i < z) => i - (z - b) \in 0 .. z - 1
OBVIOUS

\* Moving the begin index by n bytes and then reading i more is reading n + i.
LEMMA WrapSum ==
    ASSUME NEW z \in Nat, NEW b \in Nat, b < z, NEW n \in Nat, n <= z,
           NEW i \in Nat, i > 0, i + n <= z,
           NEW c \in Int, c = IF b + n >= z THEN n - (z - b) ELSE b + n
    PROVE  (IF c + i - 1 < z THEN c + i - 1 ELSE c + i - 1 - z)
           = (IF b + (i + n) - 1 < z THEN b + (i + n) - 1 ELSE b + (i + n) - 1 - z)
<1>1. CASE b + n >= z
  BY <1>1
<1>2. CASE ~(b + n >= z)
  BY <1>2
<1> QED BY <1>1, <1>2

LEMMA ContentIsSeq ==
    ASSUME NEW B, NEW r, GoodRing(r, B)
    PROVE  Content(r) \in Seq(B) /\ Len(Content(r)) = r.data
<1>1. \A i \in 1 .. r.data :
          (IF r.begin + i - 1 < r.size THEN r.buf[r.begin + i - 1]
           ELSE r.buf[r.begin + i - 1 - r.size]) \in B
  <2>1. \A i \in 1 .. r.data :
            IF r.begin + i - 1 < r.size THEN r.begin + i - 1 \in 0 .. r.size - 1
            ELSE r.begin + i - 1 - r.size \in 0 .. r.size - 1
    BY RingFields
  <2> QED BY <2>1, RingFields
<1>2. Content(r) \in [1 .. r.data -> B]
  BY <1>1 DEF Content
<1> QED
  BY <1>2, RingFields

\* Buffer::ReAllocBuffer moves the bytes to the front of a larger allocation:
\* none is lost and none is added, also when the ring is full and the two
\* indices are equal.
THEOREM ReAllocKeepsContent ==
    ASSUME NEW B, NEW r, GoodRing(r, B), Junk \in B
    PROVE  /\ GoodRing(ReAllocBuffer(r), B)
           /\ Content(ReAllocBuffer(r)) = Content(r)
           /\ GetEmptySize(ReAllocBuffer(r)) = GetEmptySize(r) + Additional
<1> DEFINE s == ReAllocBuffer(r)
<1>a. /\ r.size \in Nat /\ r.size > 0 /\ r.data \in Nat /\ r.data <= r.size
      /\ r.begin \in Nat /\ r.begin < r.size /\ r.end \in Nat /\ r.end < r.size
      /\ r.buf \in [0 .. r.size - 1 -> B]
  BY RingFields
<1>b. r.end = IF r.begin + r.data < r.size THEN r.begin + r.data
              ELSE r.begin + r.data - r.size
  BY DEF GoodRing, RingOK
<1>c. Additional \in Nat /\ Additional > 0
  BY AdditionalAssumption
<1>1. s.size = r.size + Additional /\ s.begin = 0 /\ s.data = r.data
  BY DEF ReAllocBuffer, GoodRing, Rings
<1>2. s.end = r.data
  BY <1>a, <1>b DEF ReAllocBuffer, GoodRing, Rings
<1>3. s.buf = [i \in 0 .. r.size + Additional - 1 |->
                 IF i < r.data
                 THEN IF r.begin + i < r.size THEN r.buf[r.begin + i]
                      ELSE r.buf[i - (r.size - r.begin)]
                 ELSE Junk]
  <2> DEFINE kept == IF r.begin < r.end THEN r.end - r.begin
                     ELSE IF r.begin = r.end /\ r.data <= 0 THEN 0
                     ELSE r.size - r.begin + r.end
  <2>1. kept = r.data
    BY <1>a, <1>b
  <2>2. s.buf = [i \in 0 .. r.size + Additional - 1 |->
                   IF i < kept
                   THEN IF r.begin < r.end \/ r.begin + i < r.size
                        THEN r.buf[r.begin + i] ELSE r.buf[i - (r.size - r.begin)]
                   ELSE Junk]
    BY Zenon DEF ReAllocBuffer, GoodRing, Rings
  <2>3. \A i \in 0 .. r.size + Additional - 1 :
            i < r.data => ((r.begin < r.end \/ r.begin + i < r.size) <=> r.begin + i < r.size)
    BY <1>a, <1>b, <1>c
  <2> HIDE DEF kept, s
  <2> QED BY <2>1, <2>2, <2>3
<1>4. s \in [buf : {s.buf}, size : {s.size}, begin : {s.begin}, end : {s.end}, data : {s.data}]
  BY DEF ReAllocBuffer, GoodRing, Rings
<1> HIDE DEF s
<1>5. s.buf \in [0 .. s.size - 1 -> B]
  <2>1. \A i \in 0 .. r.size + Additional - 1 :
          (IF i < r.data
           THEN IF r.begin + i < r.size THEN r.buf[r.begin + i]
                ELSE r.buf[i - (r.size - r.begin)]
           ELSE Junk) \in B
    <3>1. \A i \in 0 .. r.size + Additional - 1 : i < r.data =>
              IF r.begin + i < r.size THEN r.begin + i \in 0 .. r.size - 1
              ELSE i - (r.size - r.begin) \in 0 .. r.size - 1
      <4> SUFFICES ASSUME NEW i \in 0 .. r.size + Additional - 1, i < r.data
                   PROVE  IF r.begin + i < r.size THEN r.begin + i \in 0 .. r.size - 1
                          ELSE i - (r.size - r.begin) \in 0 .. r.size - 1
        OBVIOUS
      <4>1. i \in Nat /\ i < r.size
        BY <1>a, <1>c
      <4> QED BY <4>1, <1>a, WrapInside
    <3> QED BY <3>1, RingFields
  <2>2. s.buf \in [0 .. r.size + Additional - 1 -> B]
    BY <1>3, <2>1
  <2>3. s.size = r.size + Additional
    BY <1>1
  <2> QED BY <2>2, <2>3, <1>a, <1>c
<1>6. RingOK(s)
  BY <1>a, <1>c, <1>1, <1>2 DEF RingOK
<1>7. GoodRing(s, B)
  <2>1. s.size \in Nat /\ s.begin \in Nat /\ s.end \in Nat /\ s.data \in Nat
    BY <1>6 DEF RingOK
  <2>2. s.buf \in UNION {[0 .. n - 1 -> B] : n \in Nat}
    BY <1>5, <2>1
  <2>3. s \in Rings(B)
    BY <1>4, <2>1, <2>2 DEF Rings
  <2> QED BY <1>5, <1>6, <2>3 DEF GoodRing
<1>8. Content(s) = Content(r)
  <2>1. \A i \in 1 .. r.data : s.buf[i - 1] =
            IF r.begin + i - 1 < r.size THEN r.buf[r.begin + i - 1]
            ELSE r.buf[r.begin + i - 1 - r.size]
    BY <1>a, <1>c, <1>3
  <2>2. Content(s) = [i \in 1 .. r.data |-> s.buf[i - 1]]
    BY <1>1, <1>a, <1>c DEF Content
  <2> QED BY <2>1, <2>2 DEF Content
<1> QED
  BY <1>1, <1>7, <1>8, <1>a, <1>c DEF GetEmptySize, s

\* FillData on a ring with room for n bytes keeps the index invariant.
LEMMA FillDataIndices ==
    ASSUME NEW B, NEW r, GoodRing(r, B), NEW n \in Nat, n <= GetEmptySize(r)
    PROVE  /\ GoodRing(FillData(r, n), B)
           /\ FillData(r, n).size = r.size /\ FillData(r, n).begin = r.begin
           /\ FillData(r, n).data = r.data + n /\ FillData(r, n).buf = r.buf
<1>1. r.end = IF r.begin + r.data < r.size THEN r.begin + r.data
              ELSE r.begin + r.data - r.size
  BY DEF GoodRing, RingOK
<1>2. r.data + n <= r.size
  BY RingFields DEF GetEmptySize
<1>3. /\ FillData(r, n).size = r.size /\ FillData(r, n).begin = r.begin
      /\ FillData(r, n).data = r.data + n /\ FillData(r, n).buf = r.buf
      /\ FillData(r, n).end = IF r.size - r.end <= n THEN n - (r.size - r.end) ELSE r.end + n
  BY DEF FillData, GoodRing, Rings
<1>4. RingOK(FillData(r, n))
  <2>1. /\ FillData(r, n).end \in 0 .. r.size - 1
        /\ FillData(r, n).end = IF r.begin + (r.data + n) < r.size THEN r.begin + (r.data + n)
                                ELSE r.begin + (r.data + n) - r.size
    <3>1. /\ r.size \in Nat /\ r.begin \in Nat /\ r.end \in Nat /\ r.data \in Nat
          /\ r.begin < r.size /\ r.end < r.size
      BY RingFields
    <3>2. FillData(r, n).end = IF r.size - r.end <= n THEN n - (r.size - r.end) ELSE r.end + n
      BY <1>3
    <3> HIDE DEF FillData
    <3> QED BY <1>1, <1>2, <3>1, <3>2
  <2>2. r.data + n \in 0 .. r.size /\ r.begin \in 0 .. r.size - 1 /\ r.size \in Nat \ {0}
    BY <1>2, RingFields
  <2> QED BY <1>3, <2>1, <2>2 DEF RingOK
<1>5. FillData(r, n) \in Rings(B)
  <2>1. r.data + n \in Nat
    BY RingFields
  <2>2. (IF r.size - r.end <= n THEN n - (r.size - r.end) ELSE r.end + n) \in Nat
    BY RingFields
  <2> QED BY <2>1, <2>2 DEF FillData, GoodRing, Rings
<1> QED
  BY <1>3, <1>4, <1>5 DEF GoodRing

\* NetworkBuffer::RemoveData drops the n oldest bytes.
THEOREM RemoveDataDropsFront ==
    ASSUME NEW B, NEW r, GoodRing(r, B), NEW n \in Nat, n <= r.data
    PROVE  /\ GoodRing(RemoveData(r, n), B)
           /\ RemoveData(r, n).data = r.data - n
           /\ Content(RemoveData(r, n)) = SubSeq(Content(r), n + 1, r.data)
<1> DEFINE s == RemoveData(r, n)
<1>1. r.end = IF r.begin + r.data < r.size THEN r.begin + r.data
              ELSE r.begin + r.data - r.size
  BY DEF GoodRing, RingOK
<1>2. /\ s.size = r.size /\ s.end = r.end /\ s.data = r.data - n /\ s.buf = r.buf
      /\ s.begin = IF r.begin + n >= r.size THEN n - (r.size - r.begin) ELSE r.begin + n
  BY DEF RemoveData, GoodRing, Rings
<1>3. s \in Rings(B)
  <2>1. r.data - n \in Nat
    BY RingFields
  <2>2. (IF r.begin + n >= r.size THEN n - (r.size - r.begin) ELSE r.begin + n) \in Nat
    BY RingFields
  <2> QED BY <2>1, <2>2 DEF RemoveData, GoodRing, Rings
<1> HIDE DEF s
<1>4. RingOK(s)
  <2>1. /\ s.begin \in 0 .. r.size - 1
        /\ r.end = IF s.begin + (r.data - n) < r.size THEN s.begin + (r.data - n)
                   ELSE s.begin + (r.data - n) - r.size
    <3>1. /\ r.size \in Nat /\ r.begin \in Nat /\ r.end \in Nat /\ r.data \in Nat
          /\ r.begin < r.size /\ r.end < r.size /\ r.data <= r.size
      BY RingFields
    <3>2. s.begin = IF r.begin + n >= r.size THEN n - (r.size - r.begin) ELSE r.begin + n
      BY <1>2
    <3> QED BY <1>1, <3>1, <3>2
  <2>2. r.data - n \in 0 .. r.size /\ r.end \in 0 .. r.size - 1 /\ r.size \in Nat \ {0}
    BY RingFields
  <2> QED BY <1>2, <2>1, <2>2 DEF RingOK
<1>5. GoodRing(s, B)
  BY <1>2, <1>3, <1>4 DEF GoodRing
<1>6. Content(s) = SubSeq(Content(r), n + 1, r.data)
  <2>1. Content(s) \in Seq(B) /\ Len(Content(s)) = r.data - n
    BY <1>2, <1>5, ContentIsSeq
  <2>2. Content(r) \in Seq(B) /\ Len(Content(r)) = r.data
    BY ContentIsSeq
  <2>3. \A i \in 1 .. r.data - n : Content(s)[i] = Content(r)[i + n]
    <3> SUFFICES ASSUME NEW i \in 1 .. r.data - n
                 PROVE  Content(s)[i] = Content(r)[i + n]
      OBVIOUS
    <3>1. Content(s)[i] = IF s.begin + i - 1 < r.size THEN r.buf[s.begin + i - 1]
                          ELSE r.buf[s.begin + i - 1 - r.size]
      BY <1>2 DEF Content
    <3>2. i + n \in 1 .. r.data
      BY RingFields
    <3>3. Content(r)[i + n] = IF r.begin + (i + n) - 1 < r.size THEN r.buf[r.begin + (i + n) - 1]
                              ELSE r.buf[r.begin + (i + n) - 1 - r.size]
      BY <3>2 DEF Content
    <3>4. (IF s.begin + i - 1 < r.size THEN s.begin + i - 1 ELSE s.begin + i - 1 - r.size)
          = (IF r.begin + (i + n) - 1 < r.size THEN r.begin + (i + n) - 1
             ELSE r.begin + (i + n) - 1 - r.size)
      <4>1. /\ r.size \in Nat /\ r.begin \in Nat /\ r.begin < r.size /\ r.data \in Nat
            /\ r.data <= r.size
        BY RingFields
      <4>2. i \in Nat /\ i > 0 /\ i + n <= r.size /\ n <= r.size
        BY <4>1
      <4>3. s.begin = IF r.begin + n >= r.size THEN n - (r.size - r.begin) ELSE r.begin + n
        BY <1>2
      <4>4. s.begin \in Int
        BY <4>1, <4>3
      <4> QED BY <4>1, <4>2, <4>3, <4>4, WrapSum
    <3> QED BY <3>1, <3>3, <3>4
  <2> QED BY <2>1, <2>2, <2>3, RingFields
<1> QED
  BY <1>2, <1>5, <1>6 DEF s

\* RecvNetworkBuffer::MemcpyFromBuffer reads the n oldest bytes, over the end of
\* the allocation where they wrap.
THEOREM ReadIsFront ==
    ASSUME NEW B, NEW r, GoodRing(r, B), NEW n \in Nat, n <= r.data
    PROVE  MemcpyFromBuffer(r, n) = SubSeq(Content(r), 1, n)
<1>1. r.end = IF r.begin + r.data < r.size THEN r.begin + r.data
              ELSE r.begin + r.data - r.size
  BY DEF GoodRing, RingOK
<1>2. Content(r) \in Seq(B) /\ Len(Content(r)) = r.data
  BY ContentIsSeq
<1>3. \A i \in 1 .. n : MemcpyFromBuffer(r, n)[i] = Content(r)[i]
  <2> SUFFICES ASSUME NEW i \in 1 .. n
               PROVE  MemcpyFromBuffer(r, n)[i] = Content(r)[i]
    OBVIOUS
  <2>1. MemcpyFromBuffer(r, n)[i] =
           IF i <= GetReadSize(r) THEN r.buf[r.begin + i - 1]
           ELSE r.buf[i - GetReadSize(r) - 1]
    BY DEF MemcpyFromBuffer
  <2>2. i \in 1 .. r.data
    BY RingFields
  <2>3. Content(r)[i] = IF r.begin + i - 1 < r.size THEN r.buf[r.begin + i - 1]
                        ELSE r.buf[r.begin + i - 1 - r.size]
    BY <2>2 DEF Content
  <2>4. (IF i <= GetReadSize(r) THEN r.begin + i - 1 ELSE i - GetReadSize(r) - 1)
        = (IF r.begin + i - 1 < r.size THEN r.begin + i - 1
           ELSE r.begin + i - 1 - r.size)
    BY <1>1, <2>2, RingFields DEF GetReadSize
  <2> QED BY <2>1, <2>3, <2>4
<1>4. MemcpyFromBuffer(r, n) = [i \in 1 .. n |-> Content(r)[i]]
  BY <1>3 DEF MemcpyFromBuffer
<1> QED
  BY <1>2, <1>4, RingFields

Written(r, f) == [r EXCEPT !.buf = f]
\* The offset of the i-th byte of the data.
Slot(r, i) == IF r.begin + i - 1 < r.size THEN r.begin + i - 1 ELSE r.begin + i - 1 - r.size

\* A write that gives the old bytes and the new ones their slots, then FillData: shared by
\* MemcpyToBuffer and ::recv.  The write leaves the old bytes alone and puts the
\* new ones behind them.
LEMMA WriteContent ==
    ASSUME NEW B, NEW r, GoodRing(r, B), NEW bytes \in Seq(B), Len(bytes) <= GetEmptySize(r),
           NEW f \in [0 .. r.size - 1 -> B],
           \A i \in 1 .. r.data + Len(bytes) :
               f[Slot(r, i)] = IF i <= r.data THEN r.buf[Slot(r, i)] ELSE bytes[i - r.data]
    PROVE  /\ GoodRing(FillData(Written(r, f), Len(bytes)), B)
           /\ Content(FillData(Written(r, f), Len(bytes))) = Content(r) \o bytes
<1> DEFINE t == [r EXCEPT !.buf = f]
           s == FillData(t, Len(bytes))
<1>1. /\ t.size = r.size /\ t.begin = r.begin /\ t.end = r.end /\ t.data = r.data /\ t.buf = f
  BY DEF GoodRing, Rings
<1>2. t \in Rings(B)
  <2>1. f \in UNION {[0 .. n - 1 -> B] : n \in Nat}
    BY RingFields
  <2> QED BY <2>1 DEF GoodRing, Rings
<1> HIDE DEF t
<1>3. GoodRing(t, B)
  <2>1. RingOK(t)
    BY <1>1 DEF GoodRing, RingOK
  <2>2. t.buf \in [0 .. t.size - 1 -> B]
    BY <1>1, RingFields
  <2> QED BY <1>2, <2>1, <2>2 DEF GoodRing
<1>4. Len(bytes) \in Nat /\ Len(bytes) <= GetEmptySize(t)
  BY <1>1 DEF GetEmptySize
<1>5. /\ GoodRing(s, B) /\ s.size = r.size /\ s.begin = r.begin
      /\ s.data = r.data + Len(bytes) /\ s.buf = f
  BY <1>1, <1>3, <1>4, FillDataIndices
<1> HIDE DEF s
<1>6. Content(s) \in Seq(B) /\ Len(Content(s)) = r.data + Len(bytes)
  BY <1>5, ContentIsSeq
<1>7. Content(r) \in Seq(B) /\ Len(Content(r)) = r.data
  BY ContentIsSeq
<1>8. \A i \in 1 .. r.data + Len(bytes) :
          Content(s)[i] = IF i <= r.data THEN Content(r)[i] ELSE bytes[i - r.data]
  <2> SUFFICES ASSUME NEW i \in 1 .. r.data + Len(bytes)
               PROVE  Content(s)[i] = IF i <= r.data THEN Content(r)[i] ELSE bytes[i - r.data]
    OBVIOUS
  <2>1. Content(s)[i] = IF r.begin + i - 1 < r.size THEN f[r.begin + i - 1]
                        ELSE f[r.begin + i - 1 - r.size]
    BY <1>5 DEF Content
  <2>2. Content(s)[i] = IF i <= r.data
                        THEN IF r.begin + i - 1 < r.size THEN r.buf[r.begin + i - 1]
                             ELSE r.buf[r.begin + i - 1 - r.size]
                        ELSE bytes[i - r.data]
    BY <2>1 DEF Slot
  <2>3. ASSUME i <= r.data
        PROVE  Content(r)[i] = IF r.begin + i - 1 < r.size THEN r.buf[r.begin + i - 1]
                               ELSE r.buf[r.begin + i - 1 - r.size]
    <3>1. i \in 1 .. r.data
      BY <2>3, RingFields
    <3> QED BY <3>1 DEF Content
  <2> QED BY <2>2, <2>3
<1>9. Content(s) = Content(r) \o bytes
  <2>1. r.data \in Nat
    BY RingFields
  <2>2. Content(r) \o bytes \in Seq(B) /\ Len(Content(r) \o bytes) = r.data + Len(bytes)
    <3>1. Content(r) \o bytes \in Seq(B)
      BY <1>7
    <3>2. Len(Content(r) \o bytes) = Len(Content(r)) + Len(bytes)
      BY <1>7, ConcatProperties
    <3> QED BY <1>7, <3>1, <3>2
  <2>3. \A i \in 1 .. r.data + Len(bytes) :
            (Content(r) \o bytes)[i] = IF i <= r.data THEN Content(r)[i] ELSE bytes[i - r.data]
    BY <1>7, <2>1
  <2>4. \A i \in 1 .. r.data + Len(bytes) : Content(s)[i] = (Content(r) \o bytes)[i]
    BY <1>8, <2>3
  <2> QED BY <1>6, <2>2, <2>4
<1> QED
  BY <1>5, <1>9 DEF s, t, Written

\* Where the bytes of a write of n go: the data starts at begin, the write at
\* end with tail bytes before the end of the allocation and the rest at its start.
LEMMA WriteSlots ==
    ASSUME NEW size \in Nat, NEW begin \in Nat, NEW end \in Nat, NEW data \in Nat,
           NEW n \in Nat, NEW tail \in Nat, NEW i \in Nat, NEW k \in Int,
           begin < size, end < size, data + n <= size, tail <= n, end + tail <= size,
           tail < n => tail = size - end /\ begin <= end,
           end = IF begin + data < size THEN begin + data ELSE begin + data - size,
           1 <= i, i <= data + n,
           k = IF begin + i - 1 < size THEN begin + i - 1 ELSE begin + i - 1 - size
    PROVE  /\ k \in 0 .. size - 1
           /\ i <= data => ~ (end <= k /\ k < end + tail) /\ ~ (k < n - tail)
           /\ i > data /\ end <= k /\ k < end + tail => k - end + 1 = i - data
           /\ i > data /\ ~ (end <= k /\ k < end + tail)
                => k < n - tail /\ k + tail + 1 = i - data
<1>1. CASE begin + data < size
  BY <1>1
<1>2. CASE begin + data >= size
  BY <1>2
<1> QED BY <1>1, <1>2

\* The space GetWriteSize offers ends at the end of the allocation or before the
\* first unread byte.
LEMMA WriteSizeBounds ==
    ASSUME NEW size \in Nat, NEW begin \in Nat, NEW end \in Nat, NEW data \in Nat,
           begin < size, end < size, data <= size,
           end = IF begin + data < size THEN begin + data ELSE begin + data - size,
           NEW w, w = IF begin <= end THEN size - end ELSE begin - end
    PROVE  /\ w \in Nat /\ w > 0 /\ end + w <= size
           /\ data < size => w <= size - data
           /\ \A n \in Nat : data + n <= size /\ w < n => w = size - end /\ begin <= end
<1>1. CASE begin + data < size
  BY <1>1
<1>2. CASE begin + data >= size
  BY <1>2
<1> QED BY <1>1, <1>2

\* SendNetworkBuffer::MemcpyToBuffer appends the bytes, over the end of the
\* allocation if it must, when there is room for them (AddPacket's loop).
THEOREM MemcpyAppends ==
    ASSUME NEW B, NEW r, GoodRing(r, B), NEW bytes \in Seq(B), Len(bytes) <= GetEmptySize(r)
    PROVE  /\ GoodRing(MemcpyToBuffer(r, bytes), B)
           /\ Content(MemcpyToBuffer(r, bytes)) = Content(r) \o bytes
<1>1. PICK n \in Nat : n = Len(bytes)
  OBVIOUS
<1>2. PICK size \in Nat, begin \in Nat, end \in Nat, data \in Nat :
          /\ size = r.size /\ begin = r.begin /\ end = r.end /\ data = r.data
  BY RingFields
<1>3. /\ begin < size /\ end < size /\ data + n <= size
      /\ end = IF begin + data < size THEN begin + data ELSE begin + data - size
  <2>1. begin < size /\ end < size /\ n <= size - data
    BY <1>1, <1>2, RingFields DEF GetEmptySize
  <2>2. end = IF begin + data < size THEN begin + data ELSE begin + data - size
    BY <1>2 DEF GoodRing, RingOK
  <2> QED BY <2>1, <2>2
<1>4. PICK w \in Nat : /\ w = GetWriteSize(r) /\ w > 0 /\ end + w <= size
                       /\ w < n => w = size - end /\ begin <= end
  <2>1. GetWriteSize(r) = IF begin <= end THEN size - end ELSE begin - end
    BY <1>2 DEF GetWriteSize
  <2>2. data <= size
    BY <1>3
  <2>3. /\ GetWriteSize(r) \in Nat /\ GetWriteSize(r) > 0 /\ end + GetWriteSize(r) <= size
        /\ \A j \in Nat : data + j <= size /\ GetWriteSize(r) < j
                            => GetWriteSize(r) = size - end /\ begin <= end
    BY <1>3, <2>1, <2>2, WriteSizeBounds
  <2> QED BY <1>3, <2>3
<1>5. PICK tail \in Nat : /\ tail = IF w < n THEN w ELSE n
                          /\ tail <= n /\ end + tail <= size
                          /\ tail < n => tail = size - end /\ begin <= end
  BY <1>3, <1>4
<1>6. PICK f : f = [i \in 0 .. size - 1 |->
                      IF end <= i /\ i < end + tail THEN bytes[i - end + 1]
                      ELSE IF i < n - tail THEN bytes[i + tail + 1] ELSE r.buf[i]]
  OBVIOUS
<1>7. MemcpyToBuffer(r, bytes) = FillData(Written(r, f), Len(bytes))
  BY <1>1, <1>2, <1>4, <1>5, <1>6, Zenon DEF MemcpyToBuffer, Written
<1>8. f \in [0 .. size - 1 -> B]
  <2>1. ASSUME NEW i \in 0 .. size - 1
        PROVE  (IF end <= i /\ i < end + tail THEN bytes[i - end + 1]
                ELSE IF i < n - tail THEN bytes[i + tail + 1] ELSE r.buf[i]) \in B
    <3>1. \A j \in 1 .. n : bytes[j] \in B
      BY <1>1
    <3>2. end <= i /\ i < end + tail => i - end + 1 \in 1 .. n
      BY <1>5
    <3>3. i < n - tail => i + tail + 1 \in 1 .. n
      BY <1>5
    <3>4. r.buf[i] \in B
      BY <1>2, RingFields
    <3> QED BY <3>1, <3>2, <3>3, <3>4
  <2> QED BY <1>6, <2>1
<1>9. ASSUME NEW i \in 1 .. data + n,
             NEW k, k = IF begin + i - 1 < size THEN begin + i - 1 ELSE begin + i - 1 - size
      PROVE  f[k] = IF i <= data THEN r.buf[k] ELSE bytes[i - data]
  <2>0. i \in Nat /\ 1 <= i /\ i <= data + n /\ k \in Int
    BY <1>9
  <2>1. /\ k \in 0 .. size - 1
        /\ i <= data => ~ (end <= k /\ k < end + tail) /\ ~ (k < n - tail)
        /\ i > data /\ end <= k /\ k < end + tail => k - end + 1 = i - data
        /\ i > data /\ ~ (end <= k /\ k < end + tail)
             => k < n - tail /\ k + tail + 1 = i - data
    BY <1>3, <1>5, <1>9, <2>0, WriteSlots
  <2>2. f[k] = IF end <= k /\ k < end + tail THEN bytes[k - end + 1]
               ELSE IF k < n - tail THEN bytes[k + tail + 1] ELSE r.buf[k]
    BY <1>6, <2>1
  <2>3. CASE i <= data
    BY <2>1, <2>2, <2>3
  <2>4. CASE i > data
    BY <2>1, <2>2, <2>4
  <2> QED BY <2>0, <2>3, <2>4
<1>10. \A i \in 1 .. r.data + Len(bytes) :
          f[Slot(r, i)] = IF i <= r.data THEN r.buf[Slot(r, i)] ELSE bytes[i - r.data]
  BY <1>1, <1>2, <1>9 DEF Slot
<1>11. f \in [0 .. r.size - 1 -> B]
  BY <1>2, <1>8
<1>12. /\ GoodRing(FillData(Written(r, f), Len(bytes)), B)
       /\ Content(FillData(Written(r, f), Len(bytes))) = Content(r) \o bytes
  BY <1>10, <1>11, WriteContent
<1> QED
  BY <1>7, <1>12, Zenon

\* ::recv into the space GetWriteSize offers, when the ring is not full, appends
\* the bytes received and touches no unread one (RecvNetworkBuffer::GetBuffer).
THEOREM RecvAppends ==
    ASSUME NEW B, NEW r, GoodRing(r, B), NEW bytes \in Seq(B),
           GetEmptySize(r) > 0, Len(bytes) <= GetWriteSize(r)
    PROVE  /\ GetWriteSize(r) > 0 /\ GetWriteSize(r) <= GetEmptySize(r)
           /\ GoodRing(RecvInto(r, bytes), B)
           /\ Content(RecvInto(r, bytes)) = Content(r) \o bytes
<1>1. PICK n \in Nat : n = Len(bytes)
  OBVIOUS
<1>2. PICK size \in Nat, begin \in Nat, end \in Nat, data \in Nat :
          /\ size = r.size /\ begin = r.begin /\ end = r.end /\ data = r.data
  BY RingFields
<1>3. /\ begin < size /\ end < size /\ data < size
      /\ end = IF begin + data < size THEN begin + data ELSE begin + data - size
  <2>1. begin < size /\ end < size /\ size - data > 0
    BY <1>2, RingFields DEF GetEmptySize
  <2>2. end = IF begin + data < size THEN begin + data ELSE begin + data - size
    BY <1>2 DEF GoodRing, RingOK
  <2> QED BY <2>1, <2>2
<1>4. PICK w \in Nat : w = GetWriteSize(r) /\ w > 0 /\ end + w <= size /\ w <= size - data
  <2>1. GetWriteSize(r) = IF begin <= end THEN size - end ELSE begin - end
    BY <1>2 DEF GetWriteSize
  <2>2. data <= size
    BY <1>3
  <2>3. /\ GetWriteSize(r) \in Nat /\ GetWriteSize(r) > 0 /\ end + GetWriteSize(r) <= size
        /\ data < size => GetWriteSize(r) <= size - data
    BY <1>3, <2>1, <2>2, WriteSizeBounds
  <2> QED BY <1>3, <2>3
<1>5. n <= w /\ data + n <= size /\ end + n <= size
  BY <1>1, <1>4
<1>6. PICK f : f = [i \in 0 .. size - 1 |->
                      IF end <= i /\ i < end + n THEN bytes[i - end + 1] ELSE r.buf[i]]
  OBVIOUS
<1>7. RecvInto(r, bytes) = FillData(Written(r, f), Len(bytes))
  BY <1>1, <1>2, <1>6, Zenon DEF RecvInto, Written
<1>8. f \in [0 .. size - 1 -> B]
  <2>1. ASSUME NEW i \in 0 .. size - 1
        PROVE  (IF end <= i /\ i < end + n THEN bytes[i - end + 1] ELSE r.buf[i]) \in B
    <3>1. \A j \in 1 .. n : bytes[j] \in B
      BY <1>1
    <3>2. end <= i /\ i < end + n => i - end + 1 \in 1 .. n
      OBVIOUS
    <3>3. r.buf[i] \in B
      BY <1>2, RingFields
    <3> QED BY <3>1, <3>2, <3>3
  <2> QED BY <1>6, <2>1
<1>9. ASSUME NEW i \in 1 .. data + n,
             NEW k, k = IF begin + i - 1 < size THEN begin + i - 1 ELSE begin + i - 1 - size
      PROVE  f[k] = IF i <= data THEN r.buf[k] ELSE bytes[i - data]
  <2>0. i \in Nat /\ 1 <= i /\ i <= data + n /\ k \in Int
    BY <1>9
  <2>1. /\ k \in 0 .. size - 1
        /\ i <= data => ~ (end <= k /\ k < end + n)
        /\ i > data => end <= k /\ k < end + n /\ k - end + 1 = i - data
    <3>1. n <= n /\ (n < n => n = size - end /\ begin <= end)
      OBVIOUS
    <3>2. /\ k \in 0 .. size - 1
          /\ i <= data => ~ (end <= k /\ k < end + n) /\ ~ (k < n - n)
          /\ i > data /\ end <= k /\ k < end + n => k - end + 1 = i - data
          /\ i > data /\ ~ (end <= k /\ k < end + n)
               => k < n - n /\ k + n + 1 = i - data
      BY <1>3, <1>5, <1>9, <2>0, <3>1, WriteSlots
    <3> QED BY <2>0, <3>2
  <2>2. f[k] = IF end <= k /\ k < end + n THEN bytes[k - end + 1] ELSE r.buf[k]
    BY <1>6, <2>1
  <2>3. CASE i <= data
    BY <2>1, <2>2, <2>3
  <2>4. CASE i > data
    BY <2>1, <2>2, <2>4
  <2> QED BY <2>0, <2>3, <2>4
<1>10. \A i \in 1 .. r.data + Len(bytes) :
          f[Slot(r, i)] = IF i <= r.data THEN r.buf[Slot(r, i)] ELSE bytes[i - r.data]
  BY <1>1, <1>2, <1>9 DEF Slot
<1>11. f \in [0 .. r.size - 1 -> B]
  BY <1>2, <1>8
<1>12. Len(bytes) <= GetEmptySize(r)
  BY <1>1, <1>2, <1>5 DEF GetEmptySize
<1>13. GetWriteSize(r) > 0 /\ GetWriteSize(r) <= GetEmptySize(r)
  BY <1>2, <1>4 DEF GetEmptySize
<1>14. /\ GoodRing(FillData(Written(r, f), Len(bytes)), B)
       /\ Content(FillData(Written(r, f), Len(bytes))) = Content(r) \o bytes
  BY <1>10, <1>11, <1>12, WriteContent
<1> QED
  BY <1>7, <1>13, <1>14, Zenon

-----------------------------------------------------------------------------
(***************************************************************************)
(* The inductive invariant of a connection.                                *)
(***************************************************************************)
\* No frame of the packets sent wraps the length field (TotalSizeType).
NoWrap == \A k \in Kinds : k.len + HeadSize(k) + 2 * Field < SizeMod

Sendable == {p \in Packet : p.len + HeadSize(p) + 2 * Field < SizeMod}
Byte == {Junk} \union ({"total", "headSize", "head", "body"} \X (Nat \union Packet) \X Nat)

\* str is the frames of ps[from + 1], ps[from + 2], ..., one after the other:
\* off[j] is where the frame of ps[j] ends.
FramedAt(str, ps, from, off) ==
    /\ off \in [from .. Len(ps) -> 0 .. Len(str)]
    /\ off[from] = 0 /\ off[Len(ps)] = Len(str)
    /\ \A i, j \in from .. Len(ps) : i <= j => off[i] <= off[j]
    /\ \A j \in from + 1 .. Len(ps) :
           /\ off[j] = off[j - 1] + TotalSize(ps[j])
           /\ \A i \in 1 .. TotalSize(ps[j]) : str[off[j - 1] + i] = Frame(ps[j])[i]
Framed(str, ps, from) ==
    \E off \in [from .. Len(ps) -> 0 .. Len(str)] : FramedAt(str, ps, from, off)

\* The rings are rings of bytes; the receiver has got the packets it should; and,
\* unless it has met an unknown id, all that is between AddPacket and
\* GetTcpPacket are the frames still to be got.
StreamInv ==
    /\ GoodRing(snd, Byte) /\ GoodRing(rcv, Byte) /\ wire \in Seq(Byte)
    /\ adding \in Sendable \union {NoPacket}
    /\ rpc \in {"idle", "recv", "parse", "closing"} /\ conn \in 1 .. MaxConns
    /\ sent \in Seq(Sendable) /\ got \in Seq(Sendable \X Seq(Byte))
    /\ Received
    /\ rpc # "closing" => Framed(Stream, sent, Len(got))

-----------------------------------------------------------------------------
(***************************************************************************)
(* Frames.                                                                 *)
(***************************************************************************)
LEMMA SizesFacts ==
    /\ Field \in Nat /\ Field > 0 /\ HeadC2S \in Nat /\ HeadC2S > 0
    /\ HeadS2S \in Nat /\ HeadS2S > 0 /\ SizeMod \in Nat /\ SizeMod > 0
    /\ MaxSent \in Nat /\ MaxConns \in Nat /\ MaxConns > 0
BY SizesAssumption

LEMMA ModSmall ==
    ASSUME NEW n \in Nat, NEW z \in Nat, z > 0, n < z
    PROVE  n % z = n
OBVIOUS

LEMMA PacketSizes ==
    ASSUME NEW p \in Sendable
    PROVE  /\ p.len \in Nat /\ HeadSize(p) \in Nat /\ HeadSize(p) > 0
           /\ HeadSize(p) = IF p.s2s THEN HeadS2S ELSE HeadC2S
           /\ GetDataLength(p) = p.len
           /\ TotalSize(p) = p.len + HeadSize(p) + 2 * Field
           /\ TotalSize(p) \in Nat /\ p \in Packet
<1>1. p \in Packet /\ p.len \in Nat /\ p.len + HeadSize(p) + 2 * Field < SizeMod
  BY DEF Sendable, Packet
<1>2. HeadSize(p) \in Nat /\ HeadSize(p) > 0
  BY SizesFacts DEF HeadSize
<1>3. p.len < SizeMod
  BY <1>1, <1>2, SizesFacts
<1>4. GetDataLength(p) = p.len
  BY <1>1, <1>3, SizesFacts, ModSmall DEF GetDataLength
<1>5. p.len + HeadSize(p) + 2 * Field \in Nat
  BY <1>1, <1>2, SizesFacts
<1>6. TotalSize(p) = p.len + HeadSize(p) + 2 * Field
  BY <1>1, <1>4, <1>5, SizesFacts, ModSmall DEF TotalSize
<1> QED BY <1>1, <1>2, <1>4, <1>5, <1>6 DEF HeadSize

LEMMA BytesFacts ==
    ASSUME NEW f \in {"total", "headSize", "head", "body"}, NEW v \in Nat \union Packet,
           NEW n \in Nat
    PROVE  /\ Bytes(f, v, n) \in Seq(Byte) /\ Len(Bytes(f, v, n)) = n
           /\ \A i \in 1 .. n : Bytes(f, v, n)[i] = <<f, v, i>>
<1>1. \A i \in 1 .. n : <<f, v, i>> \in Byte
  BY DEF Byte
<1>2. Bytes(f, v, n) \in [1 .. n -> Byte]
  BY <1>1 DEF Bytes
<1> QED BY <1>2 DEF Bytes

\* A frame is as long as its first field says, and its fields are where
\* GetTcpPacket looks for them.
LEMMA FrameFacts ==
    ASSUME NEW p \in Sendable
    PROVE  /\ Frame(p) \in Seq(Byte) /\ Len(Frame(p)) = TotalSize(p)
           /\ Frame(p)[1] = <<"total", TotalSize(p), 1>>
           /\ Frame(p)[Field + 1] = <<"headSize", HeadSize(p), 1>>
           /\ Frame(p)[2 * Field + 1] = <<"head", p, 1>>
           /\ \A i \in 1 .. p.len :
                  Frame(p)[2 * Field + HeadSize(p) + i] = <<"body", p, i>>
<1>1. /\ p.len \in Nat /\ HeadSize(p) \in Nat /\ HeadSize(p) > 0
      /\ GetDataLength(p) = p.len /\ TotalSize(p) = p.len + HeadSize(p) + 2 * Field
      /\ TotalSize(p) \in Nat /\ p \in Packet /\ Field \in Nat /\ Field > 0
  BY PacketSizes, SizesFacts
<1>2. PICK a : a = Bytes("total", TotalSize(p), Field)
  OBVIOUS
<1>3. PICK b : b = Bytes("headSize", HeadSize(p), Field)
  OBVIOUS
<1>4. PICK c : c = Bytes("head", p, HeadSize(p))
  OBVIOUS
<1>5. PICK d : d = Bytes("body", p, p.len)
  OBVIOUS
<1>6. a \in Seq(Byte) /\ Len(a) = Field /\ \A i \in 1 .. Field : a[i] = <<"total", TotalSize(p), i>>
  BY <1>1, <1>2, BytesFacts
<1>7. b \in Seq(Byte) /\ Len(b) = Field /\ \A i \in 1 .. Field : b[i] = <<"headSize", HeadSize(p), i>>
  BY <1>1, <1>3, BytesFacts
<1>8. c \in Seq(Byte) /\ Len(c) = HeadSize(p) /\ \A i \in 1 .. HeadSize(p) : c[i] = <<"head", p, i>>
  BY <1>1, <1>4, BytesFacts
<1>9. d \in Seq(Byte) /\ Len(d) = p.len /\ \A i \in 1 .. p.len : d[i] = <<"body", p, i>>
  BY <1>1, <1>5, BytesFacts
<1>10. PICK s : s = Frame(p)
  OBVIOUS
<1>11. s = ((a \o b) \o c) \o d
  BY <1>1, <1>2, <1>3, <1>4, <1>5, <1>10 DEF Frame
<1>12. PICK h \in Nat : h = HeadSize(p)
  BY <1>1
<1>13. PICK n \in Nat : n = p.len
  BY <1>1
<1>14. /\ s \in Seq(Byte) /\ Len(s) = Field + Field + h + n
       /\ \A i \in 1 .. Field : s[i] = a[i] /\ s[Field + i] = b[i]
       /\ \A i \in 1 .. h : s[Field + Field + i] = c[i]
       /\ \A i \in 1 .. n : s[Field + Field + h + i] = d[i]
  <2>0. /\ a \in Seq(Byte) /\ b \in Seq(Byte) /\ c \in Seq(Byte) /\ d \in Seq(Byte)
        /\ Len(a) = Field /\ Len(b) = Field /\ Len(c) = h /\ Len(d) = n
    BY <1>6, <1>7, <1>8, <1>9, <1>12, <1>13
  <2>1. Field \in Nat /\ h \in Nat /\ n \in Nat
    BY <1>1, <1>12, <1>13
  <2>2. PICK x : x = a \o b
    OBVIOUS
  <2>3. /\ x \in Seq(Byte) /\ Len(x) = Field + Field
        /\ \A i \in 1 .. Field + Field : x[i] = IF i <= Field THEN a[i] ELSE b[i - Field]
    <3>1. Len(a) = Field /\ Len(b) = Field /\ a \in Seq(Byte) /\ b \in Seq(Byte)
      BY <2>0
    <3>2. /\ x \in Seq(Byte) /\ Len(x) = Len(a) + Len(b)
          /\ \A i \in 1 .. Len(a) + Len(b) :
                 x[i] = IF i <= Len(a) THEN a[i] ELSE b[i - Len(a)]
      BY <3>1, <2>2, ConcatProperties
    <3> QED BY <3>1, <3>2
  <2>4. PICK y : y = x \o c
    OBVIOUS
  <2>5. PICK m \in Nat : m = Field + Field
    BY <2>1
  <2>6. /\ y \in Seq(Byte) /\ Len(y) = m + h
        /\ \A i \in 1 .. m + h : y[i] = IF i <= m THEN x[i] ELSE c[i - m]
    <3>1. Len(x) = m /\ x \in Seq(Byte) /\ Len(c) = h /\ c \in Seq(Byte)
      BY <2>0, <2>3, <2>5
    <3>2. /\ y \in Seq(Byte) /\ Len(y) = Len(x) + Len(c)
          /\ \A i \in 1 .. Len(x) + Len(c) :
                 y[i] = IF i <= Len(x) THEN x[i] ELSE c[i - Len(x)]
      BY <3>1, <2>4, ConcatProperties
    <3> QED BY <3>1, <3>2
  <2>7. PICK o \in Nat : o = m + h
    BY <2>1
  <2>8. s = y \o d
    BY <1>11, <2>2, <2>4
  <2>9. /\ s \in Seq(Byte) /\ Len(s) = o + n
        /\ \A i \in 1 .. o + n : s[i] = IF i <= o THEN y[i] ELSE d[i - o]
    <3>1. Len(y) = o /\ y \in Seq(Byte) /\ Len(d) = n /\ d \in Seq(Byte)
      BY <2>0, <2>6, <2>7
    <3>2. /\ s \in Seq(Byte) /\ Len(s) = Len(y) + Len(d)
          /\ \A i \in 1 .. Len(y) + Len(d) :
                 s[i] = IF i <= Len(y) THEN y[i] ELSE d[i - Len(y)]
      BY <3>1, <2>8, ConcatProperties
    <3> QED BY <3>1, <3>2
  <2>10. \A i \in 1 .. m : s[i] = x[i]
    BY <2>1, <2>6, <2>7, <2>9
  <2>11. \A i \in 1 .. Field : s[i] = a[i]
    BY <2>1, <2>3, <2>5, <2>10
  <2>12. ASSUME NEW i \in 1 .. Field PROVE s[Field + i] = b[i]
    <3>1. Field + i \in 1 .. m /\ ~ (Field + i <= Field) /\ Field + i - Field = i
      BY <2>1, <2>5
    <3>2. \A k \in 1 .. m : ~ (k <= Field) => x[k] = b[k - Field]
      BY <2>3, <2>5
    <3>3. x[Field + i] = b[Field + i - Field]
      BY <2>1, <3>1, <3>2
    <3> QED BY <3>1, <3>3, <2>10
  <2>13. ASSUME NEW i \in 1 .. h PROVE s[m + i] = c[i]
    <3>1. m + i \in 1 .. m + h /\ ~ (m + i <= m) /\ m + i - m = i /\ m + i <= o /\ m + i \in 1 .. o + n
      BY <2>1, <2>7
    <3>2. y[m + i] = c[m + i - m]
      BY <3>1, <2>6
    <3>3. s[m + i] = y[m + i]
      BY <3>1, <2>9
    <3> QED BY <3>1, <3>2, <3>3
  <2>14. ASSUME NEW i \in 1 .. n PROVE s[o + i] = d[i]
    <3>1. o + i \in 1 .. o + n /\ ~ (o + i <= o) /\ o + i - o = i
      BY <2>1
    <3>2. s[o + i] = d[o + i - o]
      BY <3>1, <2>9
    <3> QED BY <3>1, <3>2
  <2> QED BY <2>1, <2>5, <2>7, <2>9, <2>11, <2>12, <2>13, <2>14
<1>15. Field + Field = 2 * Field /\ 1 \in 1 .. Field /\ 1 \in 1 .. h
  BY <1>1, <1>12
<1>16. Len(s) = TotalSize(p)
  BY <1>1, <1>12, <1>13, <1>14
<1>17. s[1] = <<"total", TotalSize(p), 1>> /\ s[Field + 1] = <<"headSize", HeadSize(p), 1>>
  BY <1>6, <1>7, <1>14, <1>15
<1>18. s[2 * Field + 1] = <<"head", p, 1>>
  BY <1>8, <1>12, <1>14, <1>15
<1>19. \A i \in 1 .. p.len : s[2 * Field + HeadSize(p) + i] = <<"body", p, i>>
  BY <1>9, <1>12, <1>13, <1>14, <1>15
<1> QED BY <1>10, <1>14, <1>16, <1>17, <1>18, <1>19

-----------------------------------------------------------------------------
(***************************************************************************)
(* A sequence of frames.                                                   *)
(***************************************************************************)
LEMMA FramedNone == Framed(<<>>, <<>>, 0)
<1>1. PICK off : off = [j \in 0 .. 0 |-> 0]
  OBVIOUS
<1>2. off \in [0 .. Len(<<>>) -> 0 .. Len(<<>>)] /\ off[0] = 0
  BY <1>1
<1>3. FramedAt(<<>>, <<>>, 0, off)
  BY <1>2 DEF FramedAt
<1> QED BY <1>2, <1>3 DEF Framed

\* AddPacket: one more frame behind the others.
LEMMA FramedAppend ==
    ASSUME NEW str \in Seq(Byte), NEW ps \in Seq(Sendable), NEW from \in 0 .. Len(ps),
           Framed(str, ps, from), NEW p \in Sendable
    PROVE  Framed(str \o Frame(p), Append(ps, p), from)
<1>1. PICK off : /\ off \in [from .. Len(ps) -> 0 .. Len(str)]
                 /\ off[from] = 0 /\ off[Len(ps)] = Len(str)
                 /\ \A i, j \in from .. Len(ps) : i <= j => off[i] <= off[j]
                 /\ \A j \in from + 1 .. Len(ps) :
                        /\ off[j] = off[j - 1] + TotalSize(ps[j])
                        /\ \A i \in 1 .. TotalSize(ps[j]) : str[off[j - 1] + i] = Frame(ps[j])[i]
  BY DEF Framed, FramedAt
<1>2. PICK t : t = TotalSize(p)
  OBVIOUS
<1>3. t \in Nat /\ Frame(p) \in Seq(Byte) /\ Len(Frame(p)) = t
  BY <1>2, PacketSizes, FrameFacts
<1>4. PICK n \in Nat : n = Len(ps)
  OBVIOUS
<1>5. PICK l \in Nat : l = Len(str)
  OBVIOUS
<1>6. PICK s2 : s2 = str \o Frame(p)
  OBVIOUS
<1>7. PICK p2 : p2 = Append(ps, p)
  OBVIOUS
<1>8. Len(s2) = l + t
  <2>1. Len(s2) = Len(str) + Len(Frame(p))
    BY <1>3, <1>6, ConcatProperties
  <2> QED BY <1>3, <1>5, <2>1
<1>9. \A i \in 1 .. l : s2[i] = str[i]
  BY <1>3, <1>5, <1>6
<1>10. \A i \in 1 .. t : s2[l + i] = Frame(p)[i]
  BY <1>3, <1>5, <1>6
<1>11. Len(p2) = n + 1 /\ p2[n + 1] = p /\ \A j \in 1 .. n : p2[j] = ps[j]
  BY <1>4, <1>7
<1>12. PICK of2 : of2 = [j \in from .. n + 1 |-> IF j = n + 1 THEN l + t ELSE off[j]]
  OBVIOUS
<1>13. \A j \in from .. n : of2[j] = off[j] /\ off[j] \in 0 .. l
  <2>1. \A j \in from .. n : off[j] \in 0 .. l
    BY <1>1, <1>4, <1>5
  <2>2. \A j \in from .. n : j \in from .. n + 1 /\ j # n + 1
    OBVIOUS
  <2>3. \A j \in from .. n : of2[j] = off[j]
    BY <2>2, <1>12
  <2> QED BY <2>1, <2>3
<1>14. of2[n + 1] = l + t /\ from \in 0 .. n
  BY <1>4, <1>12
<1>15. of2 \in [from .. n + 1 -> 0 .. l + t]
  <2>1. ASSUME NEW j \in from .. n + 1 PROVE of2[j] \in 0 .. l + t
    <3>1. CASE j = n + 1
      BY <3>1, <1>3, <1>14
    <3>2. CASE j # n + 1
      <4>1. j \in from .. n
        BY <3>2, <1>4
      <4> QED BY <4>1, <1>3, <1>13
    <3> QED BY <3>1, <3>2
  <2>2. of2 = [j \in from .. n + 1 |-> of2[j]]
    BY <1>12
  <2> QED BY <2>1, <2>2
<1>16. of2[from] = 0
  BY <1>1, <1>13, <1>14
<1>17. ASSUME NEW j \in from + 1 .. n + 1
       PROVE  /\ of2[j] = of2[j - 1] + TotalSize(p2[j])
              /\ \A i \in 1 .. TotalSize(p2[j]) : s2[of2[j - 1] + i] = Frame(p2[j])[i]
  <2>1. CASE j = n + 1
    <3>1. of2[j - 1] = l
      <4>1. n \in from .. n
        BY <1>14
      <4>2. of2[n] = off[n] /\ off[n] = l
        BY <4>1, <1>13, <1>1, <1>4, <1>5
      <4> QED BY <2>1, <4>2
    <3>2. p2[j] = p /\ of2[j] = l + t
      BY <2>1, <1>11, <1>14
    <3> QED BY <3>1, <3>2, <1>2, <1>10
  <2>2. CASE j # n + 1
    <3>1. j \in from + 1 .. n /\ j \in from .. n /\ j - 1 \in from .. n /\ j \in 1 .. n
      BY <2>2, <1>14
    <3>2. p2[j] = ps[j] /\ of2[j] = off[j] /\ of2[j - 1] = off[j - 1]
      BY <3>1, <1>11, <1>13
    <3>3. /\ off[j] = off[j - 1] + TotalSize(ps[j])
          /\ \A i \in 1 .. TotalSize(ps[j]) : str[off[j - 1] + i] = Frame(ps[j])[i]
      BY <3>1, <1>1, <1>4
    <3>4. TotalSize(ps[j]) \in Nat
      BY <3>1, <1>4, PacketSizes
    <3>5. off[j] \in 0 .. l /\ off[j - 1] \in 0 .. l
      BY <3>1, <1>13
    <3>6. ASSUME NEW i \in 1 .. TotalSize(ps[j])
          PROVE  s2[off[j - 1] + i] = Frame(ps[j])[i]
      <4>1. off[j - 1] + i \in 1 .. l
        BY <3>3, <3>4, <3>5
      <4> QED BY <4>1, <3>3, <1>9
    <3> QED BY <3>2, <3>3, <3>6
  <2> QED BY <2>1, <2>2
<1>20. ASSUME NEW i \in from .. n + 1, NEW j \in from .. n + 1, i <= j
       PROVE  of2[i] <= of2[j]
  <2>1. CASE j = n + 1
    <3>1. of2[i] \in 0 .. l + t
      BY <1>15
    <3> QED BY <3>1, <2>1, <1>3, <1>14
  <2>2. CASE j # n + 1
    <3>1. i \in from .. n /\ j \in from .. n
      BY <2>2, <1>4, <1>20
    <3> QED BY <3>1, <1>1, <1>4, <1>13, <1>20
  <2> QED BY <2>1, <2>2
<1>18. FramedAt(s2, p2, from, of2)
  <2>1. of2 \in [from .. Len(p2) -> 0 .. Len(s2)] /\ of2[Len(p2)] = Len(s2)
    BY <1>8, <1>11, <1>14, <1>15
  <2>2. \A i, j \in from .. Len(p2) : i <= j => of2[i] <= of2[j]
    BY <1>11, <1>20
  <2> QED BY <2>1, <2>2, <1>11, <1>16, <1>17 DEF FramedAt
<1>19. of2 \in [from .. Len(p2) -> 0 .. Len(s2)]
  BY <1>8, <1>11, <1>15
<1> QED BY <1>6, <1>7, <1>18, <1>19 DEF Framed

\* A stream that is not empty begins with the frame of the next packet.
LEMMA FramedHead ==
    ASSUME NEW str \in Seq(Byte), NEW ps \in Seq(Sendable), NEW from \in 0 .. Len(ps),
           Framed(str, ps, from), Len(str) > 0
    PROVE  /\ from < Len(ps) /\ ps[from + 1] \in Sendable
           /\ TotalSize(ps[from + 1]) <= Len(str)
           /\ \A i \in 1 .. TotalSize(ps[from + 1]) : str[i] = Frame(ps[from + 1])[i]
<1>1. PICK off : /\ off \in [from .. Len(ps) -> 0 .. Len(str)]
                 /\ off[from] = 0 /\ off[Len(ps)] = Len(str)
                 /\ \A i, j \in from .. Len(ps) : i <= j => off[i] <= off[j]
                 /\ \A j \in from + 1 .. Len(ps) :
                        /\ off[j] = off[j - 1] + TotalSize(ps[j])
                        /\ \A i \in 1 .. TotalSize(ps[j]) : str[off[j - 1] + i] = Frame(ps[j])[i]
  BY DEF Framed, FramedAt
<1>2. from # Len(ps)
  BY <1>1
<1>3. from \in Nat /\ from < Len(ps)
  BY <1>2
<1>4. PICK k : k = from + 1
  OBVIOUS
<1>5. k \in from + 1 .. Len(ps) /\ k - 1 = from /\ k \in 1 .. Len(ps) /\ k \in from .. Len(ps)
  BY <1>3, <1>4
<1>6. ps[k] \in Sendable
  BY <1>5
<1>7. TotalSize(ps[k]) \in Nat
  BY <1>6, PacketSizes
<1>8. /\ off[k] = off[from] + TotalSize(ps[k]) /\ off[k] \in 0 .. Len(str)
      /\ \A i \in 1 .. TotalSize(ps[k]) : str[off[from] + i] = Frame(ps[k])[i]
  <2>1. /\ off[k] = off[k - 1] + TotalSize(ps[k]) /\ off[k] \in 0 .. Len(str)
        /\ \A i \in 1 .. TotalSize(ps[k]) : str[off[k - 1] + i] = Frame(ps[k])[i]
    BY <1>1, <1>5
  <2> QED BY <2>1, <1>5
<1>9. \A i \in 1 .. TotalSize(ps[k]) : str[i] = Frame(ps[k])[i]
  BY <1>1, <1>7, <1>8
<1>10. TotalSize(ps[k]) <= Len(str)
  BY <1>1, <1>7, <1>8
<1> QED BY <1>3, <1>4, <1>6, <1>9, <1>10

LEMMA OffsetInside ==
    ASSUME NEW a \in Nat, NEW m \in Nat, NEW l \in Nat, NEW i, i \in Nat, NEW t, t \in Nat,
           a + m <= l, a >= t, i >= 1, i <= m
    PROVE  a - t + i \in Nat /\ a - t + i >= 1 /\ a - t + i <= l - t
OBVIOUS

\* GetTcpPacket: without the first frame the others follow.
LEMMA FramedDrop ==
    ASSUME NEW str \in Seq(Byte), NEW ps \in Seq(Sendable), NEW from \in 0 .. Len(ps),
           Framed(str, ps, from), from < Len(ps),
           NEW t, t = TotalSize(ps[from + 1]), NEW s2 \in Seq(Byte), Len(s2) = Len(str) - t,
           \A i \in 1 .. Len(str) - t : s2[i] = str[i + t]
    PROVE  Framed(s2, ps, from + 1)
<1>0. PICK off : FramedAt(str, ps, from, off)
  BY DEF Framed
<1>1. /\ off \in [from .. Len(ps) -> 0 .. Len(str)]
      /\ off[from] = 0 /\ off[Len(ps)] = Len(str)
      /\ \A i, j \in from .. Len(ps) : i <= j => off[i] <= off[j]
      /\ \A j \in from + 1 .. Len(ps) :
             /\ off[j] = off[j - 1] + TotalSize(ps[j])
             /\ \A i \in 1 .. TotalSize(ps[j]) : str[off[j - 1] + i] = Frame(ps[j])[i]
  BY <1>0 DEF FramedAt
<1>2. PICK n \in Nat : n = Len(ps)
  OBVIOUS
<1>3. PICK l \in Nat : l = Len(str)
  OBVIOUS
<1>4. from \in Nat /\ from < n
  BY <1>2
<1>5. PICK k \in Nat : k = from + 1
  BY <1>4
<1>6. k \in from + 1 .. n /\ k - 1 = from /\ k \in 1 .. n
  BY <1>4, <1>5
<1>7. t \in Nat /\ t = TotalSize(ps[k])
  <2>1. ps[k] \in Sendable
    BY <1>2, <1>6
  <2> QED BY <2>1, <1>5, PacketSizes
<1>8. off[k] = t
  BY <1>1, <1>2, <1>6, <1>7
<1>9. ASSUME NEW j \in k .. n PROVE off[j] \in 0 .. l /\ off[j] >= t
  <2>1. j \in from .. n /\ k \in from .. n /\ k <= j
    BY <1>4, <1>5, <1>6
  <2> QED BY <2>1, <1>1, <1>2, <1>3, <1>8
<1>10. t <= l /\ Len(s2) = l - t /\ l - t \in Nat
  <2>1. n \in k .. n
    BY <1>6
  <2>2. off[n] \in 0 .. l /\ off[n] >= t
    BY <2>1, <1>9
  <2> QED BY <2>2, <1>3, <1>7
<1>11. PICK of2 : of2 = [j \in k .. n |-> off[j] - t]
  OBVIOUS
<1>12. of2 \in [k .. n -> 0 .. l - t]
  <2>1. \A j \in k .. n : off[j] - t \in 0 .. l - t
    BY <1>7, <1>9, <1>10
  <2> QED BY <2>1, <1>11
<1>13. of2[k] = 0 /\ of2[n] = l - t
  <2>1. k \in k .. n /\ n \in k .. n /\ off[n] = l
    BY <1>1, <1>2, <1>3, <1>6
  <2> QED BY <2>1, <1>7, <1>8, <1>11
<1>14. ASSUME NEW i \in k .. n, NEW j \in k .. n, i <= j PROVE of2[i] <= of2[j]
  <2>1. i \in from .. n /\ j \in from .. n
    BY <1>4, <1>5
  <2>2. off[i] <= off[j]
    BY <2>1, <1>1, <1>2, <1>14
  <2>3. off[i] \in 0 .. l /\ off[j] \in 0 .. l
    BY <1>9
  <2> QED BY <2>2, <2>3, <1>7, <1>11
<1>15. ASSUME NEW j \in k + 1 .. n
       PROVE  /\ of2[j] = of2[j - 1] + TotalSize(ps[j])
              /\ \A i \in 1 .. TotalSize(ps[j]) : s2[of2[j - 1] + i] = Frame(ps[j])[i]
  <2>1. /\ j \in from + 1 .. n /\ j \in k .. n /\ j - 1 \in k .. n /\ j \in 1 .. n
    BY <1>4, <1>5
  <2>2. /\ off[j] = off[j - 1] + TotalSize(ps[j])
        /\ \A i \in 1 .. TotalSize(ps[j]) : str[off[j - 1] + i] = Frame(ps[j])[i]
    BY <2>1, <1>1, <1>2
  <2>3. of2[j] = off[j] - t /\ of2[j - 1] = off[j - 1] - t
    BY <2>1, <1>11
  <2>4. TotalSize(ps[j]) \in Nat
    BY <2>1, <1>2, PacketSizes
  <2>5. off[j] \in 0 .. l /\ off[j - 1] \in 0 .. l /\ off[j - 1] >= t
    BY <2>1, <1>9
  <2>6. ASSUME NEW i \in 1 .. TotalSize(ps[j])
        PROVE  s2[of2[j - 1] + i] = Frame(ps[j])[i]
    <3>1. /\ of2[j - 1] + i \in 1 .. l - t /\ of2[j - 1] + i + t = off[j - 1] + i
      <4>1. /\ off[j] = off[j - 1] + TotalSize(ps[j]) /\ off[j] <= l /\ off[j - 1] >= t
            /\ of2[j - 1] = off[j - 1] - t /\ TotalSize(ps[j]) \in Nat /\ off[j - 1] \in Nat
        BY <2>2, <2>3, <2>4, <2>5
      <4>2. PICK a \in Nat : a = off[j - 1]
        BY <4>1
      <4>3. PICK m \in Nat : m = TotalSize(ps[j])
        BY <4>1
      <4>4. a + m <= l /\ a >= t /\ of2[j - 1] = a - t /\ i \in 1 .. m
        BY <4>1, <4>2, <4>3
      <4>6. i \in Nat /\ i >= 1 /\ i <= m /\ t \in Nat
        BY <4>4, <1>7
      <4>7. a - t + i \in Nat /\ a - t + i >= 1 /\ a - t + i <= l - t
        BY <4>4, <4>6, OffsetInside
      <4>5. a - t + i \in 1 .. l - t /\ a - t + i + t = a + i
        BY <4>6, <4>7
      <4> QED BY <4>2, <4>4, <4>5
    <3>2. s2[of2[j - 1] + i] = str[of2[j - 1] + i + t]
      BY <3>1, <1>3
    <3> QED BY <3>1, <3>2, <2>2
  <2>7. of2[j] = of2[j - 1] + TotalSize(ps[j])
    BY <2>2, <2>3, <2>4, <2>5, <1>7
  <2> QED BY <2>6, <2>7
<1>16. of2 \in [k .. Len(ps) -> 0 .. Len(s2)]
  BY <1>2, <1>10, <1>12
<1>17. FramedAt(s2, ps, k, of2)
  <2>1. of2[k] = 0 /\ of2[Len(ps)] = Len(s2)
    BY <1>2, <1>10, <1>13
  <2>2. \A i, j \in k .. Len(ps) : i <= j => of2[i] <= of2[j]
    BY <1>2, <1>14
  <2> QED BY <2>1, <2>2, <1>2, <1>15, <1>16 DEF FramedAt
<1> QED BY <1>5, <1>16, <1>17 DEF Framed

-----------------------------------------------------------------------------
(***************************************************************************)
(* What GetTcpPacket reads from a ring that begins with a frame.           *)
(***************************************************************************)
LEMMA DropRing ==
    ASSUME NEW r, GoodRing(r, Byte), NEW n \in Nat, n <= r.data
    PROVE  /\ GoodRing(RemoveData(r, n), Byte) /\ RemoveData(r, n).data = r.data - n
           /\ \A i \in 1 .. r.data - n : Content(RemoveData(r, n))[i] = Content(r)[i + n]
<1>1. Content(r) \in Seq(Byte) /\ Len(Content(r)) = r.data /\ r.data \in Nat
  BY ContentIsSeq, RingFields
<1>2. /\ GoodRing(RemoveData(r, n), Byte) /\ RemoveData(r, n).data = r.data - n
      /\ Content(RemoveData(r, n)) = SubSeq(Content(r), n + 1, r.data)
  BY RemoveDataDropsFront
<1> QED BY <1>1, <1>2

LEMMA ReadRing ==
    ASSUME NEW r, GoodRing(r, Byte), NEW n \in Nat, n <= r.data
    PROVE  \A i \in 1 .. n : MemcpyFromBuffer(r, n)[i] = Content(r)[i]
<1>1. Content(r) \in Seq(Byte) /\ Len(Content(r)) = r.data /\ r.data \in Nat
  BY ContentIsSeq, RingFields
<1>2. MemcpyFromBuffer(r, n) = SubSeq(Content(r), 1, n)
  BY ReadIsFront
<1> QED BY <1>1, <1>2

\* r is what is left of q when its first m bytes are gone.
Rest(q, m, r) ==
    /\ GoodRing(r, Byte) /\ m \in Nat /\ m <= q.data /\ r.data = q.data - m
    /\ \A i \in 1 .. q.data - m : Content(r)[i] = Content(q)[i + m]

LEMMA RestMore ==
    ASSUME NEW q, GoodRing(q, Byte), NEW m, NEW r, Rest(q, m, r), NEW n \in Nat, m + n <= q.data
    PROVE  /\ Rest(q, m + n, RemoveData(r, n))
           /\ \A i \in 1 .. n : MemcpyFromBuffer(r, n)[i] = Content(q)[m + i]
<1>1. /\ q.data \in Nat /\ m \in Nat /\ r.data = q.data - m /\ GoodRing(r, Byte)
      /\ \A i \in 1 .. q.data - m : Content(r)[i] = Content(q)[i + m]
  BY RingFields DEF Rest
<1>2. n <= r.data
  BY <1>1
<1>3. PICK s : s = RemoveData(r, n)
  OBVIOUS
<1>4. /\ GoodRing(s, Byte) /\ s.data = r.data - n
      /\ \A i \in 1 .. r.data - n : Content(s)[i] = Content(r)[i + n]
  BY <1>1, <1>2, <1>3, DropRing
<1>5. s.data = q.data - (m + n) /\ m + n \in Nat
  BY <1>1, <1>4
<1>6. ASSUME NEW i \in 1 .. q.data - (m + n)
      PROVE  Content(s)[i] = Content(q)[i + (m + n)]
  <2>1. i \in 1 .. r.data - n /\ i + n \in 1 .. q.data - m /\ i + n + m = i + (m + n)
    BY <1>1
  <2>2. Content(s)[i] = Content(r)[i + n]
    BY <2>1, <1>4
  <2>3. Content(r)[i + n] = Content(q)[i + n + m]
    BY <2>1, <1>1
  <2> QED BY <2>1, <2>2, <2>3
<1>7. Rest(q, m + n, s)
  BY <1>4, <1>5, <1>6 DEF Rest
<1>8. ASSUME NEW i \in 1 .. n PROVE MemcpyFromBuffer(r, n)[i] = Content(q)[m + i]
  <2>1. MemcpyFromBuffer(r, n)[i] = Content(r)[i]
    BY <1>1, <1>2, ReadRing
  <2>2. i \in 1 .. q.data - m /\ i + m = m + i
    BY <1>1
  <2>3. Content(r)[i] = Content(q)[i + m]
    BY <2>2, <1>1
  <2> QED BY <2>1, <2>2, <2>3
<1> QED BY <1>3, <1>7, <1>8

LEMMA ParseFrame ==
    ASSUME NEW q, GoodRing(q, Byte), NEW p \in Sendable, TotalSize(p) <= q.data,
           \A i \in 1 .. TotalSize(p) : Content(q)[i] = Frame(p)[i],
           NEW r1, r1 = RemoveData(q, Field), NEW r2, r2 = RemoveData(r1, Field),
           NEW r3, r3 = RemoveData(r2, HeadSize(p))
    PROVE  /\ Value(MemcpyFromBuffer(q, Field)) = TotalSize(p)
           /\ Value(MemcpyFromBuffer(r1, Field)) = HeadSize(p)
           /\ Value(MemcpyFromBuffer(r2, HeadSize(p))) = p
           /\ Rest(q, 2 * Field + HeadSize(p), r3)
           /\ MemcpyFromBuffer(r3, p.len) = Bytes("body", p, p.len)
           /\ Rest(q, TotalSize(p), RemoveData(r3, p.len))
<1>1. PICK f \in Nat : f = Field /\ f > 0
  BY SizesFacts
<1>2. PICK h \in Nat : h = HeadSize(p) /\ h > 0
  BY PacketSizes
<1>3. PICK n \in Nat : n = p.len
  BY PacketSizes
<1>4. PICK t \in Nat : t = TotalSize(p)
  BY PacketSizes
<1>5. t = n + h + 2 * f
  BY <1>1, <1>2, <1>3, <1>4, PacketSizes
<1>6. q.data \in Nat /\ t <= q.data
  BY <1>4, RingFields
<1>7. PICK c : c = Content(q)
  OBVIOUS
<1>8. /\ c[1] = <<"total", t, 1>> /\ c[f + 1] = <<"headSize", h, 1>>
      /\ c[2 * f + 1] = <<"head", p, 1>>
      /\ \A i \in 1 .. n : c[2 * f + h + i] = <<"body", p, i>>
  <2>1. \A i \in 1 .. t : c[i] = Frame(p)[i]
    BY <1>4, <1>7
  <2>2. /\ Frame(p)[1] = <<"total", t, 1>> /\ Frame(p)[f + 1] = <<"headSize", h, 1>>
        /\ Frame(p)[2 * f + 1] = <<"head", p, 1>>
        /\ \A i \in 1 .. n : Frame(p)[2 * f + h + i] = <<"body", p, i>>
    BY <1>1, <1>2, <1>3, <1>4, FrameFacts
  <2>3. /\ 1 \in 1 .. t /\ f + 1 \in 1 .. t /\ 2 * f + 1 \in 1 .. t
        /\ \A i \in 1 .. n : 2 * f + h + i \in 1 .. t
    BY <1>1, <1>2, <1>5
  <2> QED BY <2>1, <2>2, <2>3
<1>9. Rest(q, 0, q)
  BY <1>6 DEF Rest
<1>10. Rest(q, f, r1) /\ \A i \in 1 .. f : MemcpyFromBuffer(q, f)[i] = c[i]
  <2>1. 0 + f <= q.data
    BY <1>1, <1>5, <1>6
  <2>2. /\ Rest(q, 0 + f, RemoveData(q, f))
        /\ \A i \in 1 .. f : MemcpyFromBuffer(q, f)[i] = Content(q)[0 + i]
    BY <2>1, <1>9, RestMore
  <2> QED BY <2>2, <1>1, <1>7
<1>11. Rest(q, 2 * f, r2) /\ \A i \in 1 .. f : MemcpyFromBuffer(r1, f)[i] = c[f + i]
  <2>1. f + f <= q.data /\ f + f = 2 * f
    BY <1>1, <1>5, <1>6
  <2>2. /\ Rest(q, f + f, RemoveData(r1, f))
        /\ \A i \in 1 .. f : MemcpyFromBuffer(r1, f)[i] = Content(q)[f + i]
    BY <2>1, <1>10, RestMore
  <2> QED BY <2>1, <2>2, <1>1, <1>7
<1>12. PICK g \in Nat : g = 2 * f
  OBVIOUS
<1>13. Rest(q, g + h, r3) /\ \A i \in 1 .. h : MemcpyFromBuffer(r2, h)[i] = c[g + i]
  <2>1. g + h <= q.data /\ Rest(q, g, r2)
    BY <1>5, <1>6, <1>11, <1>12
  <2>2. /\ Rest(q, g + h, RemoveData(r2, h))
        /\ \A i \in 1 .. h : MemcpyFromBuffer(r2, h)[i] = Content(q)[g + i]
    BY <2>1, RestMore
  <2> QED BY <2>2, <1>2, <1>7
<1>14. PICK e \in Nat : e = g + h
  OBVIOUS
<1>15. Rest(q, t, RemoveData(r3, n)) /\ \A i \in 1 .. n : MemcpyFromBuffer(r3, n)[i] = c[e + i]
  <2>1. e + n <= q.data /\ Rest(q, e, r3) /\ e + n = t
    BY <1>5, <1>6, <1>12, <1>13, <1>14
  <2>2. /\ Rest(q, e + n, RemoveData(r3, n))
        /\ \A i \in 1 .. n : MemcpyFromBuffer(r3, n)[i] = Content(q)[e + i]
    BY <2>1, RestMore
  <2> QED BY <2>1, <2>2, <1>7
<1>16. Value(MemcpyFromBuffer(q, Field)) = TotalSize(p)
  <2>1. MemcpyFromBuffer(q, f)[1] = <<"total", t, 1>>
    BY <1>1, <1>8, <1>10
  <2>2. Value(MemcpyFromBuffer(q, f)) = t
    BY <2>1 DEF Value
  <2> QED BY <2>2, <1>1, <1>4
<1>17. Value(MemcpyFromBuffer(r1, Field)) = HeadSize(p)
  <2>1. MemcpyFromBuffer(r1, f)[1] = <<"headSize", h, 1>>
    BY <1>1, <1>8, <1>11
  <2>2. Value(MemcpyFromBuffer(r1, f)) = h
    BY <2>1 DEF Value
  <2> QED BY <2>2, <1>1, <1>2
<1>18. Value(MemcpyFromBuffer(r2, HeadSize(p))) = p
  <2>1. MemcpyFromBuffer(r2, h)[1] = <<"head", p, 1>>
    BY <1>2, <1>8, <1>12, <1>13
  <2>2. Value(MemcpyFromBuffer(r2, h)) = p
    BY <2>1 DEF Value
  <2> QED BY <2>2, <1>2
<1>19. MemcpyFromBuffer(r3, p.len) = Bytes("body", p, p.len)
  <2>1. \A i \in 1 .. n : MemcpyFromBuffer(r3, n)[i] = <<"body", p, i>>
    BY <1>8, <1>12, <1>14, <1>15
  <2>2. MemcpyFromBuffer(r3, n) = [i \in 1 .. n |-> MemcpyFromBuffer(r3, n)[i]]
    BY DEF MemcpyFromBuffer
  <2>3. MemcpyFromBuffer(r3, n) = [i \in 1 .. n |-> <<"body", p, i>>]
    BY <2>1, <2>2
  <2> QED BY <2>3, <1>3 DEF Bytes
<1> QED BY <1>1, <1>2, <1>3, <1>4, <1>12, <1>13, <1>15, <1>16, <1>17, <1>18, <1>19

-----------------------------------------------------------------------------
(***************************************************************************)
(* The stream: what the receiver has, what is on the wire, what the        *)
(* sender has.                                                             *)
(***************************************************************************)
LEMMA ThreeParts ==
    ASSUME NEW c \in Seq(Byte), NEW w \in Seq(Byte), NEW d \in Seq(Byte),
           NEW y, y = c \o w, NEW s, s = y \o d, NEW x, x = w \o d
    PROVE  /\ s \in Seq(Byte) /\ Len(s) = Len(c) + Len(x) /\ Len(x) \in Nat
           /\ \A i \in 1 .. Len(c) + Len(x) : s[i] = IF i <= Len(c) THEN c[i] ELSE x[i - Len(c)]
<1>1. s = c \o x
  BY ConcatAssociative
<1>2. x \in Seq(Byte)
  BY ConcatProperties
<1>3. Len(x) \in Nat
  BY <1>2
<1>4. /\ c \o x \in Seq(Byte) /\ Len(c \o x) = Len(c) + Len(x)
      /\ \A i \in 1 .. Len(c) + Len(x) : (c \o x)[i] = IF i <= Len(c) THEN c[i] ELSE x[i - Len(c)]
  BY <1>2, ConcatProperties
<1> QED BY <1>1, <1>3, <1>4

LEMMA Assoc ==
    ASSUME NEW s \in Seq(Byte), NEW t \in Seq(Byte), NEW u \in Seq(Byte)
    PROVE  (s \o t) \o u = s \o (t \o u)
BY ConcatAssociative

LEMMA FrontAndRest ==
    ASSUME NEW w \in Seq(Byte), NEW n \in 1 .. Len(w)
    PROVE  /\ SubSeq(w, 1, n) \in Seq(Byte) /\ Len(SubSeq(w, 1, n)) = n
           /\ SubSeq(w, n + 1, Len(w)) \in Seq(Byte)
           /\ SubSeq(w, 1, n) \o SubSeq(w, n + 1, Len(w)) = w
<1>1. /\ 1 \in 1 .. Len(w) + 1 /\ n \in (1 - 1) .. Len(w) /\ Len(w) \in n .. Len(w)
  OBVIOUS
<1>2. SubSeq(w, 1, n) \o SubSeq(w, n + 1, Len(w)) = SubSeq(w, 1, Len(w))
  BY <1>1, ConcatAdjacentSubSeq
<1>3. SubSeq(w, 1, Len(w)) = w
  BY SubSeqFull
<1>4. SubSeq(w, 1, n) \in Seq(Byte) /\ Len(SubSeq(w, 1, n)) = n
  OBVIOUS
<1>5. SubSeq(w, n + 1, Len(w)) \in Seq(Byte)
  OBVIOUS
<1> QED BY <1>2, <1>3, <1>4, <1>5

\* ::send moves bytes from the ring to the wire.
LEMMA StreamSend ==
    ASSUME NEW c \in Seq(Byte), NEW w \in Seq(Byte), NEW d \in Seq(Byte), NEW n \in 1 .. Len(d)
    PROVE  (c \o (w \o SubSeq(d, 1, n))) \o SubSeq(d, n + 1, Len(d)) = (c \o w) \o d
<1>1. PICK a : a = SubSeq(d, 1, n)
  OBVIOUS
<1>2. PICK b : b = SubSeq(d, n + 1, Len(d))
  OBVIOUS
<1>3. a \in Seq(Byte) /\ b \in Seq(Byte) /\ a \o b = d
  BY <1>1, <1>2, FrontAndRest
<1>8. a \in Seq(Byte) /\ b \in Seq(Byte)
  BY <1>3
<1>4. (c \o w) \o a = c \o (w \o a)
  BY <1>8, Assoc
<1>5. PICK x : x = c \o w
  OBVIOUS
<1>6. x \in Seq(Byte)
  BY <1>5, ConcatProperties
<1>7. (x \o a) \o b = x \o (a \o b)
  BY <1>8, <1>6, Assoc
<1> QED BY <1>1, <1>2, <1>3, <1>4, <1>5, <1>7

\* ::recv moves bytes from the wire to the ring.
LEMMA StreamRecv ==
    ASSUME NEW c \in Seq(Byte), NEW w \in Seq(Byte), NEW n \in 1 .. Len(w)
    PROVE  (c \o SubSeq(w, 1, n)) \o SubSeq(w, n + 1, Len(w)) = c \o w
<1>1. PICK a : a = SubSeq(w, 1, n)
  OBVIOUS
<1>2. PICK b : b = SubSeq(w, n + 1, Len(w))
  OBVIOUS
<1>3. a \in Seq(Byte) /\ b \in Seq(Byte) /\ a \o b = w
  BY <1>1, <1>2, FrontAndRest
<1>8. a \in Seq(Byte) /\ b \in Seq(Byte)
  BY <1>3
<1>4. (c \o a) \o b = c \o (a \o b)
  BY <1>8, Assoc
<1> QED BY <1>1, <1>2, <1>3, <1>4

LEMMA DropFront ==
    ASSUME NEW s \in Seq(Byte), NEW m, m \in Nat, m <= Len(s)
    PROVE  /\ SubSeq(s, m + 1, Len(s)) \in Seq(Byte)
           /\ Len(SubSeq(s, m + 1, Len(s))) = Len(s) - m
           /\ \A i \in 1 .. Len(s) - m : SubSeq(s, m + 1, Len(s))[i] = s[i + m]
OBVIOUS


-----------------------------------------------------------------------------
(***************************************************************************)
(* The rings of the two objects.                                           *)
(***************************************************************************)
LEMMA JunkIsByte == Junk \in Byte
BY DEF Byte

LEMMA NewRingGood ==
    ASSUME NEW n \in Nat \ {0}
    PROVE  GoodRing(NewRing(n), Byte) /\ Content(NewRing(n)) = <<>>
<1>1. PICK r : r = NewRing(n)
  OBVIOUS
<1>2. /\ r.buf = [i \in 0 .. n - 1 |-> Junk] /\ r.size = n /\ r.begin = 0 /\ r.end = 0 /\ r.data = 0
  BY <1>1 DEF NewRing
<1>3. r.buf \in [0 .. n - 1 -> Byte]
  BY <1>2, JunkIsByte
<1>4. r \in Rings(Byte)
  <2>1. r.buf \in UNION {[0 .. m - 1 -> Byte] : m \in Nat}
    BY <1>3
  <2>2. r = [buf |-> r.buf, size |-> n, begin |-> 0, end |-> 0, data |-> 0]
    BY <1>1, <1>2 DEF NewRing
  <2> QED BY <2>1, <2>2 DEF Rings
<1>5. RingOK(r)
  BY <1>2 DEF RingOK
<1>6. GoodRing(r, Byte)
  BY <1>2, <1>3, <1>4, <1>5 DEF GoodRing
<1>7. Content(r) \in Seq(Byte) /\ Len(Content(r)) = 0
  BY <1>2, <1>6, ContentIsSeq
<1> QED BY <1>1, <1>6, <1>7

\* A pooled object begins its next connection with an empty ring.
LEMMA BackToPoolEmpties ==
    ASSUME NEW r, GoodRing(r, Byte)
    PROVE  GoodRing(BackToPool(r), Byte) /\ Content(BackToPool(r)) = <<>>
<1>1. PICK s : s = BackToPool(r)
  OBVIOUS
<1>2. s.buf = r.buf /\ s.size = r.size /\ s.begin = 0 /\ s.end = 0 /\ s.data = 0
  BY <1>1 DEF BackToPool, GoodRing, Rings
<1>3. s \in Rings(Byte)
  BY <1>1 DEF BackToPool, GoodRing, Rings
<1>4. RingOK(s)
  BY <1>2, RingFields DEF RingOK
<1>5. GoodRing(s, Byte)
  BY <1>2, <1>3, <1>4, RingFields DEF GoodRing
<1>6. Content(s) \in Seq(Byte) /\ Len(Content(s)) = 0
  BY <1>2, <1>5, ContentIsSeq
<1> QED BY <1>1, <1>5, <1>6

\* Before ::recv the ring has room and the bytes it had.
LEMMA RecvReadyGood ==
    ASSUME NEW r, GoodRing(r, Byte)
    PROVE  /\ GoodRing(RecvReady(r), Byte) /\ Content(RecvReady(r)) = Content(r)
           /\ GetEmptySize(RecvReady(r)) > 0
<1>1. GetEmptySize(r) \in Nat
  BY RingFields DEF GetEmptySize
<1>2. Additional \in Nat /\ Additional > 0
  BY AdditionalAssumption
<1>3. CASE GetEmptySize(r) < MaxHead
  <2>1. RecvReady(r) = ReAllocBuffer(r)
    BY <1>3 DEF RecvReady
  <2>2. /\ GoodRing(ReAllocBuffer(r), Byte) /\ Content(ReAllocBuffer(r)) = Content(r)
        /\ GetEmptySize(ReAllocBuffer(r)) = GetEmptySize(r) + Additional
    BY JunkIsByte, ReAllocKeepsContent
  <2> QED BY <1>1, <1>2, <2>1, <2>2
<1>4. CASE ~ (GetEmptySize(r) < MaxHead)
  <2>1. RecvReady(r) = r
    BY <1>4 DEF RecvReady
  <2>2. GetEmptySize(r) > 0
    <3>1. MaxHead \in Nat /\ MaxHead > 0
      BY SizesFacts DEF MaxHead
    <3> QED BY <3>1, <1>1, <1>4
  <2> QED BY <2>1, <2>2
<1> QED BY <1>3, <1>4

LEMMA ReadSizeBound ==
    ASSUME NEW r, GoodRing(r, Byte)
    PROVE  GetReadSize(r) \in Nat /\ GetReadSize(r) <= r.data
<1>1. r.end = IF r.begin + r.data < r.size THEN r.begin + r.data
              ELSE r.begin + r.data - r.size
  BY DEF GoodRing, RingOK
<1> QED BY <1>1, RingFields DEF GetReadSize

-----------------------------------------------------------------------------
(***************************************************************************)
(* The invariant.                                                          *)
(***************************************************************************)
\* What a step does to the stream: the body of StreamStep.
Moves ==
    \/ Stream' = Stream
    \/ adding # NoPacket /\ Stream' = Stream \o Frame(adding)
    \/ Len(Stream') < Len(Stream)
         /\ Stream' = SubSeq(Stream, Len(Stream) - Len(Stream') + 1, Len(Stream))
    \/ conn' # conn /\ Stream' = <<>>

LEMMA InvFacts ==
    ASSUME StreamInv
    PROVE  /\ Content(snd) \in Seq(Byte) /\ Len(Content(snd)) = snd.data /\ snd.data \in Nat
           /\ Content(rcv) \in Seq(Byte) /\ Len(Content(rcv)) = rcv.data /\ rcv.data \in Nat
           /\ GoodRing(snd, Byte) /\ GoodRing(rcv, Byte) /\ wire \in Seq(Byte)
           /\ Stream \in Seq(Byte) /\ Stream = (Content(rcv) \o wire) \o Content(snd)
           /\ sent \in Seq(Sendable) /\ Len(got) \in 0 .. Len(sent)
<1>1. GoodRing(snd, Byte) /\ GoodRing(rcv, Byte) /\ wire \in Seq(Byte) /\ sent \in Seq(Sendable)
      /\ got \in Seq(Sendable \X Seq(Byte)) /\ Received
  BY DEF StreamInv
<1>2. /\ Content(snd) \in Seq(Byte) /\ Len(Content(snd)) = snd.data /\ snd.data \in Nat
  BY <1>1, ContentIsSeq, RingFields
<1>3. /\ Content(rcv) \in Seq(Byte) /\ Len(Content(rcv)) = rcv.data /\ rcv.data \in Nat
  BY <1>1, ContentIsSeq, RingFields
<1>4. Stream = (Content(rcv) \o wire) \o Content(snd)
  BY DEF Stream
<1>5. Stream \in Seq(Byte)
  <2>1. PICK y \in Seq(Byte) : y = Content(rcv) \o wire
    BY <1>1, <1>3, ConcatProperties
  <2> QED BY <2>1, <1>2, <1>4, ConcatProperties
<1>6. Len(got) \in Nat /\ Len(sent) \in Nat
  BY <1>1
<1>7. Len(got) <= Len(sent)
  BY <1>1 DEF Received
<1> QED BY <1>1, <1>2, <1>3, <1>4, <1>5, <1>6, <1>7

\* A step that leaves the stream, the packets sent and the packets got.
LEMMA QuietStep ==
    ASSUME StreamInv, GoodRing(snd', Byte), GoodRing(rcv', Byte), wire' \in Seq(Byte),
           adding' \in Sendable \union {NoPacket}, Stream' = Stream,
           sent' = sent, got' = got, conn' = conn,
           rpc' \in {"idle", "recv", "parse", "closing"},
           rpc = "closing" => rpc' = "closing"
    PROVE  StreamInv'
<1>1. Received'
  BY DEF StreamInv, Received
<1>2. rpc' # "closing" => Framed(Stream', sent', Len(got'))
  BY DEF StreamInv
<1>3. conn' \in 1 .. MaxConns /\ sent' \in Seq(Sendable) /\ got' \in Seq(Sendable \X Seq(Byte))
  BY DEF StreamInv
<1> HIDE DEF Received, Framed, Stream
<1> QED BY <1>1, <1>2, <1>3 DEF StreamInv

LEMMA InitInv == ASSUME Init PROVE StreamInv
<1>1. GoodRing(snd, Byte) /\ Content(snd) = <<>> /\ GoodRing(rcv, Byte) /\ Content(rcv) = <<>>
  BY SizesAssumption, NewRingGood DEF Init
<1>2. sent = <<>> /\ got = <<>> /\ wire = <<>> /\ adding = NoPacket /\ rpc = "idle" /\ conn = 1
  BY DEF Init
<1>3. Stream = <<>>
  <2>1. (<<>> \o <<>>) \o <<>> = <<>>
    OBVIOUS
  <2> QED BY <2>1, <1>1, <1>2 DEF Stream
<1>4. /\ wire \in Seq(Byte) /\ sent \in Seq(Sendable) /\ got \in Seq(Sendable \X Seq(Byte))
      /\ Len(got) = 0 /\ Len(sent) = 0
  BY <1>2
<1>5. Framed(Stream, sent, Len(got))
  BY <1>2, <1>3, <1>4, FramedNone
<1>6. Received
  BY <1>4 DEF Received
<1>7. conn \in 1 .. MaxConns
  BY <1>2, SizesFacts
<1> QED BY <1>1, <1>2, <1>4, <1>5, <1>6, <1>7 DEF StreamInv

LEMMA SendPacketStep == ASSUME NoWrap, StreamInv, SendPacket PROVE StreamInv' /\ Moves
<1>1. UNCHANGED <<snd, rcv, wire, rpc, sent, got, conn>>
  BY DEF SendPacket
<1>2. Stream' = Stream
  BY <1>1 DEF Stream
<1>3. adding' \in Sendable
  <2>1. PICK k \in Kinds :
            adding' = [conn |-> conn, no |-> Len(sent) + 1, s2s |-> k.s2s,
                       known |-> k.known, len |-> k.len]
    BY DEF SendPacket
  <2>2. k.s2s \in BOOLEAN /\ k.known \in BOOLEAN /\ k.len \in Nat
    BY SizesAssumption
  <2>3. Len(sent) + 1 \in 1 .. MaxSent
    <3>1. Len(sent) < MaxSent /\ Len(sent) \in Nat
      BY InvFacts DEF SendPacket
    <3> QED BY <3>1, SizesFacts
  <2>4. conn \in 1 .. MaxConns
    BY DEF StreamInv
  <2>5. adding' \in Packet
    BY <2>1, <2>2, <2>3, <2>4 DEF Packet
  <2>6. adding'.len = k.len /\ HeadSize(adding') = HeadSize(k)
    BY <2>1 DEF HeadSize
  <2>7. adding'.len + HeadSize(adding') + 2 * Field < SizeMod
    BY <2>6 DEF NoWrap
  <2> QED BY <2>5, <2>7 DEF Sendable
<1>4. GoodRing(snd', Byte) /\ GoodRing(rcv', Byte) /\ wire' \in Seq(Byte)
  BY <1>1, InvFacts
<1>5. rpc' \in {"idle", "recv", "parse", "closing"} /\ (rpc = "closing" => rpc' = "closing")
  BY <1>1 DEF StreamInv
<1>6. StreamInv'
  BY <1>1, <1>2, <1>3, <1>4, <1>5, QuietStep
<1> QED BY <1>2, <1>6 DEF Moves

LEMMA GrowStep == ASSUME StreamInv, AddPacketGrow PROVE StreamInv' /\ Moves
<1>1. UNCHANGED <<rcv, wire, adding, rpc, sent, got, conn>> /\ snd' = ReAllocBuffer(snd)
  BY DEF AddPacketGrow
<1>2. GoodRing(snd', Byte) /\ Content(snd') = Content(snd)
  BY <1>1, InvFacts, JunkIsByte, ReAllocKeepsContent
<1>3. Stream' = Stream
  BY <1>1, <1>2 DEF Stream
<1>4. GoodRing(rcv', Byte) /\ wire' \in Seq(Byte)
  BY <1>1, InvFacts
<1>5. /\ rpc' \in {"idle", "recv", "parse", "closing"} /\ (rpc = "closing" => rpc' = "closing")
      /\ adding' \in Sendable \union {NoPacket}
  BY <1>1 DEF StreamInv
<1>6. StreamInv'
  BY <1>1, <1>2, <1>3, <1>4, <1>5, QuietStep
<1> QED BY <1>3, <1>6 DEF Moves

LEMMA AddPacketStep == ASSUME StreamInv, AddPacket PROVE StreamInv' /\ Moves
<1>1. /\ UNCHANGED <<rcv, wire, rpc, got, conn>> /\ snd' = MemcpyToBuffer(snd, Frame(adding))
      /\ sent' = Append(sent, adding) /\ adding' = NoPacket
      /\ adding # NoPacket /\ GetEmptySize(snd) >= TotalSize(adding)
  BY DEF AddPacket
<1>2. adding \in Sendable
  BY <1>1 DEF StreamInv
<1>3. PICK f : f = Frame(adding)
  OBVIOUS
<1>4. f \in Seq(Byte) /\ Len(f) = TotalSize(adding) /\ TotalSize(adding) \in Nat
  BY <1>2, <1>3, FrameFacts, PacketSizes
<1>5. GoodRing(snd, Byte) /\ Len(f) <= GetEmptySize(snd)
  <2>1. GoodRing(snd, Byte)
    BY InvFacts
  <2>2. GetEmptySize(snd) \in Int
    BY <2>1, RingFields DEF GetEmptySize
  <2> QED BY <2>1, <2>2, <1>1, <1>4
<1>6. GoodRing(snd', Byte) /\ Content(snd') = Content(snd) \o f
  BY <1>1, <1>3, <1>4, <1>5, MemcpyAppends
<1>7. Stream' = Stream \o f
  <2>1. Stream' = (Content(rcv) \o wire) \o (Content(snd) \o f)
    BY <1>1, <1>6 DEF Stream
  <2>2. (Content(rcv) \o wire) \o (Content(snd) \o f) = Stream \o f
    <3>1. Content(rcv) \in Seq(Byte) /\ wire \in Seq(Byte) /\ Content(snd) \in Seq(Byte)
      BY InvFacts
    <3>2. PICK c \in Seq(Byte), d \in Seq(Byte) : c = Content(rcv) /\ d = Content(snd)
      BY <3>1
    <3>3. PICK w \in Seq(Byte), g \in Seq(Byte) : w = wire /\ g = f
      BY <3>1, <1>4
    <3>4. PICK x \in Seq(Byte) : x = c \o w
      BY ConcatProperties
    <3>5. (x \o d) \o g = x \o (d \o g)
      BY Assoc
    <3> QED BY <3>2, <3>3, <3>4, <3>5 DEF Stream
  <2> QED BY <2>1, <2>2
<1>8. GoodRing(rcv', Byte) /\ wire' \in Seq(Byte)
  BY <1>1, InvFacts
<1>9. /\ rpc' \in {"idle", "recv", "parse", "closing"} /\ rpc' = rpc
      /\ adding' \in Sendable \union {NoPacket} /\ conn' \in 1 .. MaxConns
      /\ got' \in Seq(Sendable \X Seq(Byte))
  BY <1>1 DEF StreamInv
<1>10. /\ sent' \in Seq(Sendable) /\ Len(sent') = Len(sent) + 1
       /\ \A i \in 1 .. Len(sent) : sent'[i] = sent[i]
  BY <1>1, <1>2, InvFacts
<1>11. Received'
  <2>1. Len(got) \in 0 .. Len(sent) /\ got' = got
    BY <1>1, InvFacts
  <2>2. \A i \in 1 .. Len(got) : got[i] = <<sent[i], Bytes("body", sent[i], sent[i].len)>>
    BY DEF StreamInv, Received
  <2>3. \A i \in 1 .. Len(got) : sent'[i] = sent[i]
    BY <2>1, <1>10
  <2>4. \A i \in 1 .. Len(got') :
            got'[i] = <<sent'[i], Bytes("body", sent'[i], sent'[i].len)>>
    BY <2>1, <2>2, <2>3
  <2>5. Len(got') <= Len(sent')
    BY <2>1, <1>10
  <2> QED BY <2>4, <2>5 DEF Received
<1>12. rpc' # "closing" => Framed(Stream', sent', Len(got'))
  <2> SUFFICES ASSUME rpc # "closing" PROVE Framed(Stream', sent', Len(got'))
    BY <1>1
  <2>1. Framed(Stream, sent, Len(got))
    BY DEF StreamInv
  <2>2. Stream \in Seq(Byte) /\ sent \in Seq(Sendable) /\ Len(got) \in 0 .. Len(sent)
    BY InvFacts
  <2>3. Framed(Stream \o Frame(adding), Append(sent, adding), Len(got))
    BY <2>1, <2>2, <1>2, FramedAppend
  <2>4. /\ Stream' = Stream \o Frame(adding) /\ sent' = Append(sent, adding)
        /\ Len(got') = Len(got)
    BY <1>1, <1>3, <1>7
  <2> QED BY <2>3, <2>4
<1>13. StreamInv'
  BY <1>6, <1>8, <1>9, <1>10, <1>11, <1>12 DEF StreamInv
<1> QED BY <1>1, <1>3, <1>7, <1>13 DEF Moves

LEMMA SendStep == ASSUME StreamInv, Send PROVE StreamInv' /\ Moves
<1>1. UNCHANGED <<rcv, adding, rpc, sent, got, conn>>
  BY DEF Send
<1>2. PICK n \in 1 .. GetReadSize(snd) :
          wire' = wire \o MemcpyFromBuffer(snd, n) /\ snd' = RemoveData(snd, n)
  BY DEF Send
<1>3. PICK d : d = Content(snd)
  OBVIOUS
<1>4. /\ GoodRing(snd, Byte) /\ d \in Seq(Byte) /\ Len(d) = snd.data /\ snd.data \in Nat
      /\ wire \in Seq(Byte) /\ Content(rcv) \in Seq(Byte)
  BY <1>3, InvFacts
<1>5. n \in Nat /\ n \in 1 .. Len(d) /\ n <= snd.data
  BY <1>4, ReadSizeBound
<1>6. MemcpyFromBuffer(snd, n) = SubSeq(d, 1, n)
  BY <1>3, <1>4, <1>5, ReadIsFront
<1>7. GoodRing(snd', Byte) /\ Content(snd') = SubSeq(d, n + 1, Len(d))
  BY <1>2, <1>3, <1>4, <1>5, RemoveDataDropsFront
<1>8. wire' = wire \o SubSeq(d, 1, n)
  BY <1>2, <1>6
<1>9. wire' \in Seq(Byte)
  <2>1. SubSeq(d, 1, n) \in Seq(Byte)
    BY <1>4, <1>5, FrontAndRest
  <2> QED BY <2>1, <1>4, <1>8, ConcatProperties
<1>10. Stream' = Stream
  <2>1. Stream' = (Content(rcv) \o (wire \o SubSeq(d, 1, n))) \o SubSeq(d, n + 1, Len(d))
    BY <1>1, <1>7, <1>8 DEF Stream
  <2>2. (Content(rcv) \o (wire \o SubSeq(d, 1, n))) \o SubSeq(d, n + 1, Len(d))
          = (Content(rcv) \o wire) \o d
    BY <1>4, <1>5, StreamSend
  <2> QED BY <2>1, <2>2, <1>3 DEF Stream
<1>11. GoodRing(rcv', Byte)
  BY <1>1, InvFacts
<1>12. /\ rpc' \in {"idle", "recv", "parse", "closing"} /\ (rpc = "closing" => rpc' = "closing")
      /\ adding' \in Sendable \union {NoPacket}
  BY <1>1 DEF StreamInv
<1>13. StreamInv'
  BY <1>1, <1>7, <1>9, <1>10, <1>11, <1>12, QuietStep
<1> QED BY <1>10, <1>13 DEF Moves

LEMMA RecvBytesStep == ASSUME StreamInv, RecvBytes PROVE StreamInv' /\ Moves
<1>1. UNCHANGED <<snd, adding, rpc, sent, got, conn>>
  BY DEF RecvBytes
<1>2. PICK n \in 1 .. Len(wire) :
          /\ n <= GetWriteSize(RecvReady(rcv))
          /\ rcv' = RecvInto(RecvReady(rcv), SubSeq(wire, 1, n))
          /\ wire' = SubSeq(wire, n + 1, Len(wire))
  BY DEF RecvBytes
<1>3. PICK r : r = RecvReady(rcv)
  OBVIOUS
<1>4. GoodRing(r, Byte) /\ Content(r) = Content(rcv) /\ GetEmptySize(r) > 0
  BY <1>3, InvFacts, RecvReadyGood
<1>5. wire \in Seq(Byte) /\ Content(rcv) \in Seq(Byte)
  BY InvFacts
<1>6. PICK a : a = SubSeq(wire, 1, n)
  OBVIOUS
<1>7. a \in Seq(Byte) /\ Len(a) = n /\ wire' \in Seq(Byte)
  BY <1>2, <1>5, <1>6, FrontAndRest
<1>8. Len(a) <= GetWriteSize(r)
  BY <1>2, <1>3, <1>7
<1>9. GoodRing(RecvInto(r, a), Byte) /\ Content(RecvInto(r, a)) = Content(r) \o a
  BY <1>4, <1>7, <1>8, RecvAppends
<1>10. GoodRing(rcv', Byte) /\ Content(rcv') = Content(rcv) \o a
  BY <1>2, <1>3, <1>4, <1>6, <1>9
<1>11. Stream' = Stream
  <2>1. (Content(rcv) \o a) \o wire' = Content(rcv) \o wire
    BY <1>2, <1>5, <1>6, StreamRecv
  <2>2. Stream' = ((Content(rcv) \o a) \o wire') \o Content(snd)
    BY <1>1, <1>10 DEF Stream
  <2> QED BY <2>1, <2>2 DEF Stream
<1>12. GoodRing(snd', Byte)
  BY <1>1, InvFacts
<1>13. /\ rpc' \in {"idle", "recv", "parse", "closing"} /\ (rpc = "closing" => rpc' = "closing")
       /\ adding' \in Sendable \union {NoPacket}
  BY <1>1 DEF StreamInv
<1>14. StreamInv'
  BY <1>1, <1>7, <1>10, <1>11, <1>12, <1>13, QuietStep
<1> QED BY <1>11, <1>14 DEF Moves

LEMMA RecvEndStep == ASSUME StreamInv, RecvEnd PROVE StreamInv' /\ Moves
<1>1. /\ UNCHANGED <<snd, wire, adding, sent, got, conn>> /\ rpc = "recv" /\ rpc' = "parse"
      /\ rcv' = RecvReady(rcv)
  BY DEF RecvEnd
<1>2. GoodRing(rcv', Byte) /\ Content(rcv') = Content(rcv)
  BY <1>1, InvFacts, RecvReadyGood
<1>3. Stream' = Stream
  BY <1>1, <1>2 DEF Stream
<1>4. GoodRing(snd', Byte) /\ wire' \in Seq(Byte)
  BY <1>1, InvFacts
<1>5. /\ rpc' \in {"idle", "recv", "parse", "closing"} /\ (rpc = "closing" => rpc' = "closing")
      /\ adding' \in Sendable \union {NoPacket}
  BY <1>1 DEF StreamInv
<1>6. StreamInv'
  BY <1>1, <1>2, <1>3, <1>4, <1>5, QuietStep
<1> QED BY <1>3, <1>6 DEF Moves

\* RecvBegin, ParseEnd and stuttering steps change at most where the receiver is.
LEMMA PlaceStep ==
    ASSUME StreamInv, UNCHANGED <<snd, rcv, wire, adding, sent, got, conn>>,
           \/ rpc = "idle" /\ rpc' = "recv"
           \/ rpc = "parse" /\ rpc' = "idle"
           \/ rpc' = rpc
    PROVE  StreamInv' /\ Moves
<1>1. Stream' = Stream
  BY DEF Stream
<1>2. GoodRing(snd', Byte) /\ GoodRing(rcv', Byte) /\ wire' \in Seq(Byte)
  BY InvFacts
<1>3. /\ rpc' \in {"idle", "recv", "parse", "closing"} /\ (rpc = "closing" => rpc' = "closing")
      /\ adding' \in Sendable \union {NoPacket}
  BY DEF StreamInv
<1>4. StreamInv'
  BY <1>1, <1>2, <1>3, QuietStep
<1> QED BY <1>1, <1>4 DEF Moves

LEMMA ReconnectStep == ASSUME StreamInv, Reconnect PROVE StreamInv' /\ Moves
<1>1. /\ wire' = <<>> /\ sent' = <<>> /\ got' = <<>> /\ rpc' = "idle" /\ conn' = conn + 1
      /\ adding' = adding /\ snd' = BackToPool(snd) /\ rcv' = BackToPool(rcv) /\ conn < MaxConns
  BY DEF Reconnect, BackToPoolBoth
<1>2. /\ GoodRing(snd', Byte) /\ Content(snd') = <<>>
      /\ GoodRing(rcv', Byte) /\ Content(rcv') = <<>>
  BY <1>1, InvFacts, BackToPoolEmpties
<1>3. Stream' = <<>>
  <2>1. (<<>> \o <<>>) \o <<>> = <<>>
    OBVIOUS
  <2> QED BY <2>1, <1>1, <1>2 DEF Stream
<1>4. /\ wire' \in Seq(Byte) /\ sent' \in Seq(Sendable) /\ got' \in Seq(Sendable \X Seq(Byte))
      /\ Len(got') = 0 /\ Len(sent') = 0
  BY <1>1
<1>5. Framed(Stream', sent', Len(got'))
  BY <1>1, <1>3, <1>4, FramedNone
<1>6. Received'
  BY <1>4 DEF Received
<1>7. conn \in 1 .. MaxConns /\ adding' \in Sendable \union {NoPacket}
  BY <1>1 DEF StreamInv
<1>8. conn' \in 1 .. MaxConns /\ conn' # conn
  BY <1>1, <1>7, SizesFacts
<1>9. StreamInv'
  BY <1>1, <1>2, <1>4, <1>5, <1>6, <1>7, <1>8 DEF StreamInv
<1> QED BY <1>3, <1>8, <1>9 DEF Moves

\* When the receiver's ring holds as many bytes as the first field says, it
\* begins with the frame of the next packet.
LEMMA NextPacket ==
    ASSUME StreamInv, rpc # "closing", Complete(rcv), NEW p, p = sent[Len(got) + 1]
    PROVE  /\ Len(got) < Len(sent) /\ p \in Sendable /\ TotalSize(p) <= rcv.data
           /\ \A i \in 1 .. TotalSize(p) : Content(rcv)[i] = Frame(p)[i]
<1>1. PICK c : c = Content(rcv)
  OBVIOUS
<1>2. PICK k \in Nat : k = rcv.data
  BY InvFacts
<1>3. PICK f \in Nat : f = Field /\ f > 0
  BY SizesFacts
<1>4. f <= k
  BY <1>2, <1>3 DEF Complete
<1>5. /\ c \in Seq(Byte) /\ Len(c) = k /\ Stream \in Seq(Byte) /\ sent \in Seq(Sendable)
      /\ Len(got) \in 0 .. Len(sent) /\ GoodRing(rcv, Byte)
  BY <1>1, <1>2, InvFacts
<1>6. PICK x : x = wire \o Content(snd)
  OBVIOUS
<1>7. /\ Len(Stream) = k + Len(x) /\ Len(x) \in Nat
      /\ \A i \in 1 .. k + Len(x) : Stream[i] = IF i <= k THEN c[i] ELSE x[i - k]
  <2>1. wire \in Seq(Byte) /\ Content(snd) \in Seq(Byte) /\ Stream = (c \o wire) \o Content(snd)
    BY <1>1, InvFacts
  <2>2. /\ Len(Stream) = Len(c) + Len(x) /\ Len(x) \in Nat
        /\ \A i \in 1 .. Len(c) + Len(x) :
               Stream[i] = IF i <= Len(c) THEN c[i] ELSE x[i - Len(c)]
    <3>1. PICK d \in Seq(Byte) : d = Content(snd)
      BY <2>1
    <3>2. PICK s : s = Stream
      OBVIOUS
    <3>5. PICK y : y = c \o wire
      OBVIOUS
    <3>3. s = y \o d /\ x = wire \o d /\ c \in Seq(Byte) /\ wire \in Seq(Byte)
      BY <2>1, <3>1, <3>2, <3>5, <1>5, <1>6
    <3>4. /\ Len(s) = Len(c) + Len(x) /\ Len(x) \in Nat
          /\ \A i \in 1 .. Len(c) + Len(x) :
                 s[i] = IF i <= Len(c) THEN c[i] ELSE x[i - Len(c)]
      BY <3>3, <3>5, ThreeParts
    <3> QED BY <3>2, <3>4
  <2> QED BY <2>2, <1>5
<1>8. \A i \in 1 .. k : Stream[i] = c[i]
  BY <1>7
<1>9. Framed(Stream, sent, Len(got)) /\ Len(Stream) > 0
  BY <1>3, <1>4, <1>7 DEF StreamInv
<1>10. /\ Len(got) < Len(sent) /\ p \in Sendable /\ TotalSize(p) <= Len(Stream)
       /\ \A i \in 1 .. TotalSize(p) : Stream[i] = Frame(p)[i]
  BY <1>5, <1>9, FramedHead
<1>11. PICK t \in Nat : t = TotalSize(p)
  BY <1>10, PacketSizes
<1>12. t >= 1
  BY <1>10, <1>11, PacketSizes, SizesFacts
<1>13. c[1] = <<"total", t, 1>>
  <2>1. 1 \in 1 .. k /\ 1 \in 1 .. t
    BY <1>3, <1>4, <1>12
  <2>2. c[1] = Frame(p)[1]
    BY <2>1, <1>8, <1>10, <1>11
  <2>3. Frame(p)[1] = <<"total", t, 1>>
    BY <1>10, <1>11, FrameFacts
  <2> QED BY <2>2, <2>3
<1>14. Value(MemcpyFromBuffer(rcv, Field)) = t
  <2>1. \A i \in 1 .. f : MemcpyFromBuffer(rcv, f)[i] = Content(rcv)[i]
    BY <1>2, <1>4, <1>5, ReadRing
  <2>2. MemcpyFromBuffer(rcv, f)[1] = c[1]
    BY <2>1, <1>1, <1>3
  <2>3. MemcpyFromBuffer(rcv, f)[1] = <<"total", t, 1>>
    BY <2>2, <1>13
  <2>4. Value(MemcpyFromBuffer(rcv, f)) = t
    BY <2>3 DEF Value
  <2> QED BY <2>4, <1>3
<1>15. t <= k
  BY <1>2, <1>14 DEF Complete
<1>16. \A i \in 1 .. t : c[i] = Frame(p)[i]
  BY <1>8, <1>10, <1>11, <1>15
<1> QED BY <1>1, <1>2, <1>10, <1>11, <1>15, <1>16

\* GetTcpPacket takes m bytes off the front of the stream.
LEMMA StreamDrop ==
    ASSUME StreamInv, NEW m, Rest(rcv, m, rcv'), snd' = snd, wire' = wire
    PROVE  /\ Stream \in Seq(Byte) /\ Stream' \in Seq(Byte) /\ Len(Stream') = Len(Stream) - m
           /\ \A i \in 1 .. Len(Stream) - m : Stream'[i] = Stream[i + m]
           /\ Stream' = SubSeq(Stream, m + 1, Len(Stream))
<1>1. PICK c \in Seq(Byte) : c = Content(rcv)
  BY InvFacts
<1>2. PICK d \in Seq(Byte) : d = Content(snd)
  BY InvFacts
<1>3. PICK k \in Nat : k = rcv.data
  BY InvFacts
<1>4. PICK e \in Seq(Byte) : e = Content(rcv')
  BY ContentIsSeq DEF Rest
<1>5. /\ Len(c) = k /\ Len(e) = k - m /\ wire \in Seq(Byte)
      /\ m \in Nat /\ m <= k /\ \A i \in 1 .. k - m : e[i] = c[i + m]
  BY <1>1, <1>3, <1>4, InvFacts, ContentIsSeq DEF Rest
<1>6. PICK x : x = wire \o d
  OBVIOUS
<1>7. PICK s : s = Stream
  OBVIOUS
<1>8. PICK s2 : s2 = Stream'
  OBVIOUS
<1>9. PICK y : y = c \o wire
  OBVIOUS
<1>10. PICK z : z = e \o wire
  OBVIOUS
<1>11. s = y \o d /\ s2 = z \o d
  BY <1>1, <1>2, <1>4, <1>7, <1>8, <1>9, <1>10 DEF Stream
<1>12. /\ s \in Seq(Byte) /\ Len(s) = Len(c) + Len(x) /\ Len(x) \in Nat
       /\ \A i \in 1 .. Len(c) + Len(x) : s[i] = IF i <= Len(c) THEN c[i] ELSE x[i - Len(c)]
  <2>1. s = y \o d /\ wire \in Seq(Byte)
    BY <1>5, <1>11
  <2> QED BY <2>1, <1>6, <1>9, ThreeParts
<1>13. /\ s2 \in Seq(Byte) /\ Len(s2) = Len(e) + Len(x)
       /\ \A i \in 1 .. Len(e) + Len(x) : s2[i] = IF i <= Len(e) THEN e[i] ELSE x[i - Len(e)]
  <2>1. s2 = z \o d /\ wire \in Seq(Byte)
    BY <1>5, <1>11
  <2> QED BY <2>1, <1>6, <1>10, ThreeParts
<1>14. PICK l \in Nat : l = Len(x)
  BY <1>12
<1>15. PICK j \in Nat : j = k - m
  BY <1>5
<1>16. Len(s) = k + l /\ \A i \in 1 .. k + l : s[i] = IF i <= k THEN c[i] ELSE x[i - k]
  BY <1>5, <1>12, <1>14
<1>17. Len(s2) = j + l /\ \A i \in 1 .. j + l : s2[i] = IF i <= j THEN e[i] ELSE x[i - j]
  BY <1>5, <1>13, <1>14, <1>15
<1>18. Len(s2) = Len(s) - m /\ Len(s) - m = j + l
  BY <1>5, <1>15, <1>16, <1>17
<1>19. ASSUME NEW i \in 1 .. j + l PROVE s2[i] = s[i + m]
  <2>1. i + m \in 1 .. k + l /\ (i <= j <=> i + m <= k) /\ (i + m) - k = i - j
    BY <1>5, <1>15
  <2>2. s[i + m] = IF i + m <= k THEN c[i + m] ELSE x[(i + m) - k]
    BY <2>1, <1>16
  <2>3. CASE i <= j
    <3>1. i \in 1 .. k - m
      BY <2>3, <1>15
    <3>2. e[i] = c[i + m]
      BY <3>1, <1>5
    <3> QED BY <2>1, <2>2, <2>3, <3>2, <1>17
  <2>4. CASE ~ (i <= j)
    BY <2>1, <2>2, <2>4, <1>17
  <2> QED BY <2>3, <2>4
<1>20. s2 = SubSeq(s, m + 1, Len(s))
  <2>1. m \in Nat /\ m <= Len(s) /\ s \in Seq(Byte)
    BY <1>5, <1>12, <1>16
  <2>2. /\ SubSeq(s, m + 1, Len(s)) \in Seq(Byte)
        /\ Len(SubSeq(s, m + 1, Len(s))) = Len(s) - m
        /\ \A i \in 1 .. Len(s) - m : SubSeq(s, m + 1, Len(s))[i] = s[i + m]
    BY <2>1, DropFront
  <2>3. /\ Len(SubSeq(s, m + 1, Len(s))) = j + l
        /\ \A i \in 1 .. j + l : SubSeq(s, m + 1, Len(s))[i] = s2[i]
    BY <2>2, <1>18, <1>19
  <2> QED BY <2>2, <2>3, <1>13, <1>17, SeqEqual
<1> QED BY <1>7, <1>8, <1>12, <1>13, <1>18, <1>19, <1>20

LEMMA GetTcpPacketStep == ASSUME StreamInv, GetTcpPacket PROVE StreamInv' /\ Moves
<1>1. /\ UNCHANGED <<snd, wire, adding, sent, conn>> /\ rpc = "parse" /\ Complete(rcv)
  BY DEF GetTcpPacket
<1>2. PICK p : p = sent[Len(got) + 1]
  OBVIOUS
<1>3. /\ Len(got) < Len(sent) /\ p \in Sendable /\ TotalSize(p) <= rcv.data
      /\ \A i \in 1 .. TotalSize(p) : Content(rcv)[i] = Frame(p)[i]
  BY <1>1, <1>2, NextPacket
<1>4. PICK r1 : r1 = RemoveData(rcv, Field)
  OBVIOUS
<1>5. PICK r2 : r2 = RemoveData(r1, Field)
  OBVIOUS
<1>6. PICK r3 : r3 = RemoveData(r2, HeadSize(p))
  OBVIOUS
<1>7. PICK r4 : r4 = RemoveData(r3, p.len)
  OBVIOUS
<1>8. GoodRing(rcv, Byte)
  BY InvFacts
<1>9. /\ Value(MemcpyFromBuffer(rcv, Field)) = TotalSize(p)
      /\ Value(MemcpyFromBuffer(r1, Field)) = HeadSize(p)
      /\ Value(MemcpyFromBuffer(r2, HeadSize(p))) = p
      /\ Rest(rcv, 2 * Field + HeadSize(p), r3)
      /\ MemcpyFromBuffer(r3, p.len) = Bytes("body", p, p.len)
      /\ Rest(rcv, TotalSize(p), r4)
  BY <1>3, <1>4, <1>5, <1>6, <1>7, <1>8, ParseFrame
<1>10. (IF HeadSize(p) = HeadC2S THEN HeadC2S ELSE HeadS2S) = HeadSize(p)
  BY DEF HeadSize
<1>11. TotalSize(p) - HeadSize(p) - 2 * Field = p.len
  BY <1>3, PacketSizes, SizesFacts
<1>12. IF p.known
       THEN /\ got' = Append(got, <<p, Bytes("body", p, p.len)>>)
            /\ rcv' = r4 /\ rpc' = rpc
       ELSE /\ rcv' = r3 /\ got' = got /\ rpc' = "closing"
  <2> DEFINE total == Value(MemcpyFromBuffer(rcv, Field))
             q1 == RemoveData(rcv, Field)
             headSize == Value(MemcpyFromBuffer(q1, Field))
             q2 == RemoveData(q1, Field)
             size == IF headSize = HeadC2S THEN HeadC2S ELSE HeadS2S
             q == Value(MemcpyFromBuffer(q2, size))
             q3 == RemoveData(q2, size)
             n == total - size - 2 * Field
  <2>1. IF q.known
        THEN /\ got' = Append(got, <<q, MemcpyFromBuffer(q3, n)>>)
             /\ rcv' = RemoveData(q3, n) /\ rpc' = rpc
        ELSE /\ rcv' = q3 /\ got' = got /\ rpc' = "closing"
    BY DEF GetTcpPacket
  <2>2. q1 = r1 /\ q2 = r2 /\ total = TotalSize(p)
    BY <1>4, <1>5, <1>9
  <2>3. headSize = HeadSize(p)
    BY <2>2, <1>9
  <2> HIDE DEF q1, q2, total, headSize
  <2>4. size = HeadSize(p)
    BY <2>3, <1>10
  <2> HIDE DEF size
  <2>5. q = p /\ q3 = r3 /\ n = p.len
    BY <2>2, <2>4, <1>6, <1>9, <1>11
  <2> HIDE DEF q, q3, n
  <2> QED BY <2>1, <2>5, <1>7, <1>9
<1>13. PICK s : s = Stream
  OBVIOUS
<1>16. GoodRing(snd', Byte) /\ wire' \in Seq(Byte) /\ sent' \in Seq(Sendable)
       /\ adding' \in Sendable \union {NoPacket} /\ conn' \in 1 .. MaxConns
  BY <1>1 DEF StreamInv
<1>17. Received /\ got \in Seq(Sendable \X Seq(Byte)) /\ Len(got) \in 0 .. Len(sent)
  BY InvFacts DEF StreamInv
<1>18. CASE p.known
  <2>1. got' = Append(got, <<p, Bytes("body", p, p.len)>>) /\ rcv' = r4 /\ rpc' = rpc
    BY <1>12, <1>18
  <2>2. PICK t : t = TotalSize(p)
    OBVIOUS
  <2>3. t \in Nat /\ t > 0
    BY <2>2, <1>3, PacketSizes, SizesFacts
  <2>4. PICK s2 : s2 = Stream'
    OBVIOUS
  <2>6. Rest(rcv, t, rcv')
    BY <2>1, <2>2, <1>9
  <2>7. /\ s \in Seq(Byte) /\ s2 \in Seq(Byte) /\ Len(s2) = Len(s) - t
        /\ \A i \in 1 .. Len(s) - t : s2[i] = s[i + t]
        /\ s2 = SubSeq(s, t + 1, Len(s))
    BY <2>3, <2>4, <2>6, <1>1, <1>13, StreamDrop
  <2>8. Moves
    <3>1. Len(s2) < Len(s) /\ Len(s) - Len(s2) + 1 = t + 1
      BY <2>3, <2>7
    <3>2. s2 = SubSeq(s, Len(s) - Len(s2) + 1, Len(s))
      BY <3>1, <2>7
    <3> QED BY <3>1, <3>2, <2>4, <1>13 DEF Moves
  <2>9. <<p, Bytes("body", p, p.len)>> \in Sendable \X Seq(Byte)
    <3>1. Bytes("body", p, p.len) \in Seq(Byte)
      BY <1>3, PacketSizes, BytesFacts
    <3> QED BY <3>1, <1>3
  <2>10. /\ got' \in Seq(Sendable \X Seq(Byte)) /\ Len(got') = Len(got) + 1
         /\ \A i \in 1 .. Len(got) : got'[i] = got[i]
         /\ got'[Len(got) + 1] = <<p, Bytes("body", p, p.len)>>
    BY <2>1, <2>9, <1>17
  <2>11. Received'
    <3>1. Len(got') <= Len(sent')
      BY <2>10, <1>1, <1>3, <1>17
    <3>2. ASSUME NEW i \in 1 .. Len(got')
          PROVE  got'[i] = <<sent'[i], Bytes("body", sent'[i], sent'[i].len)>>
      <4>1. CASE i = Len(got) + 1
        BY <4>1, <2>10, <1>1, <1>2
      <4>2. CASE i # Len(got) + 1
        <5>1. i \in 1 .. Len(got)
          BY <4>2, <2>10, <1>17
        <5>2. got[i] = <<sent[i], Bytes("body", sent[i], sent[i].len)>>
          BY <5>1, <1>17 DEF Received
        <5> QED BY <5>1, <5>2, <2>10, <1>1
      <4> QED BY <4>1, <4>2
    <3> QED BY <3>1, <3>2 DEF Received
  <2>12. Framed(Stream', sent', Len(got'))
    <3>1. Framed(s, sent, Len(got))
      BY <1>1, <1>13 DEF StreamInv
    <3>2. sent \in Seq(Sendable) /\ t = TotalSize(sent[Len(got) + 1])
      BY <1>2, <2>2, InvFacts
    <3>3. Framed(s2, sent, Len(got) + 1)
      BY <3>1, <3>2, <2>7, <1>3, <1>17, FramedDrop
    <3> QED BY <3>3, <2>4, <2>10, <1>1
  <2>13. GoodRing(rcv', Byte) /\ rpc' = "parse"
    BY <2>1, <2>6, <1>1 DEF Rest
  <2>14. StreamInv'
    BY <2>10, <2>11, <2>12, <2>13, <1>16 DEF StreamInv
  <2> QED BY <2>8, <2>14
<1>19. CASE ~ p.known
  <2>1. got' = got /\ rcv' = r3 /\ rpc' = "closing"
    BY <1>12, <1>19
  <2>2. PICK t : t = 2 * Field + HeadSize(p)
    OBVIOUS
  <2>3. t \in Nat /\ t > 0
    BY <2>2, <1>3, PacketSizes, SizesFacts
  <2>4. PICK s2 : s2 = Stream'
    OBVIOUS
  <2>6. Rest(rcv, t, rcv')
    BY <2>1, <2>2, <1>9
  <2>7. /\ s \in Seq(Byte) /\ s2 \in Seq(Byte) /\ Len(s2) = Len(s) - t
        /\ s2 = SubSeq(s, t + 1, Len(s))
    BY <2>3, <2>4, <2>6, <1>1, <1>13, StreamDrop
  <2>8. Moves
    <3>1. Len(s2) < Len(s) /\ Len(s) - Len(s2) + 1 = t + 1
      BY <2>3, <2>7
    <3>2. s2 = SubSeq(s, Len(s) - Len(s2) + 1, Len(s))
      BY <3>1, <2>7
    <3> QED BY <3>1, <3>2, <2>4, <1>13 DEF Moves
  <2>9. Received'
    BY <2>1, <1>1, <1>17 DEF Received
  <2>10. GoodRing(rcv', Byte)
    BY <2>1, <2>6 DEF Rest
  <2>11. StreamInv'
    BY <2>1, <2>9, <2>10, <1>16, <1>17 DEF StreamInv
  <2> QED BY <2>8, <2>11
<1> QED BY <1>18, <1>19

LEMMA NextStep == ASSUME NoWrap, StreamInv, [Next]_vars PROVE StreamInv' /\ [Moves]_vars
<1>1. CASE SendPacket
  BY <1>1, SendPacketStep
<1>2. CASE AddPacketGrow
  BY <1>2, GrowStep
<1>3. CASE AddPacket
  BY <1>3, AddPacketStep
<1>4. CASE Send
  BY <1>4, SendStep
<1>5. CASE RecvBegin
  BY <1>5, PlaceStep DEF RecvBegin
<1>6. CASE RecvBytes
  BY <1>6, RecvBytesStep
<1>7. CASE RecvEnd
  BY <1>7, RecvEndStep
<1>8. CASE GetTcpPacket
  BY <1>8, GetTcpPacketStep
<1>9. CASE ParseEnd
  BY <1>9, PlaceStep DEF ParseEnd
<1>10. CASE Reconnect
  BY <1>10, ReconnectStep
<1>11. CASE SendNothing
  BY <1>11, PlaceStep DEF SendNothing
<1>12. CASE SendFails
  BY <1>12, PlaceStep DEF SendFails
<1>13. CASE UNCHANGED vars
  BY <1>13, PlaceStep DEF vars
<1> QED
  BY <1>1, <1>2, <1>3, <1>4, <1>5, <1>6, <1>7, <1>8, <1>9, <1>10, <1>11, <1>12, <1>13 DEF Next

\* What the sender does with EPOLLOUT.
Outs == out \in {"on", "off", "more", "gone"}

LEMMA OutsKept == Outs /\ [Next]_vars => Outs'
<1> SUFFICES ASSUME Outs, [Next]_vars PROVE Outs'
  OBVIOUS
<1>1. CASE SendPacket \/ AddPacketGrow \/ RecvBegin \/ RecvBytes \/ RecvEnd \/ GetTcpPacket \/ ParseEnd
  <2>1. UNCHANGED out
    BY <1>1 DEF SendPacket, AddPacketGrow, RecvBegin, RecvBytes, RecvEnd, GetTcpPacket, ParseEnd
  <2> QED BY <2>1 DEF Outs
<1>2. CASE AddPacket \/ Reconnect
  BY <1>2 DEF Outs, AddPacket, Reconnect
<1>3. CASE Send
  <2>1. PICK n \in 1 .. GetReadSize(snd) :
            out' = IF n < GetReadSize(snd) \/ n = snd.data THEN "off" ELSE "more"
    BY <1>3 DEF Send
  <2> QED BY <2>1 DEF Outs
<1>4. CASE SendNothing \/ SendFails
  BY <1>4 DEF Outs, SendNothing, SendFails
<1>5. CASE UNCHANGED vars
  BY <1>5 DEF Outs, vars
<1> QED BY <1>1, <1>2, <1>3, <1>4, <1>5 DEF Next

\* The bytes between AddPacket and GetTcpPacket are always the frames of the
\* packets sent and not yet received, in order, wherever the rings, partial sends
\* and partial receives have cut them (until a message id is not known).
THEOREM FramedCorrect == ASSUME NoWrap PROVE Spec => []StreamInv
<1>1. Init => StreamInv
  BY InitInv
<1>2. StreamInv /\ [Next]_vars => StreamInv'
  BY NextStep
<1> QED BY <1>1, <1>2, PTL DEF Spec

\* No step of ConnectObj::Send and Recv loses, repeats or reorders a byte.
THEOREM StreamStepCorrect == ASSUME NoWrap PROVE Spec => StreamStep
<1>1. StreamInv /\ [Next]_vars => [Moves]_vars
  BY NextStep
<1>2. Spec => []StreamInv
  BY FramedCorrect
<1> QED BY <1>1, <1>2, PTL DEF Spec, StreamStep, Moves

\* GetTcpPacket gives the packets of this connection, in order and with their
\* bodies, and nothing of an earlier connection of the pooled objects.
THEOREM ReceivedCorrect == ASSUME NoWrap PROVE Spec => []Received
<1>1. StreamInv => Received
  BY DEF StreamInv
<1> QED BY <1>1, FramedCorrect, PTL

\* ConnectObj::Recv always offers ::recv some space, and no unread byte in it.
THEOREM RecvRoomCorrect == ASSUME NoWrap PROVE Spec => []RecvRoom
<1>1. StreamInv => RecvRoom
  <2> SUFFICES ASSUME StreamInv PROVE RecvRoom
    OBVIOUS
  <2>1. PICK r : r = RecvReady(rcv)
    OBVIOUS
  <2>2. GoodRing(r, Byte) /\ GetEmptySize(r) > 0
    BY <2>1, InvFacts, RecvReadyGood
  <2>3. PICK bytes \in Seq(Byte) : bytes = <<>>
    BY EmptySeq
  <2>4. Len(bytes) <= GetWriteSize(r)
    BY <2>2, <2>3, RingFields DEF GetWriteSize
  <2>5. GetWriteSize(r) > 0 /\ GetWriteSize(r) <= GetEmptySize(r)
    BY <2>2, <2>4, RecvAppends
  <2> QED BY <2>1, <2>5 DEF RecvRoom
<1> QED BY <1>1, FramedCorrect, PTL

\* With a single packet under way the first field of the stream is its length.
THEOREM FrameFormatCorrect == ASSUME NoWrap PROVE Spec => []FrameFormat
<1>1. StreamInv => FrameFormat
  <2> SUFFICES ASSUME StreamInv, Len(sent) = Len(got) + 1, rpc # "closing"
               PROVE  Value(Stream) = Len(Stream)
    BY DEF FrameFormat
  <2>1. /\ Stream \in Seq(Byte) /\ sent \in Seq(Sendable) /\ Len(got) \in 0 .. Len(sent)
        /\ Framed(Stream, sent, Len(got))
    BY InvFacts DEF StreamInv
  <2>2. PICK off : FramedAt(Stream, sent, Len(got), off)
    BY <2>1 DEF Framed
  <2>3. PICK k \in Nat : k = Len(got) + 1
    BY <2>1
  <2>4. PICK p : p = sent[k]
    OBVIOUS
  <2>5. k \in 1 .. Len(sent) /\ k \in Len(got) + 1 .. Len(sent) /\ k - 1 = Len(got) /\ Len(sent) = k
    BY <2>1, <2>3
  <2>6. p \in Sendable
    BY <2>1, <2>4, <2>5
  <2>7. /\ off[k] = off[k - 1] + TotalSize(p) /\ off[k - 1] = 0 /\ off[k] = Len(Stream)
        /\ \A i \in 1 .. TotalSize(p) : Stream[off[k - 1] + i] = Frame(p)[i]
    BY <2>2, <2>4, <2>5 DEF FramedAt
  <2>8. TotalSize(p) \in Nat /\ TotalSize(p) > 0
    BY <2>6, PacketSizes, SizesFacts
  <2>9. Len(Stream) = TotalSize(p) /\ Stream[1] = Frame(p)[1]
    BY <2>7, <2>8
  <2>10. Frame(p)[1] = <<"total", TotalSize(p), 1>>
    BY <2>6, FrameFacts
  <2> QED BY <2>9, <2>10 DEF Value
<1> QED BY <1>1, FramedCorrect, PTL

\* The rings' indices stay inside their allocations and agree with _dataSize.
THEOREM TypeCorrect == ASSUME NoWrap PROVE Spec => []TypeOK
<1>1. ASSUME NEW r, GoodRing(r, Byte) PROVE Ring(r)
  BY <1>1 DEF GoodRing, Rings, Ring
<1>2. StreamInv /\ Outs => TypeOK
  BY <1>1 DEF StreamInv, TypeOK, Sendable, Outs
<1>3. Init => Outs
  BY DEF Init, Outs
<1>4. Outs /\ [Next]_vars => Outs'
  BY OutsKept
<1> QED BY <1>2, <1>3, <1>4, FramedCorrect, PTL DEF Spec
=============================================================================
