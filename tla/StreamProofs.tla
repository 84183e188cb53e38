---------------------------- MODULE StreamProofs -----------------------------
(***************************************************************************)
(* The bytes of a connection.  A net::Buffer is a byte queue whose         *)
(* assertions hold, whatever the sizes and however much is put in and      *)
(* taken.  An HTTP connection, for any requests, any number of them and    *)
(* any window, forgets no routine that waits, returns exactly the requests *)
(* the client sent, and gives each one response.                           *)
(***************************************************************************)
EXTENDS NetBuffer, HttpServer, WellFoundedInduction, SequenceTheorems, TLAPS

-----------------------------------------------------------------------------
(* The operations on a buffer, and the sequence it holds.                  *)

\* b is a buffer that holds s, and no assertion failed on it.
Good(b, s) == IsBuffer(b) /\ Holds(b, s) /\ b.aborted = FALSE

\* Compaction keeps the content, and frees the bytes before it.
LEMMA CompactGood ==
    ASSUME NEW b, NEW s \in Seq(Bytes), Good(b, s), kCheapPrepend < b.reader_index
    PROVE  /\ Good(Compact(b), s)
           /\ writable_bytes(Compact(b))
                = writable_bytes(b) + b.reader_index - kCheapPrepend
<1> DEFINE c == Compact(b)
<1>1. c = [size |-> b.size, reader_index |-> kCheapPrepend,
           writer_index |-> kCheapPrepend + readable_bytes(b),
           bytes |-> Copy(b, kCheapPrepend), aborted |-> FALSE]
  BY Zenon DEF Compact, With, Good
<1> HIDE DEF c
<1>2. /\ Len(s) \in Nat /\ readable_bytes(b) = Len(s)
      /\ b.reader_index \in Nat /\ b.writer_index \in Nat /\ b.size \in Nat
      /\ b.writer_index = b.reader_index + Len(s)
  BY LenProperties DEF Good, IsBuffer, Holds, readable_bytes
<1>f. /\ c.size = b.size /\ c.reader_index = kCheapPrepend
      /\ c.writer_index = kCheapPrepend + Len(s)
      /\ c.bytes = Copy(b, kCheapPrepend)
  BY <1>1, <1>2
<1>g. c.aborted \in BOOLEAN
  BY <1>1
<1>3. IsBuffer(c)
  <2>1. DOMAIN Copy(b, kCheapPrepend) = kCheapPrepend..(kCheapPrepend + Len(s) - 1)
    BY <1>2 DEF Copy
  <2> QED
    <3>1. kCheapPrepend + Len(s) <= b.size
      BY <1>2, BufferAssumption DEF Good, IsBuffer
    <3> QED
      BY <1>f, <1>g, <1>2, <2>1, <3>1, BufferAssumption DEF IsBuffer
<1>4. Holds(c, s)
  <2>1. readable_bytes(c) = Len(s)
    BY <1>1, <1>2, BufferAssumption DEF readable_bytes
  <2>2. ASSUME NEW i \in 1..Len(s)
        PROVE  c.bytes[c.reader_index + i - 1] = s[i]
    <3>1. c.reader_index + i - 1 \in kCheapPrepend..(kCheapPrepend + readable_bytes(b) - 1)
      BY <1>1, <1>2, BufferAssumption
    <3>2. c.bytes[c.reader_index + i - 1]
             = b.bytes[(c.reader_index + i - 1) - kCheapPrepend + b.reader_index]
      BY <1>1, <3>1 DEF Copy
    <3>3. (c.reader_index + i - 1) - kCheapPrepend + b.reader_index = b.reader_index + i - 1
      BY <1>1, <1>2, BufferAssumption
    <3> QED
      BY <3>2, <3>3 DEF Good, Holds
  <2> QED
    BY <2>1, <2>2 DEF Holds
<1>5. writable_bytes(c) = writable_bytes(b) + b.reader_index - kCheapPrepend
  <2>1. writable_bytes(c) = b.size - (kCheapPrepend + Len(s))
    BY <1>f DEF writable_bytes
  <2>2. writable_bytes(b) = b.size - (b.reader_index + Len(s))
    BY <1>2 DEF writable_bytes
  <2>3. PICK n \in Nat : n = Len(s)
    BY <1>2
  <2>4. PICK size \in Nat, reader \in Nat : size = b.size /\ reader = b.reader_index
    BY <1>2
  <2>5. size - (kCheapPrepend + n) = size - (reader + n) + reader - kCheapPrepend
    BY BufferAssumption
  <2> QED
    BY <2>1, <2>2, <2>3, <2>4, <2>5
<1> QED
  BY <1>1, <1>3, <1>4, <1>5 DEF Good, c

\* MakeSpace keeps the content and makes room for len bytes; it compacts only a
\* buffer with free bytes before its content.
LEMMA MakeSpaceGood ==
    ASSUME NEW b, NEW s \in Seq(Bytes), NEW len \in Nat, Good(b, s),
           writable_bytes(b) < len
    PROVE  Good(MakeSpace(b, len), s) /\ writable_bytes(MakeSpace(b, len)) >= len
<1>1. /\ b.reader_index \in Nat /\ b.writer_index \in Nat /\ b.size \in Nat
      /\ kCheapPrepend \in Nat
  BY BufferAssumption DEF Good, IsBuffer
<1>2. CASE writable_bytes(b) + prependable_bytes(b) < len + kCheapPrepend
  <2>1. Resize(b, len) = [size |-> b.writer_index + len,
           reader_index |-> b.reader_index, writer_index |-> b.writer_index,
           bytes |-> b.bytes, aborted |-> b.aborted]
    BY DEF Resize, With
  <2>2. MakeSpace(b, len) = Resize(b, len)
    BY <1>2 DEF MakeSpace
  <2>3. Holds(Resize(b, len), s)
    BY <2>1 DEF Good, Holds, readable_bytes
  <2>4. IsBuffer(Resize(b, len)) /\ writable_bytes(Resize(b, len)) >= len
    BY <2>1, <1>1 DEF Good, IsBuffer, writable_bytes
  <2> QED
    BY <2>1, <2>2, <2>3, <2>4 DEF Good
<1>3. CASE ~(writable_bytes(b) + prependable_bytes(b) < len + kCheapPrepend)
  <2>1. /\ kCheapPrepend < b.reader_index
        /\ writable_bytes(b) + b.reader_index - kCheapPrepend >= len
    BY <1>1, <1>3 DEF writable_bytes, prependable_bytes
  <2>2. MakeSpace(b, len) = Compact(b)
    BY <1>3 DEF MakeSpace
  <2> QED
    BY <2>1, <2>2, CompactGood, Zenon
<1> QED
  BY <1>2, <1>3

\* EnsureWritableBytes keeps the content and leaves room for len bytes; a buffer
\* with that room is not touched.
LEMMA EnsureGood ==
    ASSUME NEW b, NEW s \in Seq(Bytes), NEW len \in Nat, Good(b, s)
    PROVE  /\ Good(EnsureWritableBytes(b, len), s)
           /\ writable_bytes(EnsureWritableBytes(b, len)) >= len
           /\ writable_bytes(b) >= len => EnsureWritableBytes(b, len) = b
<1> DEFINE c == IF writable_bytes(b) < len THEN MakeSpace(b, len) ELSE b
<1>1. writable_bytes(b) \in Int
  BY DEF Good, IsBuffer, writable_bytes
<1>2. Good(c, s) /\ writable_bytes(c) >= len
  <2>1. CASE writable_bytes(b) < len
    BY <2>1, MakeSpaceGood
  <2>2. CASE ~(writable_bytes(b) < len)
    BY <2>2, <1>1
  <2> QED
    BY <2>1, <2>2
<1>3. writable_bytes(c) \in Int
  BY <1>2 DEF Good, IsBuffer, writable_bytes
<1>4. EnsureWritableBytes(b, len)
         = IF writable_bytes(c) < len THEN Abort(c) ELSE c
  BY DEF EnsureWritableBytes
<1> HIDE DEF c
<1>5. ~(writable_bytes(c) < len)
  BY <1>2, <1>3
<1>6. EnsureWritableBytes(b, len) = c
  BY <1>4, <1>5
<1>7. writable_bytes(b) >= len => c = b
  BY <1>1 DEF c
<1> QED
  BY <1>2, <1>6, <1>7

\* Bytes put where there is room for them are appended to the content.
LEMMA PutGood ==
    ASSUME NEW b, NEW s \in Seq(Bytes), NEW data \in Seq(Bytes), Good(b, s),
           Len(data) <= writable_bytes(b)
    PROVE  /\ Good(Put(b, data), s \o data)
           /\ writable_bytes(Put(b, data)) = writable_bytes(b) - Len(data)
           /\ Put(b, data).size = b.size
<1> DEFINE c == Put(b, data)
<1>1. c = [size |-> b.size, reader_index |-> b.reader_index,
           writer_index |-> b.writer_index + Len(data),
           bytes |-> CopyIn(b, data), aborted |-> FALSE]
  BY Zenon DEF Put, With, Good
<1> HIDE DEF c
<1>f. /\ c.size = b.size /\ c.reader_index = b.reader_index
      /\ c.writer_index = b.writer_index + Len(data)
  BY <1>1
<1>g. c.bytes = CopyIn(b, data)
  BY <1>1
<1>2. /\ Len(s) \in Nat /\ Len(data) \in Nat
      /\ b.reader_index \in Nat /\ b.writer_index \in Nat /\ b.size \in Nat
      /\ b.writer_index = b.reader_index + Len(s)
      /\ Len(data) <= b.size - b.writer_index
  BY LenProperties DEF Good, IsBuffer, Holds, readable_bytes, writable_bytes
<1>3. IsBuffer(c)
  <2>1. DOMAIN CopyIn(b, data) = b.reader_index..(b.writer_index + Len(data) - 1)
    BY DEF CopyIn
  <2>2. c.aborted \in BOOLEAN
    BY <1>1
  <2>3. kCheapPrepend <= b.reader_index
    BY DEF Good, IsBuffer
  <2> QED
    <3>1. b.reader_index <= b.writer_index + Len(data)
          /\ b.writer_index + Len(data) <= b.size
          /\ b.writer_index + Len(data) \in Nat
      BY <1>2
    <3> QED
      <4>1. /\ c.size \in Nat /\ c.reader_index \in Nat /\ c.writer_index \in Nat
            /\ kCheapPrepend <= c.reader_index
            /\ c.reader_index <= c.writer_index /\ c.writer_index <= c.size
        BY <1>f, <1>2, <2>3, <3>1
      <4>2. DOMAIN c.bytes = b.reader_index..(b.writer_index + Len(data) - 1)
        BY <1>g, <2>1
      <4>3. DOMAIN c.bytes = c.reader_index..(c.writer_index - 1)
        <5>1. PICK n \in Nat : n = b.writer_index + Len(data)
          BY <3>1
        <5>2. DOMAIN c.bytes = b.reader_index..(n - 1)
          <6>1. PICK w \in Nat, k \in Nat : w = b.writer_index /\ k = Len(data)
            BY <1>2
          <6>2. n = w + k
            BY <5>1, <6>1, Zenon
          <6>3. w + k - 1 = n - 1
            BY <6>2
          <6> QED
            BY <4>2, <6>1, <6>3, Zenon
        <5>3. c.writer_index = n /\ c.reader_index = b.reader_index
          BY <1>f, <5>1
        <5> QED
          BY <1>2, <5>2, <5>3
      <4> QED
        BY <4>1, <4>3, <2>2 DEF IsBuffer
<1>4. Len(s \o data) = Len(s) + Len(data)
  BY ConcatProperties
<1>5. ASSUME NEW i \in 1..Len(s \o data)
      PROVE  c.bytes[c.reader_index + i - 1] = (s \o data)[i]
  <2>1. c.reader_index + i - 1 \in b.reader_index..(b.writer_index + Len(data) - 1)
    <3>1. PICK r \in Nat, m \in Nat, k \in Nat :
             r = b.reader_index /\ m = Len(s) /\ k = Len(data)
      BY <1>2
    <3>2. b.writer_index = r + m /\ i \in 1..(m + k) /\ c.reader_index = r
      BY <1>f, <1>2, <1>4, <3>1
    <3>3. r + i - 1 \in r..((r + m) + k - 1)
      BY <3>2
    <3> QED
      BY <3>1, <3>2, <3>3
  <2>2. CASE i <= Len(s)
    <3>1. c.reader_index + i - 1 < b.writer_index /\ i \in 1..Len(s)
      BY <1>f, <1>2, <1>4, <2>2
    <3>2. c.bytes[c.reader_index + i - 1] = b.bytes[b.reader_index + i - 1]
      BY <1>f, <1>g, <2>1, <3>1 DEF CopyIn
    <3>3. b.bytes[b.reader_index + i - 1] = s[i]
      BY <3>1 DEF Good, Holds
    <3>4. (s \o data)[i] = s[i]
      BY <1>4, <2>2, ConcatProperties
    <3> QED
      BY <3>2, <3>3, <3>4
  <2>3. CASE ~(i <= Len(s))
    <3>1. /\ ~(c.reader_index + i - 1 < b.writer_index)
          /\ (c.reader_index + i - 1) - b.writer_index + 1 = i - Len(s)
      <4>1. PICK r \in Nat, m \in Nat : r = b.reader_index /\ m = Len(s)
        BY <1>2
      <4>2. c.reader_index = r /\ b.writer_index = r + m /\ i \in Int /\ ~(i <= m)
        BY <1>f, <1>2, <1>4, <2>3, <4>1
      <4>3. ~(r + i - 1 < r + m) /\ (r + i - 1) - (r + m) + 1 = i - m
        BY <4>2
      <4> QED
        BY <4>1, <4>2, <4>3
    <3>2. c.bytes[c.reader_index + i - 1] = data[i - Len(s)]
      BY <1>f, <1>g, <2>1, <3>1 DEF CopyIn
    <3>3. (s \o data)[i] = data[i - Len(s)]
      BY <1>4, <2>3, ConcatProperties
    <3> QED
      BY <3>2, <3>3
  <2> QED
    BY <2>2, <2>3
<1>6. readable_bytes(c) = Len(s \o data)
  BY <1>1, <1>2, <1>4 DEF readable_bytes
<1>7. writable_bytes(c) = writable_bytes(b) - Len(data) /\ c.size = b.size
  BY <1>1, <1>2 DEF writable_bytes
<1> QED
  BY <1>1, <1>3, <1>5, <1>6, <1>7 DEF Good, Holds, c

\* Append appends, after making room.
LEMMA AppendGood ==
    ASSUME NEW b, NEW s \in Seq(Bytes), NEW data \in Seq(Bytes), Good(b, s)
    PROVE  Good(AppendData(b, data), s \o data)
<1>1. CASE data = <<>>
  <2>1. s \o data = s
    BY <1>1, ConcatEmptySeq
  <2> QED
    BY <1>1, <2>1 DEF AppendData
<1>2. CASE data # <<>>
  <2> DEFINE c == EnsureWritableBytes(b, Len(data))
  <2>1. Len(data) \in Nat
    BY LenProperties
  <2>2. Good(c, s) /\ writable_bytes(c) >= Len(data)
    BY <2>1, EnsureGood
  <2>3. writable_bytes(c) \in Int
    BY <2>2 DEF Good, IsBuffer, writable_bytes
  <2> HIDE DEF c
  <2>4. Good(Put(c, data), s \o data)
    BY <2>1, <2>2, <2>3, PutGood
  <2> QED
    BY <1>2, <2>4 DEF AppendData, c
<1> QED
  BY <1>1, <1>2

\* ReadFd appends what readv read, whether or not part of it went to g_extrabuf.
LEMMA ReadGood ==
    ASSUME NEW b, NEW s \in Seq(Bytes), NEW data \in Seq(Bytes), Good(b, s)
    PROVE  Good(ReadInto(b, data), s \o data)
<1> DEFINE w == writable_bytes(b)
<1>1. w \in Nat /\ Len(data) \in Nat
  BY LenProperties DEF Good, IsBuffer, writable_bytes
<1>2. CASE Len(data) <= w
  BY <1>2, PutGood DEF ReadInto
<1>3. CASE ~(Len(data) <= w)
  <2> DEFINE first == SubSeq(data, 1, w)
             rest == SubSeq(data, w + 1, Len(data))
  <2> HIDE DEF w
  <2>1. first \in Seq(Bytes) /\ rest \in Seq(Bytes) /\ Len(first) = w
    BY <1>1, <1>3, SubSeqProperties
  <2>2. data = first \o rest
    <3>1. 1 \in 1..(Len(data) + 1) /\ w \in (1 - 1)..Len(data)
          /\ Len(data) \in w..Len(data)
      BY <1>1, <1>3
    <3> QED
      BY <3>1, ConcatAdjacentSubSeq, SubSeqFull, Zenon
  <2> HIDE DEF first, rest
  <2>3. Good(Put(b, first), s \o first) /\ s \o first \in Seq(Bytes)
    BY <1>1, <2>1, PutGood, ConcatProperties DEF w
  <2>4. Good(AppendData(Put(b, first), rest), (s \o first) \o rest)
    BY <2>1, <2>3, AppendGood, Zenon
  <2>5. (s \o first) \o rest = s \o data
    BY <2>1, <2>2, ConcatAssociative
  <2> QED
    BY <1>3, <2>4, <2>5, Zenon DEF ReadInto, first, rest, w
<1> QED
  BY <1>2, <1>3

\* AddReadableLength appends what its caller put in the writable bytes, and
\* leaves LowWater of them if there were as many before.
LEMMA AddLengthGood ==
    ASSUME NEW b, NEW s \in Seq(Bytes), NEW data \in Seq(Bytes), Good(b, s),
           Len(data) <= writable_bytes(b), LowWater <= writable_bytes(b)
    PROVE  /\ Good(AddLength(b, data), s \o data)
           /\ writable_bytes(AddLength(b, data)) >= LowWater
<1> DEFINE c == Put(b, data)
           more == IF c.size < HighWater THEN c.size ELSE HighWater
<1>1. /\ Len(data) \in Nat /\ writable_bytes(b) \in Int
      /\ s \o data \in Seq(Bytes) /\ LowWater \in Nat
  BY LenProperties, ConcatProperties, BufferAssumption
     DEF Good, IsBuffer, writable_bytes
<1>2. EnsureWritableBytes(b, Len(data)) = b
  BY <1>1, EnsureGood
<1>3. Good(c, s \o data) /\ c.size = b.size
  BY PutGood
<1>4. more \in Nat /\ more >= LowWater
  <2>1. b.size \in Nat /\ b.writer_index \in Nat
    BY DEF Good, IsBuffer
  <2>2. b.size >= LowWater
    BY <1>1, <2>1 DEF writable_bytes
  <2> QED
    BY <1>3, <2>1, <2>2, BufferAssumption
<1>5. AddLength(b, data) = IF writable_bytes(c) >= LowWater THEN c
                           ELSE EnsureWritableBytes(c, more)
  BY <1>2 DEF AddLength
<1> HIDE DEF c, more
<1>6. CASE writable_bytes(c) >= LowWater
  BY <1>3, <1>5, <1>6
<1>7. CASE ~(writable_bytes(c) >= LowWater)
  <2> DEFINE d == EnsureWritableBytes(c, more)
  <2>1. Good(d, s \o data) /\ writable_bytes(d) >= more
    BY <1>1, <1>3, <1>4, EnsureGood, Zenon
  <2> HIDE DEF d
  <2>2. writable_bytes(d) \in Int
    BY <2>1 DEF Good, IsBuffer, writable_bytes
  <2>3. writable_bytes(d) >= LowWater
    BY <1>1, <1>4, <2>1, <2>2
  <2> QED
    BY <1>5, <1>7, <2>1, <2>3 DEF d
<1> QED
  BY <1>6, <1>7

\* Take removes the first len bytes and leaves no less room than there was.
LEMMA TakeGood ==
    ASSUME NEW b, NEW s \in Seq(Bytes), NEW len \in Nat, Good(b, s),
           len <= readable_bytes(b)
    PROVE  /\ Good(TakeLen(b, len), SubSeq(s, len + 1, Len(s)))
           /\ writable_bytes(TakeLen(b, len)) >= writable_bytes(b)
<1> DEFINE c == TakeLen(b, len)
           t == SubSeq(s, len + 1, Len(s))
<1>1. /\ Len(s) \in Nat /\ readable_bytes(b) = Len(s) /\ len <= Len(s)
      /\ b.reader_index \in Nat /\ b.writer_index \in Nat /\ b.size \in Nat
      /\ b.writer_index = b.reader_index + Len(s) /\ b.writer_index <= b.size
      /\ kCheapPrepend \in Nat /\ kCheapPrepend <= b.reader_index
  BY LenProperties, BufferAssumption DEF Good, IsBuffer, Holds, readable_bytes
<1>2. /\ Len(t) = Len(s) - len
      /\ \A i \in 1..Len(t) : t[i] = s[len + i]
  BY <1>1, SubSeqProperties
<1> HIDE DEF t
<1>3. CASE len < Len(s)
  <2>1. c = [size |-> b.size, reader_index |-> b.reader_index + len,
             writer_index |-> b.writer_index,
             bytes |-> Rest(b, b.reader_index + len), aborted |-> FALSE]
    BY <1>1, <1>3, Zenon DEF TakeLen, With, Good
  <2> HIDE DEF c
  <2>2. /\ c.size = b.size /\ c.reader_index = b.reader_index + len
        /\ c.writer_index = b.writer_index
        /\ c.bytes = Rest(b, b.reader_index + len)
    BY <2>1
  <2>3. c.aborted \in BOOLEAN /\ c.aborted = FALSE
    BY <2>1
  <2>4. DOMAIN c.bytes = c.reader_index..(c.writer_index - 1)
    BY <2>2 DEF Rest
  <2>5. IsBuffer(c)
    BY <1>1, <1>3, <2>2, <2>3, <2>4 DEF IsBuffer
  <2>6. readable_bytes(c) = Len(t)
    BY <1>1, <1>2, <2>2 DEF readable_bytes
  <2>7. ASSUME NEW i \in 1..Len(t)
        PROVE  c.bytes[c.reader_index + i - 1] = t[i]
    <3>1. /\ c.reader_index + i - 1 \in (b.reader_index + len)..(b.writer_index - 1)
          /\ c.reader_index + i - 1 = b.reader_index + (len + i) - 1
          /\ len + i \in 1..Len(s)
      <4>1. i \in 1..(Len(s) - len)
        BY <1>2
      <4>2. c.reader_index + i - 1 = b.reader_index + (len + i) - 1
        BY <1>1, <2>2, <4>1
      <4>3. /\ b.reader_index + (len + i) - 1
                 \in (b.reader_index + len)..(b.writer_index - 1)
            /\ len + i \in 1..Len(s)
        <5>1. PICK r \in Nat, m \in Nat : r = b.reader_index /\ m = Len(s)
          BY <1>1
        <5>2. b.writer_index = r + m /\ i \in 1..(m - len) /\ len \in Nat
          BY <1>1, <4>1, <5>1
        <5>3. r + (len + i) - 1 \in (r + len)..((r + m) - 1) /\ len + i \in 1..m
          BY <5>2
        <5> QED
          BY <5>1, <5>2, <5>3
      <4> QED
        BY <4>2, <4>3
    <3>2. c.bytes[c.reader_index + i - 1] = b.bytes[b.reader_index + (len + i) - 1]
      BY <2>2, <3>1 DEF Rest
    <3>3. b.bytes[b.reader_index + (len + i) - 1] = s[len + i]
      BY <3>1 DEF Good, Holds
    <3> QED
      BY <1>2, <3>2, <3>3
  <2>8. writable_bytes(c) >= writable_bytes(b)
    BY <1>1, <2>2 DEF writable_bytes
  <2> QED
    BY <2>3, <2>5, <2>6, <2>7, <2>8 DEF Good, Holds, c, t
<1>4. CASE ~(len < Len(s))
  <2>1. c = [size |-> b.size, reader_index |-> kCheapPrepend,
             writer_index |-> kCheapPrepend, bytes |-> <<>>, aborted |-> FALSE]
    BY <1>1, <1>4, Zenon DEF TakeLen, TakeAll, With, Good
  <2> HIDE DEF c
  <2>2. /\ c.size = b.size /\ c.reader_index = kCheapPrepend
        /\ c.writer_index = kCheapPrepend
    BY <2>1
  <2>3. c.aborted \in BOOLEAN /\ c.aborted = FALSE
    BY <2>1
  <2>4. DOMAIN c.bytes = c.reader_index..(c.writer_index - 1)
    BY <1>1, <2>1, <2>2
  <2>5. IsBuffer(c)
    BY <1>1, <2>2, <2>3, <2>4 DEF IsBuffer
  <2>6. Len(t) = 0 /\ readable_bytes(c) = 0
    BY <1>1, <1>2, <1>4, <2>2 DEF readable_bytes
  <2>7. writable_bytes(c) >= writable_bytes(b)
    BY <1>1, <2>2 DEF writable_bytes
  <2> QED
    BY <2>3, <2>5, <2>6, <2>7 DEF Good, Holds, c, t
<1> QED
  BY <1>3, <1>4

-----------------------------------------------------------------------------
\* The inductive invariant: the buffer holds what is pending, no assertion
\* failed on it, and the readers that need room have it.
BufferInv == TypeOK /\ ContentIsPending /\ AssertionsHold /\ RoomToRead

\* A new buffer is empty and has room.
LEMMA BufferInitInv == BufferInit => BufferInv
<1> SUFFICES ASSUME BufferInit PROVE BufferInv
  OBVIOUS
<1>1. /\ buf.size = kCheapPrepend + InitialSize
      /\ buf.reader_index = kCheapPrepend /\ buf.writer_index = kCheapPrepend
      /\ DOMAIN buf.bytes = {} /\ pending = <<>> /\ Len(pending) = 0
  BY DEF BufferInit, NewBuffer
<1>2. buf.aborted \in BOOLEAN /\ buf.aborted = FALSE
  BY DEF BufferInit, NewBuffer
<1>3. IsBuffer(buf)
  BY <1>1, <1>2, BufferAssumption DEF IsBuffer
<1>4. ContentIsPending
  BY <1>1, BufferAssumption DEF ContentIsPending, Holds, readable_bytes
<1>5. RoomToRead
  BY <1>1, BufferAssumption DEF RoomToRead, writable_bytes
<1>6. pending \in Seq(Bytes) /\ filling \in {"ReadFd", "AddReadableLength"}
  BY DEF BufferInit
<1> QED
  BY <1>2, <1>3, <1>4, <1>5, <1>6 DEF BufferInv, TypeOK, AssertionsHold

\* Every operation preserves the invariant.
LEMMA BufferNextInv == BufferInv /\ [BufferNext]_bufferVars => BufferInv'
<1> SUFFICES ASSUME BufferInv, [BufferNext]_bufferVars PROVE BufferInv'
  OBVIOUS
<1>1. Good(buf, pending) /\ pending \in Seq(Bytes)
  BY DEF BufferInv, TypeOK, ContentIsPending, AssertionsHold, Good
<1>2. ASSUME NEW b, NEW s \in Seq(Bytes), Good(b, s), buf' = b, pending' = s,
             filling' = filling, RoomToRead'
      PROVE  BufferInv'
  BY <1>2 DEF BufferInv, TypeOK, ContentIsPending, AssertionsHold, Good, IsBuffer, Holds,
              readable_bytes
<1>3. ASSUME NEW data \in Data PROVE data \in Seq(Bytes)
  <2>1. PICK n \in 0..MaxLen : data \in [1..n -> Bytes]
    BY DEF Data
  <2> QED
    BY <2>1, BufferAssumption
<1>4. ASSUME NEW data \in Data, ReadFd(data) PROVE BufferInv'
  <2>1. Good(ReadInto(buf, data), pending \o data) /\ pending \o data \in Seq(Bytes)
    BY <1>1, <1>3, ReadGood, ConcatProperties
  <2> QED
    BY <1>2, <1>4, <2>1, Zenon DEF ReadFd, Fill, RoomToRead
<1>5. ASSUME NEW data \in Data, AppendBytes(data) PROVE BufferInv'
  <2>1. Good(AppendData(buf, data), pending \o data) /\ pending \o data \in Seq(Bytes)
    BY <1>1, <1>3, AppendGood, ConcatProperties
  <2> QED
    BY <1>2, <1>5, <2>1, Zenon DEF AppendBytes, Fill, RoomToRead
<1>6. ASSUME NEW data \in Data, AddReadableLength(data) PROVE BufferInv'
  <2>1. LowWater <= writable_bytes(buf)
    <3>1. writable_bytes(buf) \in Int /\ LowWater \in Nat
      BY <1>1, BufferAssumption DEF Good, IsBuffer, writable_bytes
    <3> QED
      BY <1>6, <3>1 DEF AddReadableLength, BufferInv, RoomToRead
  <2>2. /\ Good(AddLength(buf, data), pending \o data)
        /\ pending \o data \in Seq(Bytes)
        /\ writable_bytes(AddLength(buf, data)) >= LowWater
    BY <1>1, <1>3, <1>6, <2>1, AddLengthGood, ConcatProperties DEF AddReadableLength
  <2>3. RoomToRead'
    BY <1>6, <2>2 DEF AddReadableLength, RoomToRead, writable_bytes
  <2> QED
    BY <1>2, <1>6, <2>2, <2>3, Zenon DEF AddReadableLength, Fill
<1>7. ASSUME NEW len \in 1..MaxReadable, Take(len) PROVE BufferInv'
  <2> DEFINE rest == SubSeq(pending, len + 1, Len(pending))
             c == TakeLen(buf, len)
  <2>1. len \in Nat /\ Len(pending) \in Nat
    BY <1>1, BufferAssumption, LenProperties
  <2>2. rest \in Seq(Bytes)
    BY <1>1, <2>1, SubSeqProperties
  <2>3. Good(c, rest) /\ writable_bytes(c) >= writable_bytes(buf)
    BY <1>1, <1>7, <2>1, TakeGood DEF Take
  <2>4. buf' = c /\ pending' = rest /\ filling' = filling
    BY <1>7 DEF Take
  <2> HIDE DEF c, rest
  <2>5. /\ writable_bytes(c) \in Int /\ writable_bytes(buf) \in Int
        /\ LowWater \in Nat
    <3>1. writable_bytes(c) \in Int
      BY <2>3 DEF Good, IsBuffer, writable_bytes
    <3>2. writable_bytes(buf) \in Int
      BY <1>1 DEF Good, IsBuffer, writable_bytes
    <3> QED
      BY <3>1, <3>2, BufferAssumption
  <2>6. RoomToRead'
    <3>1. writable_bytes(buf)' = writable_bytes(c)
      BY <2>4 DEF writable_bytes
    <3> QED
      BY <2>3, <2>4, <2>5, <3>1 DEF BufferInv, RoomToRead
  <2> QED
    BY <1>2, <2>2, <2>3, <2>4, <2>6
<1>8. CASE UNCHANGED bufferVars
  BY <1>1, <1>2, <1>8 DEF bufferVars, BufferInv, RoomToRead, writable_bytes
<1> QED
  BY <1>4, <1>5, <1>6, <1>7, <1>8 DEF BufferNext

\* A net::Buffer is a byte queue: whatever its sizes and however it is filled,
\* compacted, grown and read, its readable bytes are those put in and not taken,
\* in order.
THEOREM BufferIsQueue == BufferSpec => []ContentIsPending
<1>1. BufferInv => ContentIsPending
  BY DEF BufferInv
<1> QED
  BY <1>1, BufferInitInv, BufferNextInv, PTL DEF BufferSpec

\* The indexes of a net::Buffer stay in the order net_buffer.h draws, at least
\* kCheapPrepend from the start.
THEOREM BufferTypeCorrect == BufferSpec => []TypeOK
<1>1. BufferInv => TypeOK
  BY DEF BufferInv
<1> QED
  BY <1>1, BufferInitInv, BufferNextInv, PTL DEF BufferSpec

\* The assertions of MakeSpace and EnsureWritableBytes never fail.
THEOREM BufferAssertions == BufferSpec => []AssertionsHold
<1>1. BufferInv => AssertionsHold
  BY DEF BufferInv
<1> QED
  BY <1>1, BufferInitInv, BufferNextInv, PTL DEF BufferSpec

\* A reader that reads into the writable bytes and calls AddReadableLength always
\* finds LowWater of them.
THEOREM ReaderHasRoom == BufferSpec => []RoomToRead
<1>1. BufferInv => RoomToRead
  BY DEF BufferInv
<1> QED
  BY <1>1, BufferInitInv, BufferNextInv, PTL DEF BufferSpec

-----------------------------------------------------------------------------
(* Waiting for edges.                                                      *)

\* NoLostEdge, and that the flights are counted.
Edges == NoLostEdge /\ hs_in \in Nat /\ hs_read \in Nat

\* Every step keeps an event on its way to a routine whose socket is ready.
LEMMA EdgeStep ==
    ASSUME Edges, [Next]_vars
    PROVE  Edges'
<1> USE DEF Edges, NoLostEdge, conn, response, handshake, client, edges
<1>1. CASE SslFlight \/ SslAcceptFails
  BY <1>1 DEF SslFlight, SslAcceptFails, Goes
<1>2. CASE SslAcceptAgain
  BY <1>2 DEF SslAcceptAgain, Goes
<1>3. CASE DecodeBuffer
  BY <1>3 DEF DecodeBuffer, Goes
<1>4. CASE ReadEof \/ ReadTimeout
  BY <1>4 DEF ReadEof, ReadTimeout, Goes
<1>5. CASE ReadAgain \/ ReadBroken
  BY <1>5 DEF ReadAgain, ReadBroken, Goes
<1>6. ASSUME NEW n \in 1..Len(kernel), Read(n)
      PROVE  Edges'
  BY <1>6 DEF Read
<1>7. ASSUME NEW n \in 1..Len(write_buf), Write(n)
      PROVE  Edges'
  BY <1>7 DEF Write
<1>8. CASE WriteAgain
  BY <1>8, HttpAssumption DEF WriteAgain, Goes
<1>9. CASE WriteFails
  BY <1>9 DEF WriteFails, Goes
<1>10. CASE PollIn
  BY <1>10 DEF PollIn
<1>11. CASE PollOut
  BY <1>11 DEF PollOut
<1>12. CASE DeliverFlight \/ DeliverFin \/ Drain
  BY <1>12 DEF DeliverFlight, DeliverFin, Drain
<1>13. ASSUME NEW n \in 1..Len(sending), Deliver(n)
       PROVE  Edges'
  BY <1>13 DEF Deliver
<1>14. CASE ClientFlight \/ Finish \/ Reset \/ Corrupt
  BY <1>14 DEF ClientFlight, Finish, Reset, Corrupt
<1>15. ASSUME NEW m \in Requests, Request(m)
       PROVE  Edges'
  BY <1>15 DEF Request
<1>16. CASE Terminated \/ UNCHANGED vars
  BY <1>16 DEF Terminated, vars
<1>17. ASSUME NEW n \in 1..hs_out, SslWrite(n)
       PROVE  Edges'
  BY <1>17 DEF SslWrite
<1> QED
  BY <1>1, <1>2, <1>3, <1>4, <1>5, <1>6, <1>7, <1>8, <1>9, <1>10, <1>11, <1>12,
     <1>13, <1>14, <1>15, <1>16, <1>17, Zenon DEF Next, Thread, Routine, Network, Client

\* A routine of AsServer, AsyncRead or AsyncWrite that waits on a socket that is
\* ready has an event coming, whatever arrived between its last try and its wait.
THEOREM EdgesAreNotLost == Spec => []NoLostEdge
<1>1. Init => Edges
  BY DEF Init, Edges, NoLostEdge
<1>2. Edges /\ [Next]_vars => Edges'
  BY EdgeStep
<1>3. Edges => NoLostEdge
  BY DEF Edges
<1> QED
  BY <1>1, <1>2, <1>3, PTL DEF Spec

-----------------------------------------------------------------------------
(* Induction, and the stream of a sequence of messages.                    *)

\* Induction over the naturals, for a set.
LEMMA Induction ==
    ASSUME NEW G, 0 \in G, \A n \in Nat : n \in G => n + 1 \in G
    PROVE  \A n \in Nat : n \in G
<1> DEFINE Bad == {n \in Nat : n \notin G}
           R == OpToRel(<, Nat)
<1>1. IsWellFoundedOn(R, Nat)
  BY NatLessThanWellFounded, Zenon
<1>2. \A x, y \in Nat : <<x, y>> \in R <=> x < y
  BY DEF OpToRel
<1> HIDE DEF R
<1>3. Bad \in SUBSET Nat
  OBVIOUS
<1> SUFFICES ASSUME Bad # {} PROVE FALSE
  OBVIOUS
<1>4. PICK n \in Bad : \A m \in Bad : <<m, n>> \notin R
  <2> HIDE DEF Bad
  <2> QED
    BY <1>1, <1>3, WFMin, Zenon
<1>5. n \in Nat /\ n # 0 /\ n \notin G
  BY <1>4
<1>6. n - 1 \in Nat /\ (n - 1) + 1 = n /\ n - 1 < n
  BY <1>5
<1>7. n - 1 \notin G
  BY <1>5, <1>6
<1>8. n - 1 \in Bad
  BY <1>6, <1>7
<1>9. <<n - 1, n>> \in R
  BY <1>2, <1>5, <1>6
<1> QED
  BY <1>4, <1>8, <1>9

\* A set of naturals that is not empty has a least element.
LEMMA LeastExists ==
    ASSUME NEW S \in SUBSET Nat, S # {}
    PROVE  \E i \in S : \A j \in S : i <= j
<1> DEFINE R == OpToRel(<, Nat)
<1>1. IsWellFoundedOn(R, Nat)
  BY NatLessThanWellFounded, Zenon
<1>2. \A x, y \in Nat : <<x, y>> \in R <=> x < y
  BY DEF OpToRel
<1> HIDE DEF R
<1>3. PICK n \in S : \A m \in S : <<m, n>> \notin R
  BY <1>1, WFMin, Zenon
<1>4. ASSUME NEW m \in S PROVE n <= m
  <2>1. m \in Nat /\ n \in Nat
    BY <1>3
  <2>2. ~(m < n)
    BY <1>2, <1>3, <2>1, Zenon
  <2> QED
    BY <2>1, <2>2
<1> QED
  BY <1>4

\* The messages of s, joined one after the other up to the n-th.
Joins(f, s, n) == f = [i \in 0..n |-> IF i = 0 THEN <<>> ELSE f[i - 1] \o s[i]]

\* The messages of any sequence can be joined, up to any length.
LEMMA JoinsExist ==
    ASSUME NEW s
    PROVE  \A n \in Nat : \E f : Joins(f, s, n)
<1> DEFINE G == {n \in Nat : \E f : Joins(f, s, n)}
<1>1. 0 \in G
  <2>1. Joins([i \in 0..0 |-> <<>>], s, 0)
    BY DEF Joins
  <2> QED
    BY <2>1
<1>2. ASSUME NEW n \in Nat, n \in G PROVE n + 1 \in G
  <2>1. PICK f : Joins(f, s, n)
    BY <1>2
  <2>2. \A i \in 0..n : f[i] = IF i = 0 THEN <<>> ELSE f[i - 1] \o s[i]
    BY <2>1, Zenon DEF Joins
  <2> DEFINE g == [i \in 0..(n + 1) |-> IF i = n + 1 THEN f[n] \o s[n + 1] ELSE f[i]]
  <2>3. ASSUME NEW i \in 0..(n + 1)
        PROVE  g[i] = IF i = 0 THEN <<>> ELSE g[i - 1] \o s[i]
    <3>1. CASE i = n + 1
      <4>1. i # 0 /\ i - 1 = n /\ n \in 0..(n + 1) /\ n # n + 1
        BY <3>1
      <4>2. g[i] = f[n] \o s[n + 1] /\ g[n] = f[n]
        BY <3>1, <4>1, Zenon
      <4> HIDE DEF g
      <4> QED
        BY <3>1, <4>1, <4>2, Zenon
    <3>2. CASE i # n + 1
      <4>1. i \in 0..n /\ g[i] = f[i]
        BY <3>2
      <4>2. i # 0 => i - 1 \in 0..(n + 1) /\ i - 1 # n + 1
        BY <3>2
      <4>3. i # 0 => g[i - 1] = f[i - 1]
        BY <4>2
      <4> HIDE DEF g
      <4> QED
        BY <2>2, <4>1, <4>3
    <3> QED
      BY <3>1, <3>2
  <2>4. g = [i \in 0..(n + 1) |-> g[i]]
    OBVIOUS
  <2> HIDE DEF g
  <2>5. Joins(g, s, n + 1)
    BY <2>3, <2>4, Zenon DEF Joins
  <2> QED
    BY <2>5
<1> HIDE DEF G
<1>3. \A n \in Nat : n \in G
  BY <1>1, <1>2, Induction
<1> QED
  BY <1>3 DEF G

\* The stream is the last of them.
LEMMA StreamJoins ==
    ASSUME NEW S, NEW s \in Seq(S)
    PROVE  \E f : Joins(f, s, Len(s)) /\ Stream(s) = f[Len(s)]
<1>1. Joins(CHOOSE f : Joins(f, s, Len(s)), s, Len(s))
  <2>1. Len(s) \in Nat
    OBVIOUS
  <2> QED
    BY <2>1, JoinsExist, Zenon
<1>2. Stream(s) = (CHOOSE f : Joins(f, s, Len(s)))[Len(s)]
  BY DEF Stream, Joins
<1> QED
  BY <1>1, <1>2, Zenon

\* f grows by one message of s at a time.
Grows(f, s, n) ==
    f[0] = <<>> /\ \A i \in Nat : i + 1 <= n => f[i + 1] = f[i] \o s[i + 1]

\* A joined stream grows by one message at a time.
LEMMA JoinStep ==
    ASSUME NEW s, NEW n \in Nat, NEW f, Joins(f, s, n)
    PROVE  Grows(f, s, n)
<1>1. \A i \in 0..n : f[i] = IF i = 0 THEN <<>> ELSE f[i - 1] \o s[i]
  BY Zenon DEF Joins
<1>2. ASSUME NEW i \in Nat, i + 1 <= n PROVE f[i + 1] = f[i] \o s[i + 1]
  <2>1. i + 1 \in 0..n /\ i + 1 # 0 /\ (i + 1) - 1 = i
    BY <1>2
  <2>2. f[i + 1] = f[(i + 1) - 1] \o s[i + 1]
    BY <1>1, <2>1, Zenon
  <2> QED
    BY <2>1, <2>2, Zenon
<1>3. 0 \in 0..n
  OBVIOUS
<1>4. f[0] = <<>>
  BY <1>1, <1>3, Zenon
<1> QED
  BY <1>2, <1>4, Zenon DEF Grows

\* Joined token sequences are token sequences.
LEMMA JoinType ==
    ASSUME NEW s \in Seq(Seq(Tokens)), NEW f, Joins(f, s, Len(s))
    PROVE  \A i \in 0..Len(s) : f[i] \in Seq(Tokens)
<1>0. PICK N \in Nat : N = Len(s)
  OBVIOUS
<1>1. \A k \in 1..N : s[k] \in Seq(Tokens)
  BY <1>0
<1>2. f[0] = <<>> /\ \A k \in Nat : k + 1 <= N => f[k + 1] = f[k] \o s[k + 1]
  <2>1. Joins(f, s, N)
    BY <1>0
  <2>2. Grows(f, s, N)
    BY <2>1, JoinStep
  <2> QED
    BY <2>2, Zenon DEF Grows
<1> DEFINE G == {n \in Nat : n <= N => f[n] \in Seq(Tokens)}
<1>3. 0 \in G
  <2>1. f[0] \in Seq(Tokens)
    BY <1>2
  <2> QED
    BY <2>1
<1>4. ASSUME NEW n \in Nat, n \in G PROVE n + 1 \in G
  <2>1. CASE n + 1 <= N
    <3>1. n <= N /\ n + 1 \in 1..N
      BY <2>1
    <3>2. f[n] \in Seq(Tokens) /\ s[n + 1] \in Seq(Tokens)
      BY <1>1, <1>4, <3>1
    <3>3. f[n + 1] = f[n] \o s[n + 1]
      BY <1>2, <2>1, Zenon
    <3>4. f[n + 1] \in Seq(Tokens)
      BY <3>2, <3>3, ConcatProperties, Zenon
    <3> QED
      BY <3>4
  <2>2. CASE ~(n + 1 <= N)
    BY <2>2
  <2> QED
    BY <2>1, <2>2
<1> HIDE DEF G
<1>5. \A n \in Nat : n \in G
  BY <1>3, <1>4, Induction, Zenon
<1> QED
  BY <1>0, <1>5 DEF G

\* Sequences that begin alike are joined alike.
LEMMA JoinsAgree ==
    ASSUME NEW s, NEW t, NEW m \in Nat, NEW n \in Nat, NEW f, NEW g,
           Joins(f, s, m), Joins(g, t, n), NEW k \in 0..m, k <= n,
           \A i \in 1..k : s[i] = t[i]
    PROVE  f[k] = g[k]
<1>1. f[0] = <<>> /\ \A i \in Nat : i + 1 <= m => f[i + 1] = f[i] \o s[i + 1]
  <2>1. Joins(f, s, m)
    OBVIOUS
  <2>2. Grows(f, s, m)
    BY <2>1, JoinStep
  <2> QED
    BY <2>2, Zenon DEF Grows
<1>2. g[0] = <<>> /\ \A i \in Nat : i + 1 <= n => g[i + 1] = g[i] \o t[i + 1]
  <2>1. Joins(g, t, n)
    OBVIOUS
  <2>2. Grows(g, t, n)
    BY <2>1, JoinStep
  <2> QED
    BY <2>2, Zenon DEF Grows
<1> DEFINE G == {i \in Nat : i <= k => f[i] = g[i]}
<1>3. 0 \in G
  BY <1>1, <1>2
<1>4. ASSUME NEW i \in Nat, i \in G PROVE i + 1 \in G
  <2>1. CASE i + 1 <= k
    <3>1. i <= k /\ i + 1 \in 1..k /\ i + 1 <= m /\ i + 1 <= n
      BY <2>1
    <3>2. f[i] = g[i] /\ s[i + 1] = t[i + 1]
      BY <1>4, <3>1
    <3>3. f[i + 1] = f[i] \o s[i + 1] /\ g[i + 1] = g[i] \o t[i + 1]
      BY <1>1, <1>2, <3>1, Zenon
    <3>4. f[i + 1] = g[i + 1]
      BY <3>2, <3>3, Zenon
    <3> QED
      BY <3>4
  <2>2. CASE ~(i + 1 <= k)
    BY <2>2
  <2> QED
    BY <2>1, <2>2
<1> HIDE DEF G
<1>5. \A i \in Nat : i \in G
  BY <1>3, <1>4, Induction
<1> QED
  BY <1>5 DEF G

\* Three token sequences join to the same stream either way.
LEMMA Associative ==
    \A x, y, z \in Seq(Tokens) : (x \o y) \o z = x \o (y \o z)
BY ConcatAssociative

\* x, y and z join to the same stream either way.
Joined(x, y, z) == (x \o y) \o z = x \o (y \o z)

\* Any three token sequences do.
LEMMA JoinedEitherWay ==
    ASSUME NEW x, NEW y, NEW z,
           x \in Seq(Tokens), y \in Seq(Tokens), z \in Seq(Tokens)
    PROVE  Joined(x, y, z)
BY Associative DEF Joined

\* A stream of messages is a sequence of tokens.
LEMMA StreamType ==
    ASSUME NEW s \in Seq(Seq(Tokens))
    PROVE  Stream(s) \in Seq(Tokens)
<1>1. PICK f : Joins(f, s, Len(s)) /\ Stream(s) = f[Len(s)]
  BY StreamJoins
<1>2. f[Len(s)] \in Seq(Tokens)
  BY <1>1, JoinType
<1> QED
  BY <1>1, <1>2

\* The stream of a prefix is where the stream of the whole has got to.
LEMMA JoinAt ==
    ASSUME NEW s \in Seq(Seq(Tokens)), NEW t \in Seq(Seq(Tokens)), Len(s) < Len(t),
           \A i \in 1..Len(s) : s[i] = t[i], NEW g, Joins(g, t, Len(t))
    PROVE  g[Len(s) + 1] = Stream(s) \o t[Len(s) + 1]
<1>0. PICK k \in Nat, n \in Nat : k = Len(s) /\ n = Len(t)
  OBVIOUS
<1>1. \A i \in Nat : i + 1 <= n => g[i + 1] = g[i] \o t[i + 1]
  <2>1. Joins(g, t, n)
    BY <1>0
  <2>2. Grows(g, t, n)
    BY <2>1, JoinStep
  <2> QED
    BY <2>2, Zenon DEF Grows
<1>2. PICK f : Joins(f, s, Len(s)) /\ Stream(s) = f[Len(s)]
  BY StreamJoins
<1>3. k \in 0..k /\ k <= n /\ k + 1 <= n
  BY <1>0
<1>4. Joins(f, s, k) /\ Joins(g, t, n) /\ \A i \in 1..k : s[i] = t[i]
  BY <1>0, <1>2
<1>5. f[k] = g[k]
  BY <1>3, <1>4, JoinsAgree, SMTT(15)
<1>6. g[k + 1] = g[k] \o t[k + 1]
  BY <1>1, <1>3, Zenon
<1> QED
  BY <1>0, <1>2, <1>5, <1>6

\* No messages make no stream.
LEMMA StreamOfNone == Stream(<<>>) = <<>>
<1>1. <<>> \in Seq(Seq(Tokens)) /\ Len(<<>>) = 0
  OBVIOUS
<1>2. PICK f : Joins(f, <<>>, Len(<<>>)) /\ Stream(<<>>) = f[Len(<<>>)]
  BY <1>1, StreamJoins, Zenon
<1>3. f[0] = <<>>
  <2>1. Joins(f, <<>>, 0)
    BY <1>1, <1>2
  <2>2. Grows(f, <<>>, 0)
    BY <2>1, JoinStep
  <2> QED
    BY <2>2, Zenon DEF Grows
<1> QED
  BY <1>1, <1>2, <1>3

\* One more message is joined to the end of the stream.
LEMMA StreamAppend ==
    ASSUME NEW s \in Seq(Seq(Tokens)), NEW m \in Seq(Tokens)
    PROVE  Stream(Append(s, m)) = Stream(s) \o m
<1>1. PICK t : t = Append(s, m)
  BY Zenon
<1>2. /\ t \in Seq(Seq(Tokens)) /\ Len(t) = Len(s) + 1 /\ Len(s) < Len(t)
      /\ \A i \in 1..Len(s) : s[i] = t[i]
      /\ t[Len(s) + 1] = m
  BY <1>1
<1>3. PICK g : Joins(g, t, Len(t)) /\ Stream(t) = g[Len(t)]
  BY <1>2, StreamJoins, Zenon
<1>4. g[Len(s) + 1] = Stream(s) \o t[Len(s) + 1]
  BY <1>2, <1>3, JoinAt, Zenon
<1> QED
  BY <1>1, <1>2, <1>3, <1>4

\* A stream continues after some of its messages with the next of them.
LEMMA StreamNext ==
    ASSUME NEW s \in Seq(Seq(Tokens)), NEW t \in Seq(Seq(Tokens)), Len(s) < Len(t),
           \A i \in 1..Len(s) : s[i] = t[i]
    PROVE  \E rest \in Seq(Tokens) :
              Stream(t) = Stream(s) \o (t[Len(s) + 1] \o rest)
<1>0. PICK k \in Nat, n \in Nat : k = Len(s) /\ n = Len(t)
  OBVIOUS
<1>2. PICK g : Joins(g, t, Len(t)) /\ Stream(t) = g[Len(t)]
  BY StreamJoins
<1>3. \A i \in Nat : i + 1 <= n => g[i + 1] = g[i] \o t[i + 1]
  <2>1. Joins(g, t, n)
    BY <1>0, <1>2
  <2>2. Grows(g, t, n)
    BY <2>1, JoinStep
  <2> QED
    BY <2>2, Zenon DEF Grows
<1>4. g[k + 1] = Stream(s) \o t[k + 1]
  BY <1>0, <1>2, JoinAt, Zenon
<1>5. \A i \in 1..n : g[i] \in Seq(Tokens) /\ t[i] \in Seq(Tokens)
  BY <1>0, <1>2, JoinType
<1> DEFINE G == {d \in Nat : (k + 1) + d <= n =>
                    \E rest \in Seq(Tokens) : g[(k + 1) + d] = g[k + 1] \o rest}
<1>6. 0 \in G
  <2>1. g[k + 1] \in Seq(Tokens) /\ (k + 1) + 0 = k + 1
    BY <1>0, <1>5
  <2>2. g[k + 1] = g[k + 1] \o <<>> /\ <<>> \in Seq(Tokens)
    BY <2>1, ConcatEmptySeq
  <2> QED
    BY <2>1, <2>2, Zenon
<1>7. ASSUME NEW d \in Nat, d \in G PROVE d + 1 \in G
  <2>0. d + 1 \in Nat
    OBVIOUS
  <2>1. CASE (k + 1) + (d + 1) <= n
    <3>1. /\ (k + 1) + d \in Nat /\ 1 <= (k + 1) + d /\ ((k + 1) + d) + 1 <= n
          /\ (k + 1) + d <= n /\ (k + 1) + (d + 1) = ((k + 1) + d) + 1
          /\ ((k + 1) + d) + 1 \in 1..n /\ k + 1 \in 1..n
      BY <2>1
    <3>2. PICK rest \in Seq(Tokens) : g[(k + 1) + d] = g[k + 1] \o rest
      BY <1>7, <3>1, Zenon
    <3>3. g[((k + 1) + d) + 1] = g[(k + 1) + d] \o t[((k + 1) + d) + 1]
      BY <1>3, <3>1, Zenon
    <3>4. g[k + 1] \in Seq(Tokens) /\ t[((k + 1) + d) + 1] \in Seq(Tokens)
      BY <1>5, <3>1, Zenon
    <3>5. (g[k + 1] \o rest) \o t[((k + 1) + d) + 1]
            = g[k + 1] \o (rest \o t[((k + 1) + d) + 1])
      <4>1. PICK x \in Seq(Tokens), y \in Seq(Tokens) : x = g[k + 1] /\ y = t[((k + 1) + d) + 1]
        BY <3>4, Zenon
      <4>2. (x \o rest) \o y = x \o (rest \o y)
        BY Associative, Zenon
      <4> QED
        BY <4>1, <4>2, Zenon
    <3>6. rest \o t[((k + 1) + d) + 1] \in Seq(Tokens)
      BY <3>4, ConcatProperties
    <3>7. g[(k + 1) + (d + 1)] = g[k + 1] \o (rest \o t[((k + 1) + d) + 1])
      BY <3>1, <3>2, <3>3, <3>5, Zenon
    <3>8. \E r \in Seq(Tokens) : g[(k + 1) + (d + 1)] = g[k + 1] \o r
      BY <3>6, <3>7, Zenon
    <3> QED
      BY <2>0, <3>8, Zenon
  <2>2. CASE ~((k + 1) + (d + 1) <= n)
    BY <2>0, <2>2, Zenon
  <2> QED
    BY <2>1, <2>2, Zenon
<1> HIDE DEF G
<1>8. \A d \in Nat : d \in G
  BY <1>6, <1>7, Induction, Zenon
<1>9. PICK d \in Nat : (k + 1) + d = n
  <2>1. n - (k + 1) \in Nat /\ (k + 1) + (n - (k + 1)) = n
    BY <1>0
  <2> QED
    BY <2>1, Zenon
<1>10. PICK rest \in Seq(Tokens) : g[n] = g[k + 1] \o rest
  <2>1. (k + 1) + d <= n => \E r \in Seq(Tokens) : g[(k + 1) + d] = g[k + 1] \o r
    BY <1>8, Zenon DEF G
  <2>2. (k + 1) + d <= n
    BY <1>9
  <2> QED
    BY <1>9, <2>1, <2>2, Zenon
<1>11. t[k + 1] \in Seq(Tokens) /\ Stream(s) \in Seq(Tokens)
  BY <1>0, <1>5, StreamType
<1>12. (Stream(s) \o t[k + 1]) \o rest = Stream(s) \o (t[k + 1] \o rest)
  <2>1. PICK x \in Seq(Tokens), y \in Seq(Tokens) : x = Stream(s) /\ y = t[k + 1]
    BY <1>11, Zenon
  <2>2. (x \o y) \o rest = x \o (y \o rest)
    BY Associative, Zenon
  <2> QED
    BY <2>1, <2>2, Zenon
<1>13. Stream(t) = Stream(s) \o (t[k + 1] \o rest)
  BY <1>0, <1>2, <1>4, <1>10, <1>12, Zenon
<1> QED
  BY <1>0, <1>13, Zenon

\* Find returns the first place.
LEMMA FindFirst ==
    ASSUME NEW s \in Seq(Tokens), NEW tokens, NEW p \in 1..Len(s), s[p] \in tokens,
           \A j \in 1..(p - 1) : s[j] \notin tokens
    PROVE  Find(s, tokens) = p
<1>0. DOMAIN s = 1..Len(s) /\ Len(s) \in Nat
  OBVIOUS
<1> DEFINE Is(i) == s[i] \in tokens /\ \A j \in 1..(i - 1) : s[j] \notin tokens
           q == CHOOSE i \in 1..Len(s) : Is(i)
<1>1. Is(p)
  OBVIOUS
<1>2. q \in 1..Len(s) /\ Is(q)
  <2> HIDE DEF Is
  <2> QED
    BY <1>1
<1>3. Find(s, tokens) = q
  BY <1>0 DEF Find
<1> HIDE DEF q
<1>4. ~(q < p) /\ ~(p < q)
  BY <1>0, <1>2
<1> QED
  BY <1>0, <1>2, <1>3, <1>4

\* A search for tokens that do not occur returns 0.
LEMMA FindNothing ==
    ASSUME NEW s \in Seq(Tokens), NEW tokens, \A i \in 1..Len(s) : s[i] \notin tokens
    PROVE  Find(s, tokens) = 0
<1>0. DOMAIN s = 1..Len(s)
  OBVIOUS
<1> QED
  BY <1>0 DEF Find

\* The tokens that are lengths.
LEMMA TokenKinds ==
    /\ First \notin LengthLines /\ Blank \notin LengthLines /\ Body \notin LengthLines /\ NoColon \notin LengthLines
    /\ First # Blank /\ First # Body /\ First # NoColon
    /\ Blank # Body /\ Blank # NoColon
    /\ \A t \in Tokens : t \in LengthLines /\ t # BadLength => t[2] \in Nat
BY DEF LengthLines, First, Blank, Body, NoColon, BadLength, Tokens, Header

\* held holds the beginning of m, or m and more.
Begins(held, m) == \A i \in 1..Len(held) : i <= Len(m) => held[i] = m[i]

\* The blank line of a message is its first.
LEMMA BlankIsFirst ==
    ASSUME NEW m \in Seq(Tokens), NEW pos \in 2..Len(m), Framed(m, pos)
    PROVE  \A i \in 1..Len(m) : m[i] = Blank <=> i = pos
<1> TAKE i \in 1..Len(m)
<1>0. pos \in Nat /\ i \in Nat /\ Len(m) \in Nat
  OBVIOUS
<1>1. i = 1 \/ i \in 2..(pos - 1) \/ i = pos \/ i \in (pos + 1)..Len(m)
  BY <1>0
<1>2. CASE i = 1
  BY <1>0, <1>2, TokenKinds DEF Framed
<1>3. CASE i \in 2..(pos - 1)
  BY <1>0, <1>3 DEF Framed
<1>4. CASE i = pos
  BY <1>4 DEF Framed
<1>5. CASE i \in (pos + 1)..Len(m)
  BY <1>0, <1>5, TokenKinds DEF Framed
<1> QED
  BY <1>1, <1>2, <1>3, <1>4, <1>5

\* The blank line is looked for, and found once it is in the buffer.
LEMMA FindBlank ==
    ASSUME NEW m \in Seq(Tokens), NEW pos \in 2..Len(m), Framed(m, pos),
           NEW held \in Seq(Tokens), Begins(held, m)
    PROVE  Find(held, {Blank}) = IF Len(held) < pos THEN 0 ELSE pos
<1>0. pos \in Nat /\ Len(held) \in Nat /\ Len(m) \in Nat /\ pos <= Len(m) /\ 2 <= pos
  OBVIOUS
<1>1. ASSUME NEW i \in 1..Len(held), i <= pos PROVE held[i] = Blank <=> i = pos
  <2>1. i <= Len(m) /\ i \in 1..Len(m)
    BY <1>0, <1>1
  <2>2. held[i] = m[i]
    BY <2>1 DEF Begins
  <2> QED
    BY <2>1, <2>2, BlankIsFirst
<1>2. CASE Len(held) < pos
  <2>1. \A i \in 1..Len(held) : held[i] \notin {Blank}
    BY <1>0, <1>1, <1>2
  <2> QED
    BY <1>2, <2>1, FindNothing
<1>3. CASE ~(Len(held) < pos)
  <2>1. pos \in 1..Len(held) /\ held[pos] \in {Blank}
    BY <1>0, <1>1, <1>3
  <2>2. \A j \in 1..(pos - 1) : held[j] \notin {Blank}
    BY <1>0, <1>1, <1>3
  <2>3. Find(held, {Blank}) = pos
    BY <2>1, <2>2, FindFirst, Zenon
  <2> QED
    BY <1>3, <2>3
<1> QED
  BY <1>2, <1>3

\* The first of the lengths, once the header is in the buffer.
LEMMA FindLength ==
    ASSUME NEW m \in Seq(Tokens), NEW pos \in 2..Len(m), Framed(m, pos),
           NEW held \in Seq(Tokens), Begins(held, m), pos <= Len(held)
    PROVE  LET j == Find(SubSeq(held, 1, pos - 1), LengthLines)
           IN /\ Lengths(m, pos) = {} => j = 0
              /\ \A i \in Lengths(m, pos) : (\A k \in Lengths(m, pos) : i <= k) => j = i
<1>0. pos \in Nat /\ Len(held) \in Nat /\ Len(m) \in Nat /\ pos <= Len(m) /\ 2 <= pos
  OBVIOUS
<1>1. PICK s \in Seq(Tokens) : s = SubSeq(held, 1, pos - 1)
  <2>1. SubSeq(held, 1, pos - 1) \in Seq(Tokens)
    BY <1>0
  <2> QED
    BY <2>1, Zenon
<1>2. Len(s) = pos - 1 /\ \A i \in 1..(pos - 1) : s[i] = held[i]
  BY <1>0, <1>1
<1>4. ASSUME NEW i \in 1..(pos - 1) PROVE s[i] \in LengthLines <=> i \in Lengths(m, pos)
  <2>1. i \in 1..Len(held) /\ i <= Len(m) /\ (i = 1 \/ i \in 2..(pos - 1))
    BY <1>0
  <2>2. s[i] = m[i]
    BY <1>2, <2>1 DEF Begins
  <2>3. i = 1 => m[i] \notin LengthLines /\ i \notin Lengths(m, pos)
    BY TokenKinds DEF Framed, Lengths
  <2>4. i # 1 => (m[i] \in LengthLines <=> i \in Lengths(m, pos))
    BY <2>1 DEF Lengths
  <2> QED
    BY <2>2, <2>3, <2>4
<1>5. Lengths(m, pos) = {} => Find(s, LengthLines) = 0
  BY <1>2, <1>4, FindNothing
<1>6. ASSUME NEW i \in Lengths(m, pos), \A k \in Lengths(m, pos) : i <= k
      PROVE  Find(s, LengthLines) = i
  <2>1. i \in 1..(pos - 1)
    BY <1>0 DEF Lengths
  <2>2. i \in 1..Len(s) /\ s[i] \in LengthLines
    BY <1>2, <1>4, <2>1
  <2>3. ASSUME NEW k \in 1..(i - 1) PROVE s[k] \notin LengthLines
    <3>1. k \in 1..(pos - 1) /\ ~(i <= k)
      BY <1>0, <2>1
    <3> QED
      BY <1>4, <1>6, <3>1
  <2> QED
    BY <2>2, <2>3, FindFirst
<1> QED
  BY <1>1, <1>5, <1>6

\* Served, where the blank line of a message is known.
LEMMA ServedAt ==
    ASSUME NEW m \in Seq(Tokens), NEW pos \in 2..Len(m), Framed(m, pos)
    PROVE  Served(m) <=>
              /\ pos # 2 /\ \A i \in 2..(pos - 2) : m[i] # NoColon
              /\ \A i \in Lengths(m, pos) : (\A j \in Lengths(m, pos) : i <= j) =>
                    i # pos - 1 /\ m[i] # BadLength
<1>0. /\ pos \in Nat /\ Len(m) \in Nat /\ pos <= Len(m) /\ 2 <= pos
      /\ pos \in 1..Len(m) /\ DOMAIN m = 1..Len(m)
  OBVIOUS
<1>1. (CHOOSE i \in DOMAIN m : m[i] = Blank) = pos
  <2> DEFINE p == CHOOSE i \in 1..Len(m) : m[i] = Blank
  <2>1. m[pos] = Blank
    BY <1>0, BlankIsFirst
  <2>2. p \in 1..Len(m) /\ m[p] = Blank
    BY <1>0, <2>1
  <2> HIDE DEF p
  <2>3. p = pos
    BY <2>2, BlankIsFirst
  <2> QED
    BY <1>0, <2>3 DEF p
<1>2. {i \in 1..pos : m[i] \in LengthLines} = Lengths(m, pos)
  <2>1. m[1] \notin LengthLines /\ m[pos] \notin LengthLines
    BY TokenKinds DEF Framed
  <2>2. \A i \in 1..pos : i = 1 \/ i = pos \/ i \in 2..(pos - 1)
    BY <1>0
  <2>3. \A i \in 2..(pos - 1) : i \in 1..pos
    BY <1>0
  <2> QED
    BY <2>1, <2>2, <2>3, Zenon DEF Lengths
<1>3. Served(m) <=>
        /\ pos > 2 /\ \A i \in 2..(pos - 2) : m[i] # NoColon
        /\ \A i \in Lengths(m, pos) : (\A j \in Lengths(m, pos) : i <= j) =>
              i < pos - 1 /\ m[i] # BadLength /\ Len(m) = pos + m[i][2]
  BY <1>1, <1>2, Zenon DEF Served
<1>4. pos > 2 <=> pos # 2
  BY <1>0
<1>5. ASSUME NEW i \in Lengths(m, pos), \A j \in Lengths(m, pos) : i <= j
      PROVE  (i < pos - 1 /\ m[i] # BadLength /\ Len(m) = pos + m[i][2])
                <=> (i # pos - 1 /\ m[i] # BadLength)
  <2>1. i < pos - 1 <=> i # pos - 1
    BY <1>0 DEF Lengths
  <2>2. m[i] # BadLength => Len(m) = pos + m[i][2]
    BY <1>5, Zenon DEF Framed
  <2> QED
    BY <2>1, <2>2, Zenon
<1> QED
  BY <1>3, <1>4, <1>5, Zenon

\* CheckCompleted waits for the whole message, or reports its length or an error in it.
LEMMA CompletedIs ==
    ASSUME NEW m \in Seq(Tokens), NEW pos \in 2..Len(m), Framed(m, pos),
           NEW held \in Seq(Tokens), Begins(held, m)
    PROVE  \/ CheckCompleted(held) = 0
           \/ /\ CheckCompleted(held) = -1
              /\ \E i \in Lengths(m, pos) :
                    /\ \A j \in Lengths(m, pos) : i <= j
                    /\ i = pos - 1 \/ m[i] = BadLength
           \/ /\ CheckCompleted(held) = Len(m) /\ Len(m) <= Len(held)
              /\ \A i \in Lengths(m, pos) : (\A j \in Lengths(m, pos) : i <= j) =>
                    i # pos - 1 /\ m[i] # BadLength
<1>0. pos \in Nat /\ Len(held) \in Nat /\ Len(m) \in Nat /\ pos <= Len(m) /\ 2 <= pos
  OBVIOUS
<1> DEFINE j == Find(SubSeq(held, 1, pos - 1), LengthLines)
<1>1. CASE Len(held) < pos
  <2>1. Find(held, {Blank}) = 0
    BY <1>1, FindBlank, Zenon
  <2>2. CheckCompleted(held) = 0
    BY <2>1 DEF CheckCompleted
  <2> QED
    BY <2>2
<1>2. CASE ~(Len(held) < pos)
  <2>1. Find(held, {Blank}) = pos /\ pos <= Len(held) /\ pos # 0
    <3>1. Find(held, {Blank}) = IF Len(held) < pos THEN 0 ELSE pos
      BY FindBlank, Zenon
    <3> QED
      BY <1>0, <1>2, <3>1
  <2>2. /\ Lengths(m, pos) = {} => j = 0
        /\ \A i \in Lengths(m, pos) : (\A k \in Lengths(m, pos) : i <= k) => j = i
    BY <2>1, FindLength
  <2>3. CheckCompleted(held) =
          IF j = 0 THEN pos
          ELSE IF j = pos - 1 \/ held[j] = BadLength THEN -1
          ELSE IF Len(held) - pos < held[j][2] THEN 0
          ELSE pos + held[j][2]
    BY <2>1, Zenon DEF CheckCompleted
  <2> HIDE DEF j
  <2>4. CASE Lengths(m, pos) = {}
    <3>1. CheckCompleted(held) = pos /\ Len(m) = pos
      BY <2>2, <2>3, <2>4, Zenon DEF Framed
    <3> QED
      BY <2>1, <2>4, <3>1
  <2>5. CASE Lengths(m, pos) # {}
    <3>1. PICK i \in Lengths(m, pos) : \A k \in Lengths(m, pos) : i <= k
      <4>1. Lengths(m, pos) \in SUBSET Nat
        BY <1>0 DEF Lengths
      <4> QED
        BY <2>5, <4>1, LeastExists, Zenon
    <3>2. i \in 2..(pos - 1) /\ m[i] \in LengthLines /\ j = i
      BY <2>2, <3>1, Zenon DEF Lengths
    <3>3. i \in Nat /\ i # 0 /\ i \in 1..Len(held) /\ i <= Len(m) /\ i \in 1..Len(m)
      BY <1>0, <2>1, <3>2
    <3>4. held[i] = m[i] /\ m[i] \in Tokens
      BY <3>3 DEF Begins
    <3>5. \A k \in Lengths(m, pos) : (\A l \in Lengths(m, pos) : k <= l) => k = i
      BY <2>2, <3>2, Zenon
    <3>6. CASE i = pos - 1 \/ m[i] = BadLength
      <4>1. CheckCompleted(held) = -1
        BY <2>3, <3>2, <3>3, <3>4, <3>6
      <4> QED
        BY <3>1, <3>6, <4>1
    <3>7. CASE ~(i = pos - 1 \/ m[i] = BadLength)
      <4>1. PICK n \in Nat : n = m[i][2]
        BY <3>2, <3>4, <3>7, TokenKinds
      <4>2. Len(m) = pos + n
        BY <3>1, <3>7, <4>1, Zenon DEF Framed
      <4>3. CheckCompleted(held) = IF Len(held) - pos < n THEN 0 ELSE pos + n
        BY <2>3, <3>2, <3>3, <3>4, <3>7, <4>1
      <4>4. CheckCompleted(held) = 0 \/ (CheckCompleted(held) = Len(m) /\ Len(m) <= Len(held))
        BY <1>0, <4>2, <4>3
      <4> QED
        BY <3>5, <3>7, <4>4, Zenon
    <3> QED
      BY <3>6, <3>7, Zenon
  <2> QED
    BY <2>4, <2>5
<1> QED
  BY <1>1, <1>2

\* Decode of a buffer that begins a message: it waits, or refuses a message that is
\* not to be served, or takes exactly the message.
LEMMA DecodeIs ==
    ASSUME NEW m \in Seq(Tokens), NEW pos \in 2..Len(m), Framed(m, pos),
           NEW held \in Seq(Tokens), Begins(held, m)
    PROVE  \/ Decode(held) = 0
           \/ Decode(held) = -1 /\ ~Served(m)
           \/ Decode(held) = Len(m) /\ Len(m) <= Len(held) /\ Served(m)
<1>0. pos \in Nat /\ Len(held) \in Nat /\ Len(m) \in Nat /\ pos <= Len(m) /\ 2 <= pos
  OBVIOUS
<1>1. CASE CheckCompleted(held) = 0
  BY <1>1 DEF Decode
<1>2. CASE CheckCompleted(held) = -1 /\
           \E i \in Lengths(m, pos) :
              /\ \A j \in Lengths(m, pos) : i <= j
              /\ i = pos - 1 \/ m[i] = BadLength
  <2>1. Decode(held) = -1
    BY <1>2 DEF Decode
  <2>2. ~Served(m)
    BY <1>2, ServedAt, Zenon
  <2> QED
    BY <2>1, <2>2
<1>3. CASE /\ CheckCompleted(held) = Len(m) /\ Len(m) <= Len(held)
           /\ \A i \in Lengths(m, pos) : (\A j \in Lengths(m, pos) : i <= j) =>
                 i # pos - 1 /\ m[i] # BadLength
  <2>1. Find(held, {Blank}) = pos /\ ~(Len(m) <= 0)
    <3>1. Find(held, {Blank}) = IF Len(held) < pos THEN 0 ELSE pos
      BY FindBlank, Zenon
    <3> QED
      BY <1>0, <1>3, <3>1
  <2>2. Decode(held) = IF pos = 2 \/ \E i \in 2..(pos - 2) : held[i] = NoColon
                      THEN -1 ELSE Len(m)
    BY <1>3, <2>1, Zenon DEF Decode
  <2>3. ASSUME NEW i \in 2..(pos - 2) PROVE held[i] = m[i]
    <3>1. i \in 1..Len(held) /\ i <= Len(m)
      BY <1>0, <1>3
    <3> QED
      BY <3>1 DEF Begins
  <2>4. Served(m) <=> pos # 2 /\ \A i \in 2..(pos - 2) : m[i] # NoColon
    BY <1>3, ServedAt, Zenon
  <2> QED
    BY <1>3, <2>2, <2>3, <2>4, Zenon
<1> QED
  BY <1>1, <1>2, <1>3, CompletedIs, Zenon

\* FramingExact, with the types, and with what is left of the stream when a reset
\* has thrown a part of it away.
Framing ==
    /\ sent \in Seq(Requests) /\ reqs \in Seq(Requests)
    /\ read_buf \in Seq(Tokens) /\ kernel \in Seq(Tokens) /\ sending \in Seq(Tokens)
    /\ Len(reqs) <= Len(sent)
    /\ \A i \in 1..Len(reqs) : reqs[i] = sent[i] /\ Served(reqs[i])
    /\ fin = "rst" => kernel = <<>> /\ sending = <<>>
    /\ \E tail \in Seq(Tokens) :
          /\ Stream(reqs) \o (read_buf \o tail) = Stream(sent)
          /\ fin # "rst" => tail = kernel \o sending
    /\ pc = "badrequest" => Len(reqs) < Len(sent) /\ ~Served(sent[Len(reqs) + 1])

\* Every request is a framed sequence of tokens.
LEMMA RequestsAreTokens ==
    /\ \A s \in Seq(Requests) : s \in Seq(Seq(Tokens))
    /\ \A m \in Requests : m \in Seq(Tokens) /\ \E pos \in 2..Len(m) : Framed(m, pos)
BY HttpAssumption, SeqMonotonic

\* A sequence is what a cut of it leaves on both sides.
LEMMA CutInTwo ==
    ASSUME NEW s \in Seq(Tokens), NEW n \in 0..Len(s)
    PROVE  /\ SubSeq(s, 1, n) \in Seq(Tokens) /\ SubSeq(s, n + 1, Len(s)) \in Seq(Tokens)
           /\ SubSeq(s, 1, n) \o SubSeq(s, n + 1, Len(s)) = s
<1>0. Len(s) \in Nat
  OBVIOUS
<1>1. SubSeq(s, 1, n) \o SubSeq(s, n + 1, Len(s)) = SubSeq(s, 1, Len(s))
  <2>1. 1 \in 1..(Len(s) + 1) /\ n \in (1 - 1)..Len(s) /\ Len(s) \in n..Len(s)
    BY <1>0
  <2> QED
    BY <2>1, ConcatAdjacentSubSeq, Zenon
<1>2. SubSeq(s, 1, Len(s)) = s
  OBVIOUS
<1>3. SubSeq(s, 1, n) \in Seq(Tokens)
  BY <1>0
<1>4. SubSeq(s, n + 1, Len(s)) \in Seq(Tokens)
  BY <1>0
<1> QED
  BY <1>1, <1>2, <1>3, <1>4, Zenon

\* Two sequences that continue to the same one begin alike; the shorter is a prefix.
LEMMA BeginAlike ==
    ASSUME NEW held \in Seq(Tokens), NEW tail \in Seq(Tokens),
           NEW m \in Seq(Tokens), NEW rest \in Seq(Tokens), held \o tail = m \o rest
    PROVE  Begins(held, m)
<1>1. ASSUME NEW i \in 1..Len(held), i <= Len(m) PROVE held[i] = m[i]
  <2>1. (held \o tail)[i] = held[i]
    OBVIOUS
  <2>2. (m \o rest)[i] = m[i]
    BY <1>1
  <2> QED
    BY <2>1, <2>2
<1> QED
  BY <1>1 DEF Begins

\* What Decode takes off a buffer that begins with m is m.
LEMMA TakesMessage ==
    ASSUME NEW held \in Seq(Tokens), NEW m \in Seq(Tokens), Begins(held, m), Len(m) <= Len(held)
    PROVE  SubSeq(held, 1, Len(m)) = m
<1>0. Len(m) \in Nat /\ Len(held) \in Nat
  OBVIOUS
<1>1. SubSeq(held, 1, Len(m)) \in Seq(Tokens) /\ Len(SubSeq(held, 1, Len(m))) = Len(m)
  BY <1>0
<1>2. \A i \in 1..Len(m) : SubSeq(held, 1, Len(m))[i] = m[i]
  BY <1>0 DEF Begins
<1> QED
  BY <1>1, <1>2, SeqEqual

\* An empty buffer holds no request.
LEMMA NothingToDecode == Decode(<<>>) = 0
<1>1. Find(<<>>, {Blank}) = 0
  BY DEF Find
<1>2. CheckCompleted(<<>>) = 0
  BY <1>1 DEF CheckCompleted
<1> QED
  BY <1>2 DEF Decode

\* The request that the stream continues with.
LEMMA NextRequest ==
    ASSUME Framing, read_buf # <<>>
    PROVE  /\ Len(reqs) < Len(sent) /\ sent[Len(reqs) + 1] \in Requests
           /\ Begins(read_buf, sent[Len(reqs) + 1])
<1>1. PICK tail \in Seq(Tokens) : Stream(reqs) \o (read_buf \o tail) = Stream(sent)
  BY Zenon DEF Framing
<1>2. reqs \in Seq(Seq(Tokens)) /\ sent \in Seq(Seq(Tokens)) /\ read_buf \in Seq(Tokens)
  BY RequestsAreTokens DEF Framing
<1>3. PICK a \in Seq(Tokens), b \in Seq(Tokens) : a = Stream(reqs) /\ b = Stream(sent)
  BY <1>2, StreamType
<1>4. read_buf \o tail \in Seq(Tokens) /\ read_buf \o tail # <<>>
  <2>1. Len(read_buf \o tail) = Len(read_buf) + Len(tail) /\ Len(read_buf) # 0
    BY <1>2
  <2>2. read_buf \o tail \in Seq(Tokens)
    BY <1>2
  <2> QED
    BY <1>2, <2>1, <2>2
<1>5. Len(reqs) < Len(sent)
  <2> SUFFICES ASSUME Len(reqs) = Len(sent) PROVE FALSE
    BY <1>2 DEF Framing
  <2>1. reqs = sent
    BY <1>2, SeqEqual, Zenon DEF Framing
  <2>2. a \o (read_buf \o tail) = a
    BY <1>1, <1>3, <2>1
  <2> QED
    BY <1>4, <2>2, ConcatEqualIffEmpty
<1>6. \A i \in 1..Len(reqs) : reqs[i] = sent[i]
  BY DEF Framing
<1>7. PICK rest \in Seq(Tokens) :
         Stream(sent) = Stream(reqs) \o (sent[Len(reqs) + 1] \o rest)
  BY <1>2, <1>5, <1>6, StreamNext, Zenon
<1>8. sent[Len(reqs) + 1] \in Requests
  <2>1. Len(reqs) + 1 \in 1..Len(sent)
    BY <1>2, <1>5
  <2> QED
    BY <2>1 DEF Framing
<1>9. PICK m \in Seq(Tokens) : m = sent[Len(reqs) + 1]
  BY <1>8, RequestsAreTokens
<1>10. m \o rest \in Seq(Tokens)
  BY ConcatProperties
<1>11. a \o (read_buf \o tail) = a \o (m \o rest)
  BY <1>1, <1>3, <1>7, <1>9, Zenon
<1>12. read_buf \o tail = m \o rest
  BY <1>4, <1>10, <1>11, ConcatSimplifications, Zenon
<1>13. Begins(read_buf, m)
  BY <1>2, <1>12, BeginAlike, Zenon
<1> QED
  BY <1>5, <1>8, <1>9, <1>13

\* Most steps change neither the requests nor the stream.
LEMMA FramingQuiet ==
    ASSUME Framing, UNCHANGED <<sent, reqs, read_buf, kernel, sending>>,
           fin' = fin \/ (fin # "rst" /\ fin' # "rst"),
           pc' = "badrequest" => pc = "badrequest"
    PROVE  Framing'
<1>1. /\ sent' = sent /\ reqs' = reqs /\ read_buf' = read_buf
      /\ kernel' = kernel /\ sending' = sending /\ (fin' = "rst" <=> fin = "rst")
  OBVIOUS
<1> QED
  BY <1>1, Zenon DEF Framing

\* Decoding takes the next request out of the buffer, or refuses it.
LEMMA FramingDecode ==
    ASSUME Framing, DecodeBuffer
    PROVE  Framing'
<1> USE DEF conn, response, handshake, client, edges
<1>0. pc = "decode" /\ UNCHANGED <<sent, kernel, sending, fin>>
  BY DEF DecodeBuffer, Goes
<1>1. CASE Decode(read_buf) = 0
  <2>1. Goes("read")
    BY <1>1 DEF DecodeBuffer
  <2> QED
    BY <2>1, FramingQuiet DEF Goes
<1>2. CASE Decode(read_buf) # 0
  <2>1. read_buf # <<>>
    BY <1>2, NothingToDecode
  <2>2. /\ Len(reqs) < Len(sent) /\ sent[Len(reqs) + 1] \in Requests
        /\ Begins(read_buf, sent[Len(reqs) + 1])
    BY <2>1, NextRequest
  <2>3. PICK m \in Requests : m = sent[Len(reqs) + 1]
    BY <2>2
  <2>4. m \in Seq(Tokens) /\ Len(m) \in Nat /\ read_buf \in Seq(Tokens) /\ Begins(read_buf, m)
    <3>1. m \in Seq(Tokens) /\ Begins(read_buf, m)
      BY <2>2, <2>3, RequestsAreTokens, Zenon
    <3>2. read_buf \in Seq(Tokens)
      BY DEF Framing
    <3>3. Len(m) \in Nat
      BY <3>1
    <3> QED
      BY <3>1, <3>2, <3>3
  <2>5. PICK pos \in 2..Len(m) : Framed(m, pos)
    BY RequestsAreTokens
  <2>6. \/ Decode(read_buf) = -1 /\ ~Served(m)
        \/ Decode(read_buf) = Len(m) /\ Len(m) <= Len(read_buf) /\ Served(m)
    BY <1>2, <2>4, <2>5, DecodeIs
  <2>7. CASE Decode(read_buf) = -1 /\ ~Served(m)
    <3>1. Goes("badrequest")
      BY <2>7 DEF DecodeBuffer
    <3>2. UNCHANGED <<sent, reqs, read_buf, kernel, sending, fin>>
      BY <3>1 DEF Goes
    <3>3. Len(reqs) < Len(sent) /\ ~Served(sent[Len(reqs) + 1])
      BY <2>2, <2>3, <2>7
    <3> QED
      BY <3>2, <3>3, Zenon DEF Framing
  <2>8. CASE Decode(read_buf) = Len(m) /\ Len(m) <= Len(read_buf) /\ Served(m)
    <3>0. Len(m) > 0 /\ Len(m) \in 0..Len(read_buf)
      BY <2>4, <2>5, <2>8
    <3>1. /\ pc' = "write" /\ reqs' = Append(reqs, SubSeq(read_buf, 1, Len(m)))
          /\ read_buf' = SubSeq(read_buf, Len(m) + 1, Len(read_buf))
      <4>1. ~(Decode(read_buf) < 0) /\ Decode(read_buf) # 0
        BY <2>8, <3>0
      <4> QED
        BY <2>8, <4>1, Zenon DEF DecodeBuffer
    <3>2. SubSeq(read_buf, 1, Len(m)) = m
      BY <2>4, <2>8, TakesMessage
    <3>3. PICK r \in Seq(Tokens) : r = read_buf' /\ m \o r = read_buf
      BY <2>4, <3>0, <3>1, <3>2, CutInTwo, Zenon
    <3>4. PICK q \in Seq(Requests) : q = reqs
      BY DEF Framing
    <3>5. /\ reqs' \in Seq(Requests) /\ Len(reqs') = Len(q) + 1
          /\ \A i \in 1..Len(q) : reqs'[i] = q[i]
          /\ reqs'[Len(q) + 1] = m
      <4>1. reqs' = Append(q, m)
        BY <3>1, <3>2, <3>4, Zenon
      <4>2. PICK p : p = Append(q, m)
        BY Zenon
      <4>3. /\ p \in Seq(Requests) /\ Len(p) = Len(q) + 1
            /\ \A i \in 1..Len(q) : p[i] = q[i]
            /\ p[Len(q) + 1] = m
        BY <4>2, AppendProperties
      <4> QED
        BY <4>1, <4>2, <4>3, Zenon
    <3>6. Len(reqs') <= Len(sent) /\ \A i \in 1..Len(reqs') : reqs'[i] = sent[i] /\ Served(reqs'[i])
      <4>0. PICK k \in Nat, n \in Nat : k = Len(q) /\ n = Len(sent)
        <5>1. sent \in Seq(Requests)
          BY Zenon DEF Framing
        <5> QED
          BY <5>1
      <4>1. Len(reqs') <= Len(sent)
        <5>1. k < n /\ Len(reqs') = k + 1
          BY <2>2, <3>4, <3>5, <4>0, Zenon
        <5> QED
          BY <4>0, <5>1
      <4>2. ASSUME NEW i \in 1..Len(reqs') PROVE reqs'[i] = sent[i] /\ Served(reqs'[i])
        <5>1. i \in 1..Len(q) \/ i = Len(q) + 1
          <6>1. i \in 1..(k + 1)
            BY <3>5, <4>0, Zenon
          <6>2. i \in 1..k \/ i = k + 1
            BY <6>1
          <6> QED
            BY <4>0, <6>2, Zenon
        <5>2. CASE i \in 1..Len(q)
          BY <3>4, <3>5, <5>2, Zenon DEF Framing
        <5>3. CASE i = Len(q) + 1
          BY <2>3, <2>8, <3>4, <3>5, <5>3
        <5> QED
          BY <5>1, <5>2, <5>3
      <4> QED
        BY <4>1, <4>2
    <3>7. PICK tail \in Seq(Tokens) :
             /\ Stream(reqs) \o (read_buf \o tail) = Stream(sent)
             /\ fin # "rst" => tail = kernel \o sending
      BY Zenon DEF Framing
    <3>8. Stream(reqs') \o (read_buf' \o tail) = Stream(sent)
      <4>1. q \in Seq(Seq(Tokens))
        BY RequestsAreTokens
      <4>2. PICK a \in Seq(Tokens) : a = Stream(q)
        BY <4>1, StreamType
      <4>3. Stream(reqs') = a \o m
        BY <2>4, <3>1, <3>2, <3>4, <4>1, <4>2, StreamAppend, Zenon
      <4>4. r \o tail \in Seq(Tokens)
        BY ConcatProperties
      <4>5. (a \o m) \o (r \o tail) = a \o (m \o (r \o tail))
        <5>1. Joined(a, m, r \o tail)
          BY <2>4, <4>4, JoinedEitherWay, Zenon
        <5> QED
          BY <5>1, Zenon DEF Joined
      <4>6. (m \o r) \o tail = m \o (r \o tail)
        <5>1. Joined(m, r, tail)
          BY <2>4, JoinedEitherWay
        <5> QED
          BY <5>1, Zenon DEF Joined
      <4> QED
        BY <3>3, <3>4, <3>7, <4>2, <4>3, <4>5, <4>6, Zenon
    <3>9. \E t \in Seq(Tokens) :
             /\ Stream(reqs') \o (read_buf' \o t) = Stream(sent)
             /\ fin # "rst" => t = kernel \o sending
      BY <3>7, <3>8, Zenon
    <3>10. pc' # "badrequest"
      BY <3>1
    <3>11. /\ sent' = sent /\ kernel' = kernel /\ sending' = sending /\ fin' = fin
           /\ read_buf' \in Seq(Tokens)
      BY <1>0, <3>3
    <3>12. /\ sent \in Seq(Requests) /\ kernel \in Seq(Tokens) /\ sending \in Seq(Tokens)
           /\ fin = "rst" => kernel = <<>> /\ sending = <<>>
      BY Zenon DEF Framing
    <3> QED
      BY <3>5, <3>6, <3>9, <3>10, <3>11, <3>12, Zenon DEF Framing
  <2> QED
    BY <2>6, <2>7, <2>8
<1> QED
  BY <1>1, <1>2

\* A read moves the front of the socket's bytes to the end of the buffer.
LEMMA FramingRead ==
    ASSUME Framing, NEW n \in 1..Len(kernel), Read(n)
    PROVE  Framing'
<1>1. /\ read_buf' = read_buf \o SubSeq(kernel, 1, n)
      /\ kernel' = SubSeq(kernel, n + 1, Len(kernel))
      /\ sent' = sent /\ reqs' = reqs /\ sending' = sending /\ fin' = fin /\ pc' = "decode"
  BY DEF Read
<1>2. /\ read_buf \in Seq(Tokens) /\ kernel \in Seq(Tokens) /\ sending \in Seq(Tokens)
      /\ kernel # <<>>
  <2>1. read_buf \in Seq(Tokens) /\ kernel \in Seq(Tokens) /\ sending \in Seq(Tokens)
    BY Zenon DEF Framing
  <2>2. kernel # <<>>
    OBVIOUS
  <2> QED
    BY <2>1, <2>2, Zenon
<1>3. fin # "rst"
  BY <1>2, Zenon DEF Framing
<1>4. PICK a \in Seq(Tokens), b \in Seq(Tokens) :
         a = SubSeq(kernel, 1, n) /\ b = kernel' /\ a \o b = kernel
  <2>1. n \in 0..Len(kernel)
    BY <1>2
  <2>2. /\ SubSeq(kernel, 1, n) \in Seq(Tokens)
        /\ SubSeq(kernel, n + 1, Len(kernel)) \in Seq(Tokens)
        /\ SubSeq(kernel, 1, n) \o SubSeq(kernel, n + 1, Len(kernel)) = kernel
    BY <1>2, <2>1, CutInTwo, Zenon
  <2> QED
    BY <1>1, <2>2, Zenon
<1>5. read_buf \o a \in Seq(Tokens) /\ b \o sending \in Seq(Tokens)
  BY <1>2, ConcatProperties
<1>6. /\ (read_buf \o a) \o (b \o sending) = read_buf \o (a \o (b \o sending))
      /\ (a \o b) \o sending = a \o (b \o sending)
  <2>1. PICK t \in Seq(Tokens) : t = b \o sending
    BY <1>5, Zenon
  <2>2. (read_buf \o a) \o t = read_buf \o (a \o t)
    <3>1. Joined(read_buf, a, t)
      BY <1>2, JoinedEitherWay
    <3> QED
      BY <3>1, Zenon DEF Joined
  <2>3. (a \o b) \o sending = a \o (b \o sending)
    <3>1. Joined(a, b, sending)
      BY <1>2, JoinedEitherWay
    <3> QED
      BY <3>1, Zenon DEF Joined
  <2> QED
    BY <2>1, <2>2, <2>3, Zenon
<1>7. read_buf' \o (kernel' \o sending') = read_buf \o (kernel \o sending)
  BY <1>1, <1>4, <1>6, Zenon
<1>8. Stream(reqs) \o (read_buf \o (kernel \o sending)) = Stream(sent)
  BY <1>3, Zenon DEF Framing
<1>9. \E t \in Seq(Tokens) :
         /\ Stream(reqs') \o (read_buf' \o t) = Stream(sent')
         /\ fin' # "rst" => t = kernel' \o sending'
  BY <1>1, <1>4, <1>5, <1>7, <1>8, Zenon
<1>10. /\ read_buf' \in Seq(Tokens) /\ kernel' \in Seq(Tokens) /\ fin' # "rst"
       /\ pc' # "badrequest"
  BY <1>1, <1>3, <1>4, <1>5
<1> QED
  BY <1>1, <1>9, <1>10, Zenon DEF Framing

\* The network moves the front of the client's bytes to the end of the socket's.
LEMMA FramingDeliver ==
    ASSUME Framing, NEW n \in 1..Len(sending), Deliver(n)
    PROVE  Framing'
<1>1. /\ kernel' = kernel \o SubSeq(sending, 1, n)
      /\ sending' = SubSeq(sending, n + 1, Len(sending))
      /\ sent' = sent /\ reqs' = reqs /\ read_buf' = read_buf /\ fin' = fin /\ pc' = pc
  BY DEF Deliver, conn
<1>2. kernel \in Seq(Tokens) /\ sending \in Seq(Tokens) /\ sending # <<>>
  BY DEF Framing
<1>3. fin # "rst"
  BY <1>2, Zenon DEF Framing
<1>4. PICK a \in Seq(Tokens), b \in Seq(Tokens) :
         a = SubSeq(sending, 1, n) /\ b = sending' /\ a \o b = sending
  <2>1. n \in 0..Len(sending)
    BY <1>2
  <2>2. /\ SubSeq(sending, 1, n) \in Seq(Tokens)
        /\ SubSeq(sending, n + 1, Len(sending)) \in Seq(Tokens)
        /\ SubSeq(sending, 1, n) \o SubSeq(sending, n + 1, Len(sending)) = sending
    BY <1>2, <2>1, CutInTwo, Zenon
  <2> QED
    BY <1>1, <2>2, Zenon
<1>5. kernel \o a \in Seq(Tokens)
  BY <1>2, ConcatProperties
<1>6. (kernel \o a) \o b = kernel \o (a \o b)
  <2>1. Joined(kernel, a, b)
    BY <1>2, JoinedEitherWay
  <2> QED
    BY <2>1, Zenon DEF Joined
<1>7. kernel' \o sending' = kernel \o sending
  BY <1>1, <1>4, <1>6, Zenon
<1>8. kernel' \in Seq(Tokens) /\ sending' \in Seq(Tokens) /\ fin' # "rst"
  BY <1>1, <1>3, <1>4, <1>5
<1> QED
  BY <1>1, <1>3, <1>7, <1>8, Zenon DEF Framing

\* The client sends one more request.
LEMMA FramingRequest ==
    ASSUME Framing, NEW m \in Requests, Request(m)
    PROVE  Framing'
<1>1. /\ sent' = Append(sent, m) /\ sending' = sending \o m /\ fin = "no"
      /\ pc' = pc /\ reqs' = reqs /\ read_buf' = read_buf /\ kernel' = kernel /\ fin' = fin
      /\ pc # "badrequest"
  BY DEF Request, conn, Open, Ended
<1>2. /\ read_buf \in Seq(Tokens) /\ kernel \in Seq(Tokens) /\ sending \in Seq(Tokens)
      /\ m \in Seq(Tokens)
  BY RequestsAreTokens, Zenon DEF Framing
<1>3. PICK s \in Seq(Requests), q \in Seq(Requests) : s = sent /\ q = reqs
  BY Zenon DEF Framing
<1>4. s \in Seq(Seq(Tokens)) /\ q \in Seq(Seq(Tokens))
  BY RequestsAreTokens
<1>5. PICK a \in Seq(Tokens) : a = Stream(q)
  BY <1>4, StreamType
<1>6. Stream(sent') = Stream(s) \o m
  BY <1>1, <1>2, <1>3, <1>4, StreamAppend, Zenon
<1>7. a \o (read_buf \o (kernel \o sending)) = Stream(s)
  <2>1. fin # "rst"
    BY <1>1
  <2> QED
    BY <1>3, <1>5, <2>1, Zenon DEF Framing
<1>8. kernel \o sending \in Seq(Tokens) /\ kernel \o (sending \o m) \in Seq(Tokens)
  BY <1>2, ConcatProperties
<1>9. read_buf \o (kernel \o sending) \in Seq(Tokens)
  BY <1>2, <1>8, ConcatProperties
<1>10. a \o (read_buf \o (kernel \o (sending \o m))) = Stream(s) \o m
  <2>1. (kernel \o sending) \o m = kernel \o (sending \o m)
    <3>1. Joined(kernel, sending, m)
      BY <1>2, JoinedEitherWay
    <3> QED
      BY <3>1, Zenon DEF Joined
  <2>2. (read_buf \o (kernel \o sending)) \o m = read_buf \o ((kernel \o sending) \o m)
    <3>1. PICK t \in Seq(Tokens) : t = kernel \o sending
      BY <1>8, Zenon
    <3>2. read_buf \in Seq(Tokens) /\ m \in Seq(Tokens)
      BY <1>2
    <3>3. (read_buf \o t) \o m = read_buf \o (t \o m)
      <4>1. Joined(read_buf, t, m)
        BY <3>2, JoinedEitherWay
      <4> QED
        BY <4>1, Zenon DEF Joined
    <3> QED
      BY <3>1, <3>3, Zenon
  <2>3. (a \o (read_buf \o (kernel \o sending))) \o m
          = a \o ((read_buf \o (kernel \o sending)) \o m)
    <3>1. Joined(a, read_buf \o (kernel \o sending), m)
      BY <1>2, <1>9, JoinedEitherWay, Zenon
    <3> QED
      BY <3>1, Zenon DEF Joined
  <2> QED
    BY <1>7, <2>1, <2>2, <2>3, Zenon
<1>11. \E t \in Seq(Tokens) :
          /\ Stream(reqs') \o (read_buf' \o t) = Stream(sent')
          /\ fin' # "rst" => t = kernel' \o sending'
  BY <1>1, <1>3, <1>5, <1>6, <1>8, <1>10, Zenon
<1>12. sent' \in Seq(Requests) /\ sending' \in Seq(Tokens) /\ Len(sent') = Len(s) + 1
       /\ \A i \in 1..Len(s) : sent'[i] = s[i]
  BY <1>1, <1>2, <1>3
<1>13. Len(q) <= Len(s) /\ \A i \in 1..Len(q) : q[i] = s[i] /\ Served(q[i])
  BY <1>3 DEF Framing
<1>14. Len(reqs') <= Len(sent') /\ \A i \in 1..Len(reqs') : reqs'[i] = sent'[i] /\ Served(reqs'[i])
  <2>1. PICK k \in Nat, n \in Nat : k = Len(q) /\ n = Len(s)
    BY <1>3
  <2>2. k <= n /\ k <= n + 1 /\ \A i \in 1..k : i \in 1..n
    BY <1>13, <2>1
  <2>3. \A i \in 1..k : q[i] = sent'[i] /\ Served(q[i])
    BY <1>12, <1>13, <2>1, <2>2, Zenon
  <2> QED
    BY <1>1, <1>3, <1>12, <2>1, <2>2, <2>3, Zenon
<1>15. fin' # "rst" /\ pc' # "badrequest" /\ kernel' \in Seq(Tokens) /\ read_buf' \in Seq(Tokens)
       /\ reqs' \in Seq(Requests)
  BY <1>1, <1>2, <1>3
<1> QED
  BY <1>11, <1>12, <1>14, <1>15, Zenon DEF Framing

\* Every step keeps the stream framed.
LEMMA FramingStep ==
    ASSUME Framing, [Next]_vars
    PROVE  Framing'
<1> USE DEF conn, response, handshake, client, edges
<1>1. CASE SslFlight \/ SslAcceptFails \/ SslAcceptAgain
  BY <1>1, FramingQuiet DEF SslFlight, SslAcceptFails, SslAcceptAgain, Goes
<1>2. CASE DecodeBuffer
  BY <1>2, FramingDecode
<1>3. CASE ReadEof \/ ReadAgain \/ ReadBroken \/ ReadTimeout
  BY <1>3, FramingQuiet, Zenon DEF ReadEof, ReadAgain, ReadBroken, ReadTimeout, Goes
<1>4. ASSUME NEW n \in 1..Len(kernel), Read(n)
      PROVE  Framing'
  BY <1>4, FramingRead
<1>5. ASSUME NEW n \in 1..Len(write_buf), Write(n)
      PROVE  Framing'
  <2>1. UNCHANGED <<sent, reqs, read_buf, kernel, sending, fin>> /\ pc' # "badrequest"
    BY <1>5 DEF Write
  <2> QED
    BY <2>1, FramingQuiet
<1>6. CASE WriteAgain \/ WriteFails
  BY <1>6, FramingQuiet DEF WriteAgain, WriteFails, Goes
<1>7. CASE PollIn \/ PollOut
  BY <1>7, FramingQuiet DEF PollIn, PollOut
<1>8. CASE DeliverFlight \/ DeliverFin \/ Drain
  BY <1>8, FramingQuiet, Zenon DEF DeliverFlight, DeliverFin, Drain
<1>9. ASSUME NEW n \in 1..Len(sending), Deliver(n)
      PROVE  Framing'
  BY <1>9, FramingDeliver
<1>10. CASE ClientFlight \/ Finish \/ Corrupt
  BY <1>10, FramingQuiet DEF ClientFlight, Finish, Corrupt
<1>11. CASE Reset
  <2>1. /\ fin' = "rst" /\ kernel' = <<>> /\ sending' = <<>>
        /\ sent' = sent /\ reqs' = reqs /\ read_buf' = read_buf /\ pc' = pc
    BY <1>11 DEF Reset
  <2>2. kernel' \in Seq(Tokens) /\ sending' \in Seq(Tokens)
    BY <2>1
  <2> QED
    BY <2>1, <2>2, Zenon DEF Framing
<1>12. ASSUME NEW m \in Requests, Request(m)
       PROVE  Framing'
  BY <1>12, FramingRequest
<1>13. CASE Terminated \/ UNCHANGED vars
  BY <1>13, FramingQuiet DEF Terminated, vars
<1>14. ASSUME NEW n \in 1..hs_out, SslWrite(n)
       PROVE  Framing'
  BY <1>14, FramingQuiet DEF SslWrite
<1> QED
  BY <1>1, <1>2, <1>3, <1>4, <1>5, <1>6, <1>7, <1>8, <1>9, <1>10, <1>11, <1>12, <1>13, <1>14
     DEF Next, Thread, Routine, Network, Client

\* The inductive invariant says at least what FramingExact says.
LEMMA FramingIsExact == Framing => FramingExact
<1> SUFFICES ASSUME Framing PROVE FramingExact
  OBVIOUS
<1>1. PICK s \in Seq(Requests), q \in Seq(Requests) : s = sent /\ q = reqs
  BY DEF Framing
<1>2. Len(q) <= Len(s) /\ \A i \in 1..Len(q) : q[i] = s[i] /\ Served(q[i])
  BY <1>1, Zenon DEF Framing
<1>3. q = SubSeq(s, 1, Len(q))
  <2>1. Len(q) \in Nat /\ Len(s) \in Nat
    OBVIOUS
  <2>2. SubSeq(s, 1, Len(q)) \in Seq(Requests) /\ Len(SubSeq(s, 1, Len(q))) = Len(q)
    BY <1>2, <2>1
  <2>3. \A i \in 1..Len(q) : SubSeq(s, 1, Len(q))[i] = q[i]
    BY <1>2, <2>1
  <2> QED
    BY <2>2, <2>3, SeqEqual, Zenon
<1>4. ASSUME fin # "rst"
      PROVE  Stream(reqs) \o read_buf \o kernel \o sending = Stream(sent)
  <2>1. Stream(reqs) \o (read_buf \o (kernel \o sending)) = Stream(sent)
    BY <1>4, Zenon DEF Framing
  <2>2. PICK a \in Seq(Tokens) : a = Stream(reqs)
    <3>1. q \in Seq(Seq(Tokens))
      BY RequestsAreTokens
    <3> QED
      BY <1>1, <3>1, StreamType
  <2>3. read_buf \in Seq(Tokens) /\ kernel \in Seq(Tokens) /\ sending \in Seq(Tokens)
    BY DEF Framing
  <2>4. PICK b \in Seq(Tokens) : b = a \o read_buf
    BY <2>3, ConcatProperties, Zenon
  <2>5. PICK c \in Seq(Tokens) : c = kernel \o sending
    BY <2>3, ConcatProperties, Zenon
  <2>6. (b \o kernel) \o sending = b \o (kernel \o sending)
    <3>1. Joined(b, kernel, sending)
      BY <2>3, JoinedEitherWay
    <3> QED
      BY <3>1, Zenon DEF Joined
  <2>7. (a \o read_buf) \o c = a \o (read_buf \o c)
    <3>1. Joined(a, read_buf, c)
      BY <2>3, JoinedEitherWay
    <3> QED
      BY <3>1, Zenon DEF Joined
  <2> QED
    BY <2>1, <2>2, <2>4, <2>5, <2>6, <2>7, Zenon
<1>5. \A i \in DOMAIN reqs : Served(reqs[i])
  BY <1>1, <1>2
<1>6. pc = "badrequest" => ~Served(sent[Len(reqs) + 1])
  BY Zenon DEF Framing
<1> QED
  BY <1>1, <1>2, <1>3, <1>4, <1>5, <1>6, Zenon DEF FramingExact

\* HttpStream::AsyncRead returns the client's requests one by one and whole, however
\* the stream is cut, and refuses only a malformed one.
THEOREM RequestsFramedExactly == Spec => []FramingExact
<1>1. Init => Framing
  <2> SUFFICES ASSUME Init PROVE Framing
    OBVIOUS
  <2>1. /\ sent = <<>> /\ reqs = <<>> /\ read_buf = <<>> /\ kernel = <<>> /\ sending = <<>>
        /\ fin = "no" /\ pc # "badrequest"
    BY DEF Init
  <2>2. <<>> \in Seq(Requests) /\ <<>> \in Seq(Tokens) /\ Len(<<>>) = 0
    OBVIOUS
  <2>3. Stream(<<>>) = <<>> /\ <<>> \o <<>> = <<>>
    BY StreamOfNone
  <2>4. Len(reqs) <= Len(sent) /\ \A i \in 1..Len(reqs) : reqs[i] = sent[i] /\ Served(reqs[i])
    BY <2>1, <2>2
  <2>5. Stream(reqs) \o (read_buf \o (kernel \o sending)) = Stream(sent)
        /\ kernel \o sending \in Seq(Tokens)
    BY <2>1, <2>2, <2>3, Zenon
  <2>6. \E t \in Seq(Tokens) :
          /\ Stream(reqs) \o (read_buf \o t) = Stream(sent)
          /\ fin # "rst" => t = kernel \o sending
    BY <2>5, Zenon
  <2> QED
    BY <2>1, <2>2, <2>4, <2>6, Zenon DEF Framing
<1>2. Framing /\ [Next]_vars => Framing'
  BY FramingStep
<1> QED
  BY <1>1, <1>2, FramingIsExact, PTL DEF Spec

-----------------------------------------------------------------------------
(* The responses, one after the other.                                     *)

\* ResponsesExact, with types, for every place the routine can be in.
Responding ==
    /\ \E S : reqs \in Seq(S)
    /\ got \in Seq(Tokens) /\ write_buf \in Seq(Tokens) /\ wn \in 0..Len(write_buf)
    /\ got \o SubSeq(write_buf, wn + 1, Len(write_buf)) = Stream(Responses(Len(reqs)))
    /\ pc \notin {"write", "waitwrite", "closed"} => write_buf = <<>>

\* Most steps change no request and no response.
LEMMA QuietStep ==
    ASSUME Responding, UNCHANGED <<reqs, write_buf, wn, got>>,
           \/ pc' = pc
           \/ pc \in {"write", "waitwrite"} /\ pc' \in {"write", "waitwrite", "closed"}
           \/ pc \notin {"write", "waitwrite", "closed"}
    PROVE  Responding'
<1>1. reqs' = reqs /\ write_buf' = write_buf /\ wn' = wn /\ got' = got
  OBVIOUS
<1>2. pc' \notin {"write", "waitwrite", "closed"} => write_buf = <<>>
  BY DEF Responding
<1> QED
  BY <1>1, <1>2, Zenon DEF Responding

\* A response is a sequence of tokens, and not an empty one.
LEMMA ResponseType ==
    ASSUME NEW i \in Nat
    PROVE  Response(i) \in Seq(Tokens) /\ Response(i) # <<>>
BY DEF Response, Encode, First, ContentLength, Header, Blank, Answer, Tokens, LengthLines, Answers

\* One more response is joined to the end of their stream.
LEMMA ResponsesAppend ==
    ASSUME NEW n \in Nat
    PROVE  /\ Stream(Responses(n)) \in Seq(Tokens)
           /\ Stream(Responses(n + 1)) = Stream(Responses(n)) \o Response(n + 1)
<1>1. ASSUME NEW k \in Nat
      PROVE  Responses(k) \in Seq(Seq(Tokens)) /\ Len(Responses(k)) = k
  <2>1. \A i \in 1..k : Response(i) \in Seq(Tokens)
    BY ResponseType
  <2> QED
    BY <2>1 DEF Responses
<1>2. PICK s \in Seq(Seq(Tokens)), m \in Seq(Tokens) : s = Responses(n) /\ m = Response(n + 1)
  BY <1>1, ResponseType
<1>3. Responses(n + 1) = Append(s, m)
  <2>1. Len(s) = n /\ \A i \in 1..n : s[i] = Response(i)
    BY <1>1, <1>2 DEF Responses
  <2>2. PICK t \in Seq(Seq(Tokens)) : t = Append(s, m)
    BY AppendProperties, Zenon
  <2>3. Len(t) = n + 1 /\ \A i \in 1..(n + 1) : t[i] = Response(i)
    BY <1>2, <2>1, <2>2
  <2>4. PICK u \in Seq(Seq(Tokens)) : u = Responses(n + 1)
    BY <1>1
  <2>5. Len(u) = n + 1 /\ \A i \in 1..(n + 1) : u[i] = Response(i)
    BY <1>1, <2>4 DEF Responses
  <2>6. \A i \in 1..Len(t) : t[i] = u[i]
    BY <2>3, <2>5
  <2> QED
    BY <2>2, <2>3, <2>4, <2>5, <2>6, SeqEqual
<1> QED
  BY <1>2, <1>3, StreamAppend, StreamType, Zenon

\* Decoding a request puts its response into the empty buffer.
LEMMA RespondingDecode ==
    ASSUME Responding, DecodeBuffer
    PROVE  Responding'
<1> USE DEF conn, response, handshake, client, edges
<1>1. CASE Goes("badrequest") \/ Goes("read")
  BY <1>1, QuietStep DEF DecodeBuffer, Goes
<1>2. ASSUME NEW x, reqs' = Append(reqs, x), pc' = "write", UNCHANGED <<wn, got>>,
             write_buf' = write_buf \o Response(Len(reqs) + 1)
      PROVE  Responding'
  <2>1. PICK S : reqs \in Seq(S)
    BY DEF Responding
  <2>2. reqs \in Seq(S \cup {x}) /\ Len(reqs) \in Nat
    BY <2>1, SeqMonotonic
  <2>3. reqs' \in Seq(S \cup {x}) /\ Len(reqs') = Len(reqs) + 1
    BY <1>2, <2>2, AppendProperties
  <2>4. PICK n \in Nat : n = Len(reqs)
    BY <2>2
  <2>5. PICK m \in Seq(Tokens) : m = Response(n + 1) /\ m # <<>>
    BY ResponseType
  <2>6. write_buf = <<>> /\ wn = 0 /\ got \in Seq(Tokens)
    BY DEF DecodeBuffer, Responding
  <2>7. write_buf' = m /\ wn' = 0 /\ got' = got
    BY <1>2, <2>4, <2>5, <2>6
  <2>8. got = Stream(Responses(n))
    <3>1. SubSeq(write_buf, wn + 1, Len(write_buf)) = <<>>
      BY <2>6
    <3>2. got \o <<>> = got
      BY <2>6
    <3> QED
      BY <2>4, <3>1, <3>2, Zenon DEF Responding
  <2>9. SubSeq(m, 0 + 1, Len(m)) = m /\ 0 \in 0..Len(m)
    OBVIOUS
  <2>10. got \o m = Stream(Responses(n + 1))
    BY <2>5, <2>8, ResponsesAppend, Zenon
  <2> QED
    BY <1>2, <2>3, <2>4, <2>6, <2>7, <2>9, <2>10, Zenon DEF Responding
<1> QED
  BY <1>1, <1>2 DEF DecodeBuffer

\* A write moves the next tokens of the buffer into the connection.
LEMMA RespondingWrite ==
    ASSUME Responding, NEW n \in 1..Len(write_buf), Write(n)
    PROVE  Responding'
<1> USE DEF conn, response, handshake, client, edges
<1>1. PICK g \in Seq(Tokens), w \in Seq(Tokens), a \in Nat :
         g = got /\ w = write_buf /\ a = wn /\ a <= Len(w)
  BY DEF Responding
<1>2. n \in Nat /\ n > 0 /\ a + n <= Len(w) /\ Len(w) \in Nat /\ pc = "write" /\ reqs' = reqs
  BY <1>1 DEF Write
<1>3. PICK x \in Seq(Tokens), y \in Seq(Tokens) :
         x = SubSeq(w, a + 1, a + n) /\ y = SubSeq(w, a + n + 1, Len(w))
  <2>1. SubSeq(w, a + 1, a + n) \in Seq(Tokens)
    BY <1>2
  <2>2. SubSeq(w, a + n + 1, Len(w)) \in Seq(Tokens)
    BY <1>2
  <2> QED
    BY <2>1, <2>2, Zenon
<1>4. x \o y = SubSeq(w, a + 1, Len(w))
  <2>1. a + 1 \in 1..(Len(w) + 1) /\ a + n \in ((a + 1) - 1)..Len(w) /\ Len(w) \in (a + n)..Len(w)
    BY <1>2
  <2>2. SubSeq(w, a + 1, a + n) \o SubSeq(w, (a + n) + 1, Len(w)) = SubSeq(w, a + 1, Len(w))
    BY <2>1, ConcatAdjacentSubSeq, Zenon
  <2> QED
    BY <1>3, <2>2
<1>5. PICK h \in Seq(Tokens) : h = g \o x
  BY ConcatProperties, Zenon
<1>6. got' = h
  BY <1>1, <1>3, <1>5 DEF Write
<1>7. h \o y = Stream(Responses(Len(reqs)))
  <2>1. Joined(g, x, y)
    BY JoinedEitherWay
  <2>2. g \o (x \o y) = Stream(Responses(Len(reqs)))
    BY <1>1, <1>4, Zenon DEF Responding
  <2> QED
    BY <1>5, <2>1, <2>2, Zenon DEF Joined
<1>8. CASE wn + n = Len(write_buf)
  <2>1. wn' = 0 /\ write_buf' = <<>>
    BY <1>8 DEF Write
  <2>2. y = <<>>
    BY <1>1, <1>2, <1>3, <1>8
  <2>3. SubSeq(<<>>, 0 + 1, Len(<<>>)) = <<>> /\ <<>> \in Seq(Tokens) /\ 0 \in 0..Len(<<>>)
    OBVIOUS
  <2> QED
    BY <1>2, <1>6, <1>7, <2>1, <2>2, <2>3, Zenon DEF Responding
<1>9. CASE wn + n # Len(write_buf)
  <2>1. wn' = a + n /\ write_buf' = w /\ pc' = pc
    BY <1>1, <1>9 DEF Write
  <2>2. a + n \in 0..Len(w)
    BY <1>2
  <2> QED
    BY <1>2, <1>3, <1>6, <1>7, <2>1, <2>2, Zenon DEF Responding
<1> QED
  BY <1>8, <1>9

\* Every step keeps what is written and what is to write the responses.
LEMMA RespondingStep ==
    ASSUME Responding, [Next]_vars
    PROVE  Responding'
<1> USE DEF conn, response, handshake, client, edges
<1>1. CASE SslFlight \/ SslAcceptFails \/ SslAcceptAgain
  BY <1>1, QuietStep DEF SslFlight, SslAcceptFails, SslAcceptAgain, Goes
<1>2. ASSUME NEW n \in 1..hs_out, SslWrite(n)
      PROVE  Responding'
  BY <1>2, QuietStep DEF SslWrite
<1>3. CASE ReadEof \/ ReadAgain \/ ReadBroken \/ ReadTimeout
  BY <1>3, QuietStep DEF ReadEof, ReadAgain, ReadBroken, ReadTimeout, Goes
<1>4. ASSUME NEW n \in 1..Len(kernel), Read(n)
      PROVE  Responding'
  BY <1>4, QuietStep DEF Read
<1>5. CASE WriteAgain \/ WriteFails
  BY <1>5, QuietStep DEF WriteAgain, WriteFails, Goes
<1>6. CASE PollIn \/ PollOut
  BY <1>6, QuietStep DEF PollIn, PollOut
<1>7. CASE DeliverFlight \/ DeliverFin \/ Drain
  BY <1>7, QuietStep DEF DeliverFlight, DeliverFin, Drain
<1>8. ASSUME NEW n \in 1..Len(sending), Deliver(n)
      PROVE  Responding'
  BY <1>8, QuietStep DEF Deliver
<1>9. CASE ClientFlight \/ Finish \/ Reset \/ Corrupt
  BY <1>9, QuietStep DEF ClientFlight, Finish, Reset, Corrupt
<1>10. ASSUME NEW m \in Requests, Request(m)
       PROVE  Responding'
  BY <1>10, QuietStep DEF Request
<1>11. CASE Terminated \/ UNCHANGED vars
  BY <1>11, QuietStep DEF Terminated, vars
<1> QED
  BY <1>1, <1>2, <1>3, <1>4, <1>5, <1>6, <1>7, <1>8, <1>9, <1>10, <1>11,
     RespondingDecode, RespondingWrite, Zenon DEF Next, Thread, Routine, Network, Client

\* The connection takes the responses to the requests that AsyncRead returned, each
\* once and in their order, however the stream is cut and the writes are split.
THEOREM ResponsesInStep == Spec => []ResponsesExact
<1>1. Init => Responding
  <2> SUFFICES ASSUME Init PROVE Responding
    OBVIOUS
  <2>1. <<>> \in Seq({}) /\ <<>> \in Seq(Tokens) /\ Len(<<>>) = 0 /\ 0 \in 0..0
        /\ <<>> \o <<>> = <<>> /\ SubSeq(<<>>, 0 + 1, 0) = <<>>
    OBVIOUS
  <2>2. reqs = <<>> /\ got = <<>> /\ write_buf = <<>> /\ wn = 0
    BY DEF Init
  <2>3. Stream(Responses(0)) = <<>>
    <3>1. Responses(0) = <<>>
      BY DEF Responses
    <3> QED
      BY <3>1, StreamOfNone
  <2> QED
    BY <2>1, <2>2, <2>3, Zenon DEF Responding
<1>2. Responding /\ [Next]_vars => Responding'
  BY RespondingStep
<1>3. Responding => ResponsesExact
  BY Zenon DEF Responding, ResponsesExact
<1> QED
  BY <1>1, <1>2, <1>3, PTL DEF Spec
=============================================================================
