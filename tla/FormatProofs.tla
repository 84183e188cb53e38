---------------------------- MODULE FormatProofs -----------------------------
(***************************************************************************)
(* What receivers make of what senders encode: the packets of the media    *)
(* server, and the messages of the file transfer.  The theorems hold for   *)
(* any file and any cut of its stream, and for datagrams of any length.    *)
(***************************************************************************)
EXTENDS FileTransfer, MediaPackets, SequenceTheorems, TLAPS

-----------------------------------------------------------------------------
(* Parsing packets.                                                        *)

\* The largest multiple of 4 that the 16 bits of Parse's cursor hold.
MaxLen == 65532

\* What the loops keep: in STUN the cursor and the end are multiples of 4, RTP has
\* its header, and an RTCP decoder counts down from what the first packet announces.
PacketInv ==
    /\ len \in Nat /\ len <= MaxLen /\ b0 \in Nat /\ pos \in Nat /\ off \in Nat /\ end \in Nat
    /\ pc = "stun" => len >= 20
    /\ pc = "attrs" => len >= 20 /\ len % 4 = 0 /\ pos % 4 = 0 /\ pos <= len
    /\ pc = "rtp" => len >= 12
    /\ pc \in {"walk", "SR", "RR", "SDES"} => IsRtcp
    /\ pc \in {"SR", "RR", "SDES"} => count \in Int /\ count <= FirstCount
    /\ ReadsInside

\* Where Parse's cursor is when an attribute ends at x.
Padded(x) == Align4(x % 65536)

\* Padding moves the cursor to a multiple of 4 that the end is not before.
LEMMA PaddedInside ==
    ASSUME NEW x \in Nat, NEW y \in Nat, y <= MaxLen, y % 4 = 0, x <= y
    PROVE  /\ Padded(x) \in Nat /\ Padded(x) % 4 = 0
           /\ x <= Padded(x) /\ Padded(x) <= y
<1>1. Padded(x) = Align4(x)
  <2>1. x % 65536 = x
    BY DEF MaxLen
  <2> QED
    BY <2>1 DEF Padded
<1>2. CASE x % 4 = 0
  <2>1. Align4(x) = x
    BY <1>2 DEF Align4, MaxLen
  <2> QED
    BY <1>1, <1>2, <2>1
<1>3. CASE x % 4 # 0
  <2>1. PICK q \in Nat, m \in 1..3 : x = 4 * q + m /\ x % 4 = m
    <3>1. /\ x \div 4 \in Nat /\ x % 4 \in 0..3 /\ x = 4 * (x \div 4) + (x % 4)
      OBVIOUS
    <3> QED
      BY <1>3, <3>1
  <2>2. PICK k \in Nat : y = 4 * k
    <3>1. y \div 4 \in Nat /\ y = 4 * (y \div 4) + (y % 4)
      OBVIOUS
    <3> QED
      BY <3>1
  <2>3. 4 * q + 4 <= y /\ 4 * q + 4 < 65536
    BY <2>1, <2>2 DEF MaxLen
  <2>4. Align4(x) = 4 * q + 4
    <3>1. (x - (x % 4)) + 4 = 4 * q + 4
      BY <2>1
    <3>2. Align4(x) = (4 * q + 4) % 65536
      BY <1>3, <3>1 DEF Align4
    <3> QED
      BY <2>3, <3>2
  <2>5. (4 * q + 4) % 4 = 0
    OBVIOUS
  <2> QED
    BY <1>1, <2>1, <2>3, <2>4, <2>5
<1> QED
  BY <1>2, <1>3

\* The datagrams that arrive satisfy the reader's invariant.
LEMMA PacketInitInv == PacketInit => PacketInv
BY PacketAssumption DEF PacketInit, PacketInv, ReadsInside, MaxLen

\* No step of a reader leaves the datagram.
LEMMA PacketStepInv == PacketInv /\ [PacketNext]_packetVars => PacketInv'
<1> SUFFICES ASSUME PacketInv, [PacketNext]_packetVars PROVE PacketInv'
  OBVIOUS
<1> USE DEF PacketInv, ReadsInside, IsRtcp, FirstCount, Finished, datagram
<1>1. CASE Demux
  BY <1>1 DEF Demux, IsStun, IsRtp
<1>2. ASSUME NEW n \in {len - 20, len - 16}, StunHeader(n) PROVE PacketInv'
  <2>1. CASE n # len - 20 \/ n % 4 # 0
    BY <1>2, <2>1 DEF StunHeader
  <2>2. CASE ~(n # len - 20 \/ n % 4 # 0)
    <3>1. (len - 20) % 4 = 0 => len % 4 = 0
      OBVIOUS
    <3> QED
      BY <1>2, <2>2, <3>1 DEF StunHeader
  <2> QED
    BY <2>1, <2>2
<1>3. ASSUME NEW type \in AttrTypes, NEW n \in Lengths, NEW nonzero \in BOOLEAN,
             StunAttr(type, n, nonzero)
      PROVE PacketInv'
  <2> n \in Nat
    BY PacketAssumption
  <2>1. CASE pos + 4 + n > len \/ Misplaced(type) \/ ~LengthOk(type, n)
    BY <1>3, <2>1 DEF StunAttr
  <2>2. CASE ~(pos + 4 + n > len \/ Misplaced(type) \/ ~LengthOk(type, n))
    <3>1. /\ pos' = Padded(pos + 4 + n) /\ end' = pos + 4 + n
          /\ pc = "attrs" /\ pc' = pc /\ len' = len /\ b0' = b0 /\ off' = off
      BY <1>3, <2>2 DEF StunAttr, Padded
    <3>2. pos' \in Nat /\ pos' % 4 = 0 /\ pos' <= len
      <4>1. PICK x \in Nat : x = pos + 4 + n
        BY <2>2, <3>1
      <4>2. x <= len /\ len \in Nat /\ len <= MaxLen /\ len % 4 = 0
        BY <2>2, <3>1, <4>1
      <4>3. pos' = Padded(x)
        BY <3>1, <4>1
      <4>4. Padded(x) \in Nat /\ Padded(x) % 4 = 0 /\ Padded(x) <= len
        BY <4>2, PaddedInside
      <4> QED
        BY <4>3, <4>4
    <3> QED
      BY <2>2, <3>1, <3>2
  <2> QED
    BY <2>1, <2>2
<1>4. ASSUME NEW crc \in BOOLEAN, StunEnd(crc) PROVE PacketInv'
  BY <1>4 DEF StunEnd
<1>5. ASSUME NEW family \in {"INET", "INET6"}, Ice(family) PROVE PacketInv'
  BY <1>5 DEF Ice
<1>6. ASSUME NEW words \in Lengths, NEW padbyte \in {n \in Lengths : n < 256},
             DecodeRtp(words, padbyte)
      PROVE PacketInv'
  <2>1. b0 % 16 \in Nat /\ words \in Nat
    BY PacketAssumption
  <2>2. 12 + Csrcs + If(Extension, 4 + 4 * words) \in Nat
    BY <2>1 DEF If, Csrcs
  <2>3. Csrcs \in Nat
    BY <2>1 DEF Csrcs
  <2>4. PICK ptr \in Nat : ptr = 12 + Csrcs
    BY <2>3
  <2>5. PICK payload \in Nat : payload = ptr + If(Extension, 4 + 4 * words)
    BY <2>2, <2>4
  <2>6. end' <= len /\ end' \in Nat
    BY <1>6, <2>4, <2>5, PacketAssumption DEF DecodeRtp, Reads, Larger, If
  <2>7. off' \in Nat /\ pc' \in {"ok", "error"}
    BY <1>6, <2>4, <2>5 DEF DecodeRtp
  <2> QED
    BY <1>6, <2>6, <2>7 DEF DecodeRtp
<1>7. ASSUME NEW type \in SecondBytes, NEW pli \in BOOLEAN, NEW length \in Lengths,
             Walk(type, pli, length)
      PROVE PacketInv'
  <2> length \in Nat
    BY PacketAssumption
  <2> DEFINE least == (length + 1) * 4
  <2>1. CASE len - pos < least
    BY <1>7, <2>1 DEF Walk, Reads, Larger, PacketLen
  <2>2. CASE ~(len - pos < least)
    <3>1. pos + 4 <= len /\ pos' = pos + least /\ pos' \in Nat
      BY <1>7, <2>2 DEF Walk, PacketLen
    <3>2. /\ end' \in Nat /\ end' <= len /\ off' \in Nat
          /\ pc' \in {"walk", "SR", "RR", "SDES"}
      BY <1>7, <2>2, <3>1 DEF Walk, Decode, Reads, Larger, PacketLen
    <3>3. pc' # "walk" => count' = FirstCount
      BY <1>7, <2>2 DEF Walk, Decode, PacketLen
    <3>4. len' = len /\ b0' = b0 /\ b1' = b1 /\ IsRtcp /\ b0 % 32 \in Int
      BY <1>7 DEF Walk
    <3> QED
      BY <3>1, <3>2, <3>3, <3>4
  <2> QED
    BY <2>1, <2>2
<1>8. CASE WalkEnd
  BY <1>8 DEF WalkEnd
<1>9. CASE Report
  BY <1>9 DEF Report, Reads, Larger
<1>10. CASE ReportsEnd
  BY <1>10 DEF ReportsEnd
<1>11. ASSUME NEW items \in Lengths, SdesChunk(items) PROVE PacketInv'
  <2>1. items \in Nat /\ 2 * items <= len - off
    BY <1>11, PacketAssumption DEF SdesChunk
  <2>2. end' \in Nat /\ end' <= len
    BY <1>11, <2>1 DEF SdesChunk, Reads, Larger
  <2> QED
    BY <1>11, <2>1, <2>2 DEF SdesChunk
<1>12. CASE SdesFault
  BY <1>12 DEF SdesFault, Outside
<1>13. CASE SdesEnd
  BY <1>13 DEF SdesEnd
<1>14. CASE PacketDone \/ UNCHANGED packetVars
  BY <1>14 DEF PacketDone, packetVars
<1> HIDE DEF PacketInv, ReadsInside, IsRtcp, FirstCount, Finished, datagram
<1> QED
  BY <1>1, <1>2, <1>3, <1>4, <1>5, <1>6, <1>7, <1>8, <1>9, <1>10, <1>11, <1>12,
     <1>13, <1>14, Zenon DEF PacketNext, Step

\* Whatever the datagram, the STUN and RTP parsers read its bytes and no others; the
\* RTCP walk does too, but for a header taken from the last three bytes of a
\* compound, after which it gives up, and the copy of an SDES item that is not empty.
THEOREM PacketsReadInside == PacketSpec => []ReadsInside
<1>1. PacketInv => ReadsInside
  BY DEF PacketInv
<1> QED
  BY PacketInitInv, PacketStepInv, <1>1, PTL DEF PacketSpec

\* Whatever its attributes, Parse leaves its loop at the end of the datagram: the
\* check that follows the loop is never the one that rejects a packet.
THEOREM StunAttributesTile == PacketSpec => []AttributesTile
<1>1. PacketInv => AttributesTile
  <2> SUFFICES ASSUME PacketInv, pc = "attrs", pos + 4 > len PROVE pos = len
    BY DEF AttributesTile
  <2>1. /\ len \in Nat /\ pos \in Nat /\ len % 4 = 0 /\ pos % 4 = 0 /\ pos <= len
    BY DEF PacketInv
  <2>2. PICK k \in Nat : len = 4 * k
    <3>1. len \div 4 \in Nat /\ len = 4 * (len \div 4) + (len % 4)
      BY <2>1
    <3> QED
      BY <2>1, <3>1
  <2>3. PICK q \in Nat : pos = 4 * q
    <3>1. pos \div 4 \in Nat /\ pos = 4 * (pos \div 4) + (pos % 4)
      BY <2>1
    <3> QED
      BY <2>1, <3>1
  <2> QED
    BY <2>1, <2>2, <2>3
<1> QED
  BY PacketInitInv, PacketStepInv, <1>1, PTL DEF PacketSpec
-----------------------------------------------------------------------------
(* What Parse accepts, and what the server sends.                          *)

\* What Parse has let through so far is in order.
Order ==
    /\ "FINGERPRINT" \in has => last = "FINGERPRINT"
    /\ "MESSAGE_INTEGRITY" \in has => last \in {"MESSAGE_INTEGRITY", "FINGERPRINT"}

\* The datagram is as long as a PLI and starts like the one SendPli encodes.
OwnPli == len = 12 /\ b0 = 129 /\ b1 = 206

\* What the steps keep of the content: which parser was chosen, what it has taken
\* up to here, and that the only response is the one of the success.
Outcome ==
    /\ b1 \in Nat /\ b1 <= 255
    /\ pc \in {"demux", "stun"} => has = {}
    /\ pc \in {"stun", "attrs", "ice"} => b0 < 3
    /\ pc \in {"attrs", "ice"} => Order
    /\ pc \in {"walk", "SR", "RR", "SDES"} => IsRtcp
    /\ pc = "demux" => pos = 0
    /\ OwnPli /\ pos > 0 => "PLI" \in has
    /\ PayloadInside
    /\ rsp = <<>> \/ \E family \in {"INET", "INET6"} : rsp = SuccessResponse(family)

\* Before the first read nothing has been decided.
LEMMA InitOutcome == PacketInit => Outcome
BY PacketAssumption DEF PacketInit, Outcome, PayloadInside

\* Each step accounts for what the reader has accepted so far.
LEMMA StepOutcome == PacketInv /\ Outcome /\ [PacketNext]_packetVars => Outcome'
<1> SUFFICES ASSUME PacketInv, Outcome, [PacketNext]_packetVars PROVE Outcome'
  OBVIOUS
<1> USE DEF Outcome, datagram, PayloadInside, IsRtcp, IsRtp, Order, OwnPli
<1> len \in Nat /\ b0 \in Nat /\ pos \in Nat /\ off \in Nat
  BY DEF PacketInv
<1>1. CASE Demux
  BY <1>1 DEF Demux, IsStun
<1>2. ASSUME NEW n \in {len - 20, len - 16}, StunHeader(n) PROVE Outcome'
  BY <1>2 DEF StunHeader
<1>3. ASSUME NEW type \in AttrTypes, NEW n \in Lengths, NEW nonzero \in BOOLEAN,
             StunAttr(type, n, nonzero)
      PROVE Outcome'
  <2>1. CASE pos + 4 + n > len \/ Misplaced(type) \/ ~LengthOk(type, n)
    BY <1>3, <2>1 DEF StunAttr
  <2>2. CASE ~(pos + 4 + n > len \/ Misplaced(type) \/ ~LengthOk(type, n))
    <3>1. /\ has' = IF Set(type, n, nonzero) THEN has \cup {type} ELSE has \ {type}
          /\ last' = IF type \in {"MESSAGE_INTEGRITY", "FINGERPRINT"} THEN type ELSE "none"
          /\ pc = "attrs" /\ UNCHANGED <<pc, len, b0, b1, rsp>>
      BY <1>3, <2>2 DEF StunAttr
    <3>2. Order'
      BY <2>2, <3>1 DEF Misplaced
    <3> QED
      BY <3>1, <3>2
  <2> QED
    BY <2>1, <2>2
<1>4. ASSUME NEW crc \in BOOLEAN, StunEnd(crc) PROVE Outcome'
  BY <1>4 DEF StunEnd
<1>5. ASSUME NEW family \in {"INET", "INET6"}, Ice(family) PROVE Outcome'
  BY <1>5 DEF Ice
<1>6. ASSUME NEW words \in Lengths, NEW padbyte \in {n \in Lengths : n < 256},
             DecodeRtp(words, padbyte)
      PROVE Outcome'
  <2>1. b0 % 16 \in Nat /\ words \in Nat /\ padbyte \in Nat
    BY PacketAssumption
  <2>2. pc = "rtp" /\ UNCHANGED <<len, b0, b1, pos, has, rsp>>
    BY <1>6 DEF DecodeRtp
  <2>3. PayloadInside'
    BY <1>6, <2>1, <2>2 DEF DecodeRtp, If, Csrcs
  <2> QED
    BY <1>6, <2>2, <2>3 DEF DecodeRtp
<1>7. ASSUME NEW type \in SecondBytes, NEW pli \in BOOLEAN, NEW length \in Lengths,
             Walk(type, pli, length)
      PROVE Outcome'
  <2> length \in Nat
    BY PacketAssumption
  <2>1. CASE len - pos < PacketLen(length)
    BY <1>7, <2>1 DEF Walk
  <2>2. CASE ~(len - pos < PacketLen(length))
    <3>1. /\ has' = IF type = 206 /\ pli /\ len = 12 THEN {"PLI"} ELSE has
          /\ pc' \in {"walk", "SR", "RR", "SDES"} /\ pc = "walk"
          /\ pos = 0 => type = b1 /\ pli = (FirstCount = 1)
          /\ UNCHANGED <<len, b0, b1, rsp>>
      BY <1>7, <2>2 DEF Walk, Decode
    <3>2. b0 = 129 => FirstCount = 1
      BY DEF FirstCount
    <3>3. OwnPli => "PLI" \in has'
      BY <3>1, <3>2
    <3> QED
      BY <3>1, <3>3
  <2> QED
    BY <2>1, <2>2
<1>8. CASE WalkEnd
  BY <1>8 DEF WalkEnd
<1>9. CASE Report
  BY <1>9 DEF Report
<1>10. CASE ReportsEnd
  BY <1>10 DEF ReportsEnd
<1>11. ASSUME NEW items \in Lengths, SdesChunk(items) PROVE Outcome'
  BY <1>11 DEF SdesChunk
<1>12. CASE SdesFault
  BY <1>12 DEF SdesFault
<1>13. CASE SdesEnd
  BY <1>13 DEF SdesEnd
<1>14. CASE PacketDone \/ UNCHANGED packetVars
  BY <1>14 DEF PacketDone, packetVars
<1> HIDE DEF Outcome, datagram, PayloadInside, IsRtcp, IsRtp, Order, OwnPli
<1> QED
  BY <1>1, <1>2, <1>3, <1>4, <1>5, <1>6, <1>7, <1>8, <1>9, <1>10, <1>11, <1>12,
     <1>13, <1>14, Zenon DEF PacketNext, Step

\* The type field of a STUN packet has 14 bits; with a first byte below 3, putting
\* the class and the method together again gives it back.
LEMMA TypeFieldsInvert ==
    ASSUME NEW x \in 0..2, NEW y \in 0..255
    PROVE  TypeField(Method(256 * x + y), Klass(256 * x + y)) = 256 * x + y
<1>1. PICK h \in 0..15, l \in 0..15 : y = 16 * h + l
  <2>1. y \div 16 \in 0..15 /\ y % 16 \in 0..15 /\ y = 16 * (y \div 16) + (y % 16)
    OBVIOUS
  <2> QED
    BY <2>1
<1> QED
  BY <1>1 DEF TypeField, Method, Klass

\* The size of three attributes, the recursion unfolded.
LEMMA SizeOfThree ==
    ASSUME NEW attrs, Len(attrs) = 3,
           attrs[1].n \in Nat, attrs[2].n \in Nat, attrs[3].n \in Nat
    PROVE  AttrsSize(attrs) = 12 + attrs[1].n + attrs[2].n + attrs[3].n
<1> DEFINE Sums(g) == g = [i \in 0..3 |-> IF i = 0 THEN 0 ELSE g[i - 1] + 4 + attrs[i].n]
           a == 4 + attrs[1].n
           b == a + 4 + attrs[2].n
           h == [i \in 0..3 |-> IF i = 0 THEN 0 ELSE IF i = 1 THEN a ELSE IF i = 2 THEN b
                                ELSE b + 4 + attrs[3].n]
           f == CHOOSE g : Sums(g)
<1>1. Sums(h)
  <2>1. h[0] = 0 /\ h[1] = a /\ h[2] = b /\ h[3] = b + 4 + attrs[3].n
    OBVIOUS
  <2>2. ASSUME NEW i \in 0..3
        PROVE  h[i] = IF i = 0 THEN 0 ELSE h[i - 1] + 4 + attrs[i].n
    <3>1. i = 0 \/ (i = 1 /\ i - 1 = 0) \/ (i = 2 /\ i - 1 = 1) \/ (i = 3 /\ i - 1 = 2)
      OBVIOUS
    <3> HIDE DEF h
    <3> QED
      BY <2>1, <3>1
  <2>3. h = [i \in 0..3 |-> h[i]]
    OBVIOUS
  <2> HIDE DEF h
  <2> QED
    BY <2>2, <2>3
<1>2. Sums(f)
  <2> HIDE DEF Sums, h
  <2> QED
    BY <1>1
<1>3. AttrsSize(attrs) = f[3]
  BY DEF AttrsSize
<1>4. f[0] = 0 /\ f[1] = f[0] + 4 + attrs[1].n /\ f[2] = f[1] + 4 + attrs[2].n
      /\ f[3] = f[2] + 4 + attrs[3].n
  <2> HIDE DEF f
  <2> QED
    BY <1>2
<1> HIDE DEF f
<1> QED
  BY <1>3, <1>4

\* One element in front of two.
LEMMA JoinToThree ==
    ASSUME NEW S, NEW a \in Seq(S), NEW t \in Seq(S), Len(a) = 1, Len(t) = 2
    PROVE  /\ a \o t \in Seq(S) /\ Len(a \o t) = 3
           /\ (a \o t)[1] = a[1] /\ (a \o t)[2] = t[1] /\ (a \o t)[3] = t[2]
<1>1. /\ a \o t \in Seq(S) /\ Len(a \o t) = Len(a) + Len(t)
      /\ \A i \in 1 .. Len(a) + Len(t) :
             (a \o t)[i] = IF i <= Len(a) THEN a[i] ELSE t[i - Len(a)]
  BY ConcatProperties, Zenon
<1>2. PICK u : u = a \o t
  BY Zenon
<1>3. \A i \in 1 .. 1 + 2 : u[i] = IF i <= 1 THEN a[i] ELSE t[i - 1]
  BY <1>1, <1>2, Zenon
<1>4. u \in Seq(S) /\ Len(u) = 1 + 2
  BY <1>1, <1>2, Zenon
<1>5. u[1] = a[1] /\ u[2] = t[1] /\ u[3] = t[2]
  BY <1>3
<1> QED
  BY <1>2, <1>4, <1>5

\* The attributes are appended one by one.
LEMMA ConcatThree ==
    ASSUME NEW x, NEW y, NEW z
    PROVE  <<x>> \o (<<y>> \o <<z>>) = <<x, y, z>>
<1> DEFINE S == {x, y, z}
           t == <<y>> \o <<z>>
           l == <<x>> \o t
           r == <<x, y, z>>
<1>1. <<x>> \in Seq(S) /\ <<y>> \in Seq(S) /\ <<z>> \in Seq(S) /\ r \in Seq(S)
  OBVIOUS
<1>2. /\ Len(<<x>>) = 1 /\ Len(<<y>>) = 1 /\ Len(<<z>>) = 1 /\ Len(r) = 3
      /\ <<x>>[1] = x /\ <<y>>[1] = y /\ <<z>>[1] = z /\ r[1] = x /\ r[2] = y /\ r[3] = z
  OBVIOUS
<1>3. t \in Seq(S) /\ Len(t) = 2 /\ t[1] = y /\ t[2] = z
  BY <1>1, <1>2, ConcatProperties
<1> HIDE DEF S, t
<1>4. l \in Seq(S) /\ Len(l) = 3 /\ l[1] = x /\ l[2] = y /\ l[3] = z
  <2>1. PICK a \in Seq(S) : a = <<x>> /\ Len(a) = 1 /\ a[1] = x
    BY <1>1, <1>2, Zenon
  <2>2. l = a \o t
    BY <2>1, Zenon
  <2> HIDE DEF l
  <2>3. /\ a \o t \in Seq(S) /\ Len(a \o t) = 3
        /\ (a \o t)[1] = a[1] /\ (a \o t)[2] = t[1] /\ (a \o t)[3] = t[2]
    <3>1. Len(a) = 1 /\ Len(t) = 2 /\ t \in Seq(S)
      BY <1>3, <2>1, Zenon
    <3> QED
      BY <3>1, JoinToThree
  <2> QED
    BY <1>3, <2>1, <2>2, <2>3, Zenon
<1> HIDE DEF l, r
<1>5. \A i \in 1..3 : l[i] = r[i]
  BY <1>2, <1>4
<1>6. Len(l) = Len(r) /\ \A i \in 1..Len(l) : l[i] = r[i]
  BY <1>2, <1>4, <1>5, Zenon DEF r
<1>7. l = r
  BY <1>1, <1>4, <1>6, SeqEqual, Zenon
<1> QED
  BY <1>7, Zenon DEF l, r, t

\* The success response has its address, its integrity and its fingerprint, and
\* for both address families the size computed first is the size they take.
LEMMA ResponsesParse ==
    ASSUME NEW family \in {"INET", "INET6"}, rsp = SuccessResponse(family)
    PROVE  ResponseParses
<1> DEFINE p == [klass |-> 2, method |-> 1, family |-> family, username |-> 0,
                 priority |-> FALSE, controlling |-> FALSE, controlled |-> FALSE,
                 use_candidate |-> FALSE, error_code |-> 0, password |-> TRUE]
           n == IF family = "INET" THEN 8 ELSE 20
           attrs == << [type |-> "XOR_MAPPED_ADDRESS", n |-> n],
                       [type |-> "MESSAGE_INTEGRITY", n |-> 20],
                       [type |-> "FINGERPRINT", n |-> 4] >>
<1>1. /\ AddXorMappedAddress(p) /\ ~AddErrorCode(p) /\ AddMessageIntegrity(p)
      /\ AddressLen(p) = n /\ n \in {8, 20}
  BY DEF AddXorMappedAddress, AddErrorCode, AddMessageIntegrity, AddressLen
<1>2. PackSize(p) = n + 56
  BY <1>1 DEF PackSize, If
<1>3. PackAttrs(p) \o PackTail(p) = attrs
  <2>1. PackAttrs(p) = <<[type |-> "XOR_MAPPED_ADDRESS", n |-> n]>>
    BY <1>1 DEF PackAttrs, Attr
  <2>2. PackTail(p) = <<[type |-> "MESSAGE_INTEGRITY", n |-> 20]>>
                          \o <<[type |-> "FINGERPRINT", n |-> 4]>>
    BY <1>1 DEF PackTail, Attr
  <2> QED
    BY <2>1, <2>2, ConcatThree, Zenon
<1>4. rsp = [type |-> TypeField(1, 2), msg_length |-> n + 36, attrs |-> attrs, hmac |-> n + 28]
  <2>1. rsp = Pack(p)
    BY DEF SuccessResponse
  <2> HIDE DEF attrs
  <2>2. Pack(p) = [type |-> TypeField(p.method, p.klass), msg_length |-> PackSize(p) - 20,
                   attrs |-> attrs, hmac |-> If(AddMessageIntegrity(p), PackSize(p) - 20 - 8)]
    BY <1>3, Zenon DEF Pack
  <2>3. p.method = 1 /\ p.klass = 2
    OBVIOUS
  <2> HIDE DEF p, n
  <2>4. If(AddMessageIntegrity(p), PackSize(p) - 20 - 8) = n + 28 /\ PackSize(p) - 20 = n + 36
    BY <1>1, <1>2 DEF If
  <2> QED
    BY <2>1, <2>2, <2>3, <2>4
<1> HIDE DEF n
<1>5. Len(rsp.attrs) = 3 /\ AttrsSize(rsp.attrs) = n + 36
  <2>1. /\ rsp.attrs = attrs /\ Len(attrs) = 3
        /\ attrs[1].n = n /\ attrs[2].n = 20 /\ attrs[3].n = 4
    BY <1>4
  <2> HIDE DEF attrs
  <2> QED
    <3>1. AttrsSize(attrs) = 12 + n + 20 + 4
      <4>1. attrs[1].n \in Nat /\ attrs[2].n \in Nat /\ attrs[3].n \in Nat
        BY <1>1, <2>1
      <4>2. AttrsSize(attrs) = 12 + attrs[1].n + attrs[2].n + attrs[3].n
        BY <2>1, <4>1, SizeOfThree, Zenon
      <4> QED
        BY <2>1, <4>2, Zenon
    <3> QED
      BY <1>1, <2>1, <3>1
<1>6. Klass(rsp.type) = 2 /\ Method(rsp.type) = 1
  BY <1>4 DEF TypeField, Klass, Method
<1>7. (n + 36) % 4 = 0
  BY <1>1
<1>8. \A i \in 1..3 : LengthOk(rsp.attrs[i].type, rsp.attrs[i].n)
  BY <1>4 DEF LengthOk
<1>9. rsp.attrs[3].type = "FINGERPRINT" /\ rsp.attrs[2].type = "MESSAGE_INTEGRITY"
  BY <1>4
<1>10. rsp.msg_length = n + 36 /\ rsp.hmac = n + 28
  BY <1>4
<1>11. \A i \in 1..Len(rsp.attrs) : LengthOk(rsp.attrs[i].type, rsp.attrs[i].n)
  BY <1>5, <1>8
<1>12. /\ rsp.attrs[Len(rsp.attrs)].type = "FINGERPRINT"
       /\ rsp.attrs[Len(rsp.attrs) - 1].type = "MESSAGE_INTEGRITY"
  BY <1>5, <1>9
<1>13. rsp.hmac = AttrsSize(rsp.attrs) - 8
  BY <1>1, <1>5, <1>10
<1> QED
  BY <1>5, <1>6, <1>7, <1>10, <1>11, <1>12, <1>13, Zenon DEF ResponseParses

\* Whatever attributes a packet has, Parse's two checks of earlier attributes are
\* enough: nothing follows the fingerprint, and nothing else the integrity.
THEOREM AttributesInOrder == PacketSpec => []OrderOfAttributes
<1>1. Outcome => OrderOfAttributes
  BY DEF Outcome, Order, OrderOfAttributes
<1> QED
  BY PacketInitInv, PacketStepInv, InitOutcome, StepOutcome, <1>1, PTL DEF PacketSpec

\* Whatever an RTP packet announces as CSRCs, extension and padding, Decode leaves
\* a payload that lies in the datagram behind the fixed header.
THEOREM RtpPayloadInside == PacketSpec => []PayloadInside
<1>1. Outcome => PayloadInside
  BY DEF Outcome
<1> QED
  BY PacketInitInv, PacketStepInv, InitOutcome, StepOutcome, <1>1, PTL DEF PacketSpec

\* What the server sends, the parsers of this repository accept: the success
\* response of either address family, its type field, and the PLI of SendPli.
THEOREM OwnPacketsAlwaysParse == PacketSpec => []OwnPacketsParse
<1>1. PacketInv /\ Outcome => OwnPacketsParse
  <2> SUFFICES ASSUME PacketInv, Outcome PROVE OwnPacketsParse
    OBVIOUS
  <2>1. TypeFieldInverse
    <3> SUFFICES ASSUME pc = "ice"
                 PROVE  TypeField(Method(256 * b0 + b1), Klass(256 * b0 + b1)) = 256 * b0 + b1
      BY DEF TypeFieldInverse
    <3>1. b0 \in 0..2 /\ b1 \in 0..255
      BY DEF PacketInv, Outcome
    <3> QED
      BY <3>1, TypeFieldsInvert
  <2>2. ResponseParses
    <3>1. CASE rsp = <<>>
      BY <3>1 DEF ResponseParses
    <3>2. ASSUME NEW family \in {"INET", "INET6"}, rsp = SuccessResponse(family)
          PROVE  ResponseParses
      BY <3>2, ResponsesParse
    <3> QED
      BY <3>1, <3>2 DEF Outcome
  <2>3. OwnPliDecodes
    BY DEF Outcome, OwnPli, OwnPliDecodes
  <2> QED
    BY <2>1, <2>2, <2>3 DEF OwnPacketsParse
<1> QED
  BY PacketInitInv, PacketStepInv, InitOutcome, StepOutcome, <1>1, PTL DEF PacketSpec
-----------------------------------------------------------------------------
(* Sequences, for the file transfer.                                       *)

\* A sequence is what is taken from it and what is left.
LEMMA TakeAndDrop ==
    ASSUME NEW S, NEW s \in Seq(S), NEW n \in 0..Len(s)
    PROVE  /\ SubSeq(s, 1, n) \in Seq(S) /\ Len(SubSeq(s, 1, n)) = n
           /\ Drop(s, n) \in Seq(S) /\ Len(Drop(s, n)) = Len(s) - n
           /\ SubSeq(s, 1, n) \o Drop(s, n) = s
<1>1. Len(s) \in Nat /\ n \in Int /\ \A i \in 1..Len(s) : s[i] \in S
  BY LenProperties, ElementOfSeq
<1>2. SubSeq(s, 1, n) \in Seq(S) /\ Len(SubSeq(s, 1, n)) = n
  <2>1. \A i \in 1..n : s[i] \in S
    BY <1>1
  <2> QED
    BY <1>1, <2>1, SubSeqProperties
<1>3. Drop(s, n) \in Seq(S) /\ Len(Drop(s, n)) = Len(s) - n
  <2>1. n + 1 \in Int /\ Len(s) \in Int /\ \A i \in (n + 1)..Len(s) : s[i] \in S
    BY <1>1
  <2>2. /\ SubSeq(s, n + 1, Len(s)) \in Seq(S)
        /\ Len(SubSeq(s, n + 1, Len(s)))
              = IF n + 1 <= Len(s) THEN Len(s) - (n + 1) + 1 ELSE 0
    BY <2>1, SubSeqProperties
  <2> QED
    BY <1>1, <2>2 DEF Drop
<1>4. SubSeq(s, 1, n) \o Drop(s, n) = s
  <2>1. 1 \in 1..(Len(s) + 1) /\ n \in (1 - 1)..Len(s) /\ Len(s) \in n..Len(s)
    BY <1>1
  <2>2. SubSeq(s, 1, n) \o SubSeq(s, n + 1, Len(s)) = SubSeq(s, 1, Len(s))
    BY <2>1, ConcatAdjacentSubSeq, Zenon
  <2> QED
    BY <2>2, SubSeqFull, Zenon DEF Drop
<1> QED
  BY <1>2, <1>3, <1>4

\* The next m elements and what follows them are what follows the first n.
LEMMA NextAndDrop ==
    ASSUME NEW S, NEW s \in Seq(S), NEW n \in 0..Len(s), NEW m \in 0..(Len(s) - n)
    PROVE  /\ SubSeq(s, n + 1, n + m) \in Seq(S)
           /\ Len(SubSeq(s, n + 1, n + m)) = m
           /\ SubSeq(s, n + 1, n + m) \o Drop(s, n + m) = Drop(s, n)
           /\ SubSeq(s, 1, n) \o SubSeq(s, n + 1, n + m) = SubSeq(s, 1, n + m)
<1>1. Len(s) \in Nat /\ n \in Int /\ m \in Int /\ \A i \in 1..Len(s) : s[i] \in S
  BY LenProperties, ElementOfSeq
<1>2. SubSeq(s, n + 1, n + m) \in Seq(S) /\ Len(SubSeq(s, n + 1, n + m)) = m
  <2>1. \A i \in (n + 1)..(n + m) : s[i] \in S
    BY <1>1
  <2> QED
    BY <1>1, <2>1, SubSeqProperties
<1>3. SubSeq(s, n + 1, n + m) \o Drop(s, n + m) = Drop(s, n)
  <2>1. n + 1 \in 1..(Len(s) + 1) /\ n + m \in ((n + 1) - 1)..Len(s)
        /\ Len(s) \in (n + m)..Len(s)
    BY <1>1
  <2> QED
    BY <2>1, ConcatAdjacentSubSeq, Zenon DEF Drop
<1>4. SubSeq(s, 1, n) \o SubSeq(s, n + 1, n + m) = SubSeq(s, 1, n + m)
  BY <1>1, ConcatAdjacentSubSeq
<1> QED
  BY <1>2, <1>3, <1>4

-----------------------------------------------------------------------------
(* Types.                                                                  *)

\* The header and the file are sequences of pieces.
LEMMA StreamTypes ==
    ASSUME file_size \in 0..MaxFileLen
    PROVE  /\ Header \in Seq(Pieces) /\ Len(Header) = HeadLen
           /\ Content \in Seq(Pieces) /\ Len(Content) = file_size
<1>1. \A i \in 1..HeadLen : 0 \in Pieces
  BY TransferAssumption DEF Pieces
<1>2. Header \in Seq(Pieces) /\ Len(Header) = HeadLen
  BY <1>1, IsASeq, TransferAssumption DEF Header
<1>3. \A i \in 1..file_size : i \in Pieces
  BY TransferAssumption DEF Pieces
<1>4. Content \in Seq(Pieces) /\ Len(Content) = file_size
  BY <1>3, IsASeq, TransferAssumption DEF Content
<1> QED
  BY <1>2, <1>4

\* AsyncWrite's bookkeeping keeps the types.
LEMMA WroteTypes ==
    ASSUME TypeOK, NEW n \in 1..(Len(sbuf) - wn), Wrote(n)
    PROVE  /\ sbuf' \in Seq(Pieces) /\ wn' \in 0..Len(sbuf') /\ total_send' \in Nat
           /\ total_send' >= total_send /\ spc' \in {"read", spc}
           /\ total_send' + wn' = total_send + wn + n
<1>1. Len(sbuf) \in Nat /\ wn \in 0..Len(sbuf) /\ total_send \in Nat
  BY LenProperties DEF TypeOK
<1>2. CASE wn + n = Len(sbuf)
  <2>1. <<>> \in Seq(Pieces) /\ Len(<<>>) = 0
    BY EmptySeq
  <2> QED
    BY <1>1, <1>2, <2>1 DEF Wrote
<1>3. CASE wn + n # Len(sbuf)
  BY <1>1, <1>3 DEF Wrote, TypeOK
<1> QED
  BY <1>2, <1>3

\* What the client keeps of its buffer is a sequence of pieces.
LEMMA ConsumeTypes ==
    ASSUME TypeOK, NEW buf \in Seq(Pieces), Consume(buf)
    PROVE  cbuf' \in Seq(Pieces) /\ file' \in Seq(Pieces) /\ start_write_file' \in BOOLEAN
<1>1. Len(buf) \in Nat /\ HeadLen \in Nat
  BY LenProperties, TransferAssumption
<1>2. CASE start_write_file
  <2>1. <<>> \in Seq(Pieces) /\ file \o buf \in Seq(Pieces)
    BY EmptySeq, ConcatProperties DEF TypeOK
  <2>2. file' = file \o buf /\ cbuf' = <<>> /\ start_write_file' = start_write_file
    BY <1>2 DEF Consume
  <2>3. start_write_file \in BOOLEAN
    BY DEF TypeOK
  <2> QED
    BY <2>1, <2>2, <2>3
<1>3. CASE ~start_write_file /\ Len(buf) < HeadLen
  BY <1>3 DEF Consume, TypeOK
<1>4. CASE ~start_write_file /\ ~(Len(buf) < HeadLen)
  <2>1. HeadLen \in 0..Len(buf)
    BY <1>1, <1>4
  <2>2. Drop(buf, HeadLen) \in Seq(Pieces)
    BY <2>1, TakeAndDrop
  <2> QED
    BY <1>4, <2>2 DEF Consume, TypeOK
<1> QED
  BY <1>2, <1>3, <1>4

\* What the two programs have at each place of their code.
Shape ==
    /\ spc \in {"accept", "read", "waitclose", "succeed", "aborted"} => wn = 0
    /\ spc = "accept" => offset = 0 /\ total_send = 0 /\ fin = FALSE
    /\ spc = "read" => sbuf = <<>> \/ offset = 0
    /\ spc = "aborted" => file_size = 0
    /\ spc \in {"waitclose", "succeed"} => sbuf = <<>> /\ offset = file_size
    /\ spc \in {"read", "write"} => fin = FALSE
    /\ cpc = "connect" => /\ spc \in {"accept", "fatal"} /\ wire = <<>>
                          /\ total_read = 0 /\ total_send = 0 /\ wn = 0
                          /\ cbuf = <<>> /\ file = <<>> /\ start_write_file = FALSE
    /\ cpc = "read" => spc # "accept"
    /\ cpc = "succeed" => spc \in {"waitclose", "succeed", "fatal", "aborted"}
    /\ spc = "succeed" => cpc \in {"succeed", "fatal"}
    /\ cpc \in {"connect", "read"} => closed = "no"
    /\ start_write_file = FALSE => file = <<>> /\ Len(cbuf) < HeadLen
    /\ start_write_file = TRUE => file = <<>> \/ cbuf = <<>>

\* Every step keeps the types.
LEMMA TypeStep ==
    ASSUME TypeOK, Shape, [Next]_vars
    PROVE  TypeOK'
<1>1. /\ Len(sbuf) \in Nat /\ Len(wire) \in Nat
      /\ Header \in Seq(Pieces) /\ Len(Header) = HeadLen /\ HeadLen \in Nat
      /\ Content \in Seq(Pieces) /\ Len(Content) = file_size
  BY LenProperties, StreamTypes, TransferAssumption DEF TypeOK
<1>2. /\ total_send \in Nat /\ last_send \in Nat /\ last_send <= total_send
      /\ total_read \in Nat /\ last_read \in Nat /\ last_read <= total_read
      /\ wn \in Nat /\ offset \in Nat /\ file_size \in Nat
  BY <1>1, TransferAssumption DEF TypeOK
<1>3. CASE Accept
  BY <1>1, <1>2, <1>3 DEF Accept, TypeOK, Shape
<1>4. ASSUME NEW n \in 1..BufSize, ReadFile(n)
      PROVE  TypeOK'
  <2>1. offset \in 0..Len(Content) /\ n \in 0..(Len(Content) - offset)
    BY <1>1, <1>2, <1>4 DEF ReadFile
  <2>2. SubSeq(Content, offset + 1, offset + n) \in Seq(Pieces)
    BY <1>1, <2>1, NextAndDrop
  <2>3. sbuf' \in Seq(Pieces) /\ Len(sbuf') \in Nat
    BY <2>2, <1>4, ConcatProperties, LenProperties DEF ReadFile, TypeOK
  <2> QED
    BY <1>1, <1>2, <1>4, <2>3 DEF ReadFile, TypeOK, client
<1>5. ASSUME NEW n \in 1..Window, Write(n)
      PROVE  TypeOK'
  <2>1. n \in 1..(Len(sbuf) - wn) /\ n \in 0..(Len(sbuf) - wn) /\ wn \in 0..Len(sbuf)
    BY <1>5 DEF Write, TypeOK
  <2>2. SubSeq(sbuf, wn + 1, wn + n) \in Seq(Pieces)
    BY <2>1, NextAndDrop DEF TypeOK
  <2>3. wire' \in Seq(Pieces)
    BY <2>2, <1>5, ConcatProperties DEF Write, TypeOK
  <2>4. /\ sbuf' \in Seq(Pieces) /\ wn' \in 0..Len(sbuf') /\ total_send' \in Nat
        /\ total_send' >= total_send /\ spc' \in {"read", spc}
    BY <2>1, <1>5, WroteTypes DEF Write
  <2> QED
    BY <1>2, <1>5, <2>3, <2>4 DEF Write, TypeOK, client
<1>6. ASSUME NEW n \in 1..Window, WriteLost(n)
      PROVE  TypeOK'
  <2>1. /\ sbuf' \in Seq(Pieces) /\ wn' \in 0..Len(sbuf') /\ total_send' \in Nat
        /\ total_send' >= total_send /\ spc' \in {"read", spc}
    BY <1>6, WroteTypes DEF WriteLost
  <2> QED
    BY <1>2, <1>6, <2>1 DEF WriteLost, TypeOK, client
<1>7. ASSUME NEW n \in 1..BufSize, Read(n)
      PROVE  TypeOK'
  <2>1. n \in 0..Len(wire)
    BY <1>1, <1>7 DEF Read
  <2>2. SubSeq(wire, 1, n) \in Seq(Pieces) /\ wire' \in Seq(Pieces)
    BY <2>1, <1>7, TakeAndDrop DEF Read, TypeOK
  <2>3. cbuf \o SubSeq(wire, 1, n) \in Seq(Pieces)
    BY <2>2, ConcatProperties DEF TypeOK
  <2>4. cbuf' \in Seq(Pieces) /\ file' \in Seq(Pieces) /\ start_write_file' \in BOOLEAN
    BY <2>3, <1>7, ConsumeTypes, Zenon DEF Read
  <2> QED
    BY <1>2, <1>7, <2>2, <2>4 DEF Read, TypeOK, server
<1>8. CASE AcceptFails \/ ReadEnd \/ ReadFails \/ WriteFails \/ WaitClose
           \/ WaitCloseTimeout \/ ServerStat
  <2>1. CASE AcceptFails
    BY <1>1, <1>2, <2>1 DEF AcceptFails, TypeOK, client
  <2>2. CASE ReadEnd
    BY <1>1, <1>2, <2>2 DEF ReadEnd, TypeOK, client
  <2>3. CASE ReadFails
    BY <1>1, <1>2, <2>3 DEF ReadFails, TypeOK, client
  <2>4. CASE WriteFails
    BY <1>1, <1>2, <2>4 DEF WriteFails, TypeOK, client
  <2>5. CASE WaitClose
    BY <1>1, <1>2, <2>5 DEF WaitClose, TypeOK, client
  <2>6. CASE WaitCloseTimeout
    BY <1>1, <1>2, <2>6 DEF WaitCloseTimeout, TypeOK, client
  <2>7. CASE ServerStat
    BY <1>1, <1>2, <2>7 DEF ServerStat, TypeOK, client
  <2> QED
    BY <1>8, <2>1, <2>2, <2>3, <2>4, <2>5, <2>6, <2>7
<1>9. CASE ConnectFails \/ ReadEof \/ ClientFails \/ ClientStat
  <2>1. CASE ConnectFails
    BY <1>1, <1>2, <2>1 DEF ConnectFails, TypeOK, server
  <2>2. CASE ReadEof
    BY <1>1, <1>2, <2>2 DEF ReadEof, Close, TypeOK, server
  <2>3. CASE ClientFails
    BY <1>1, <1>2, <2>3 DEF ClientFails, Close, TypeOK, server
  <2>4. CASE ClientStat
    BY <1>1, <1>2, <2>4 DEF ClientStat, TypeOK, server
  <2> QED
    BY <1>9, <2>1, <2>2, <2>3, <2>4
<1>10. CASE ResetArrives \/ Terminated \/ UNCHANGED vars
  BY <1>10, Zenon DEF ResetArrives, Terminated, TypeOK, vars, server, client
<1> QED
  BY <1>3, <1>4, <1>5, <1>6, <1>7, <1>8, <1>9, <1>10 DEF Next, ServerStep, ClientStep

-----------------------------------------------------------------------------
(* The control.                                                            *)

\* What the client's parsing of its buffer leaves behind.
LEMMA ConsumeShape ==
    ASSUME TypeOK, Shape, NEW buf \in Seq(Pieces), Consume(buf)
    PROVE  /\ start_write_file' = FALSE => file' = <<>> /\ Len(cbuf') < HeadLen
           /\ start_write_file' = TRUE => file' = <<>> \/ cbuf' = <<>>
<1>1. start_write_file \in BOOLEAN
  BY DEF TypeOK
<1>2. CASE start_write_file = TRUE
  BY <1>2 DEF Consume
<1>3. CASE start_write_file = FALSE
  <2>1. file = <<>>
    BY <1>3 DEF Shape
  <2>2. CASE Len(buf) < HeadLen
    BY <1>3, <2>1, <2>2 DEF Consume
  <2>3. CASE ~(Len(buf) < HeadLen)
    BY <1>3, <2>1, <2>3 DEF Consume
  <2> QED
    BY <2>2, <2>3, Zenon
<1> QED
  BY <1>1, <1>2, <1>3, Zenon

\* Every step keeps the shape.
LEMMA ShapeStep ==
    ASSUME TypeOK, Shape, [Next]_vars
    PROVE  Shape'
<1>1. CASE Accept
  BY <1>1, Zenon DEF Accept, Shape
<1>2. ASSUME NEW n \in 1..BufSize, ReadFile(n)
      PROVE  Shape'
  BY <1>2, Zenon DEF ReadFile, Shape, client
<1>3. ASSUME NEW n \in 1..Window, Write(n)
      PROVE  Shape'
  BY <1>3, Zenon DEF Write, Wrote, Shape, client
<1>4. ASSUME NEW n \in 1..Window, WriteLost(n)
      PROVE  Shape'
  BY <1>4, Zenon DEF WriteLost, Wrote, Shape, client
<1>5. ASSUME NEW n \in 1..BufSize, Read(n)
      PROVE  Shape'
  <2>1. n \in 0..Len(wire)
    BY <1>5, LenProperties DEF Read, TypeOK
  <2>2. SubSeq(wire, 1, n) \in Seq(Pieces)
    BY <2>1, TakeAndDrop DEF TypeOK
  <2>3. cbuf \o SubSeq(wire, 1, n) \in Seq(Pieces)
    BY <2>2, ConcatProperties, Zenon DEF TypeOK
  <2>4. /\ start_write_file' = FALSE => file' = <<>> /\ Len(cbuf') < HeadLen
        /\ start_write_file' = TRUE => file' = <<>> \/ cbuf' = <<>>
    BY <2>3, <1>5, ConsumeShape, Zenon DEF Read
  <2> QED
    BY <1>5, <2>4, Zenon DEF Read, Shape, server
<1>6. CASE ReadEnd
  BY <1>6, Zenon DEF ReadEnd, Shape, client
<1>7. CASE AcceptFails \/ ReadFails \/ WriteFails
  BY <1>7, Zenon DEF AcceptFails, ReadFails, WriteFails, Shape, client
<1>8. CASE WaitClose
  <2>1. cpc \in {"succeed", "fatal"}
    BY <1>8 DEF WaitClose, Shape, TypeOK
  <2> QED
    BY <1>8, <2>1, Zenon DEF WaitClose, Shape, client
<1>12. CASE WaitCloseTimeout \/ ServerStat
  BY <1>12, Zenon DEF WaitCloseTimeout, ServerStat, Shape, client
<1>9. CASE ConnectFails \/ ClientFails \/ ClientStat
  BY <1>9, Zenon DEF ConnectFails, ClientFails, ClientStat, Close, Shape, server
<1>10. CASE ReadEof
  <2>1. spc \in {"waitclose", "succeed", "fatal", "aborted"}
    BY <1>10 DEF ReadEof, Shape, TypeOK
  <2> QED
    BY <1>10, <2>1, Zenon DEF ReadEof, Close, Shape, server
<1>11. CASE ResetArrives \/ Terminated \/ UNCHANGED vars
  <2>1. UNCHANGED <<spc, wn, offset, total_send, fin, sbuf, file_size, cpc, wire,
                    total_read, cbuf, file, start_write_file>>
    BY <1>11, Zenon DEF ResetArrives, Terminated, vars, server, client
  <2>2. cpc \in {"connect", "read"} => closed' = closed
    BY <1>11 DEF ResetArrives, Terminated, vars
  <2> QED
    BY <2>1, <2>2, Zenon DEF Shape
<1> QED
  BY <1>1, <1>2, <1>3, <1>4, <1>5, <1>6, <1>7, <1>8, <1>9, <1>10, <1>11, <1>12
     DEF Next, ServerStep, ClientStep

-----------------------------------------------------------------------------
(* The counters.                                                           *)

\* Every step keeps the counters in agreement.
LEMMA CountersStep ==
    ASSUME TypeOK, Shape, CountersAgree, [Next]_vars
    PROVE  CountersAgree'
<1>1. /\ Len(sbuf) \in Nat /\ Len(wire) \in Nat /\ wn \in Nat
      /\ total_send \in Nat /\ total_read \in Nat
  BY LenProperties DEF TypeOK
<1>2. CASE Accept
  BY <1>2 DEF Accept, CountersAgree
<1>3. ASSUME NEW n \in 1..BufSize, ReadFile(n)
      PROVE  CountersAgree'
  BY <1>3 DEF ReadFile, CountersAgree, Shape, client
<1>4. ASSUME NEW n \in 1..Window, Write(n)
      PROVE  CountersAgree'
  <2>1. n \in 1..(Len(sbuf) - wn) /\ n \in 0..(Len(sbuf) - wn) /\ wn \in 0..Len(sbuf)
    BY <1>4 DEF Write, TypeOK
  <2>2. /\ SubSeq(sbuf, wn + 1, wn + n) \in Seq(Pieces)
        /\ Len(SubSeq(sbuf, wn + 1, wn + n)) = n
    BY <2>1, NextAndDrop DEF TypeOK
  <2>3. Len(wire') = Len(wire) + n
    BY <1>4, <2>2, ConcatProperties DEF Write, TypeOK
  <2>4. total_send' + wn' = total_send + wn + n
    BY <2>1, <1>4, WroteTypes DEF Write
  <2>5. total_read' = total_read /\ closed' = closed
    BY <1>4 DEF Write, client
  <2> QED
    BY <1>1, <2>3, <2>4, <2>5 DEF CountersAgree
<1>5. ASSUME NEW n \in 1..BufSize, Read(n)
      PROVE  CountersAgree'
  <2>1. n \in 0..Len(wire)
    BY <1>1, <1>5 DEF Read
  <2>2. Len(wire') = Len(wire) - n
    BY <2>1, <1>5, TakeAndDrop DEF Read, TypeOK
  <2>3. /\ total_read' = total_read + n /\ closed' = closed
        /\ total_send' = total_send /\ wn' = wn
    BY <1>5 DEF Read, server
  <2> QED
    BY <1>1, <2>2, <2>3 DEF CountersAgree
<1>6. ASSUME NEW n \in 1..Window, WriteLost(n)
      PROVE  CountersAgree'
  BY <1>6 DEF WriteLost, CountersAgree
<1>7. CASE AcceptFails \/ ReadEnd \/ ReadFails \/ WriteFails \/ WaitClose
           \/ WaitCloseTimeout \/ ServerStat
  BY <1>7, Zenon DEF AcceptFails, ReadEnd, ReadFails, WriteFails, WaitClose,
     WaitCloseTimeout, ServerStat, CountersAgree, client
<1>8. CASE ConnectFails \/ ReadEof \/ ClientFails \/ ClientStat
  BY <1>8, Zenon DEF ConnectFails, ReadEof, ClientFails, ClientStat, Close, CountersAgree,
     server
<1>9. CASE ResetArrives \/ Terminated \/ UNCHANGED vars
  BY <1>9, Zenon DEF ResetArrives, Terminated, CountersAgree, vars, server, client
<1> QED
  BY <1>2, <1>3, <1>4, <1>5, <1>6, <1>7, <1>8, <1>9 DEF Next, ServerStep, ClientStep

-----------------------------------------------------------------------------
(* The stream.                                                             *)

\* Nothing dropped.
LEMMA DropNone ==
    ASSUME NEW S, NEW s \in Seq(S)
    PROVE  Drop(s, 0) = s
BY SubSeqFull DEF Drop

\* Concatenation of pieces is associative.
LEMMA Associative ==
    \A s, t, u \in Seq(Pieces) : (s \o t) \o u = s \o (t \o u)
BY ConcatAssociative

\* Two cuts of one sequence: the shorter first part begins the longer one.
LEMMA FirstParts ==
    ASSUME NEW S, NEW s \in Seq(S), NEW t \in Seq(S), NEW h \in Seq(S), NEW c \in Seq(S),
           s \o t = h \o c, h # <<>>, Len(h) <= Len(s)
    PROVE  SubSeq(s, 1, Len(h)) = h
<1>1. Len(h) \in Nat \ {0} /\ Len(s) \in Nat
  BY EmptySeq, LenProperties
<1>2. 1 \in 1..Len(s) /\ Len(h) \in 1..Len(s) /\ 1 \in 1..Len(h) /\ Len(h) \in 1..Len(h)
  BY <1>1
<1>3. SubSeq(s \o t, 1, Len(h)) = SubSeq(s, 1, Len(h))
  BY <1>2, SubSeqOfConcat1
<1>4. SubSeq(h \o c, 1, Len(h)) = SubSeq(h, 1, Len(h))
  BY <1>2, SubSeqOfConcat1
<1> QED
  BY <1>3, <1>4, SubSeqFull

\* What the client took is a sequence of pieces, in three parts.
LEMMA TakenParts ==
    ASSUME TypeOK
    PROVE  /\ Taken \in Seq(Pieces)
           /\ start_write_file = TRUE => Taken = Header \o (file \o cbuf)
           /\ start_write_file = FALSE /\ file = <<>> => Taken = cbuf
<1>1. /\ Header \in Seq(Pieces) /\ <<>> \in Seq(Pieces) /\ start_write_file \in BOOLEAN
      /\ file \in Seq(Pieces) /\ cbuf \in Seq(Pieces)
  BY StreamTypes, EmptySeq DEF TypeOK
<1>2. CASE start_write_file = TRUE
  <2>1. Taken = Header \o file \o cbuf
    BY <1>2 DEF Taken
  <2> QED
    <3>1. Header \in Seq(Pieces) /\ file \in Seq(Pieces) /\ cbuf \in Seq(Pieces)
      BY <1>1
    <3>2. (Header \o file) \o cbuf = Header \o (file \o cbuf)
      BY <3>1, Associative, Zenon
    <3>3. PICK x \in Seq(Pieces) : x = file \o cbuf
      BY <3>1, ConcatProperties, Zenon
    <3>4. Header \o x \in Seq(Pieces)
      BY <3>1, ConcatProperties
    <3> QED
      BY <1>2, <2>1, <3>2, <3>3, <3>4
<1>3. CASE start_write_file = FALSE
  <2>1. Taken = <<>> \o file \o cbuf
    BY <1>3 DEF Taken
  <2>2. <<>> \o file = file
    BY <1>1, ConcatEmptySeq
  <2> QED
    BY <1>1, <1>3, <2>1, <2>2, ConcatProperties, ConcatEmptySeq
<1> QED
  BY <1>1, <1>2, <1>3, Zenon

\* What AsyncWrite has not written yet.
LEMMA WroteRest ==
    ASSUME TypeOK, NEW n \in 1..(Len(sbuf) - wn), Wrote(n)
    PROVE  Drop(sbuf', wn') = Drop(sbuf, wn + n)
<1>1. Len(sbuf) \in Nat /\ wn \in 0..Len(sbuf)
  BY LenProperties DEF TypeOK
<1>2. CASE wn + n = Len(sbuf)
  <2>1. sbuf' = <<>> /\ wn' = 0
    BY <1>2 DEF Wrote
  <2>2. Drop(<<>>, 0) = <<>>
    BY EmptySeq, DropNone, Zenon
  <2>3. Drop(sbuf, Len(sbuf)) = <<>>
    BY <1>1, SubSeqEmpty DEF Drop
  <2> QED
    BY <1>2, <2>1, <2>2, <2>3
<1>3. CASE wn + n # Len(sbuf)
  BY <1>3 DEF Wrote
<1> QED
  BY <1>2, <1>3

\* A read moves its bytes from the wire to what the client took, whatever part
\* of the header they are.
LEMMA ReadKeepsStream ==
    ASSUME TypeOK, TypeOK', Shape, StreamIntact, NEW n \in 1..BufSize, Read(n)
    PROVE  Taken' \o wire' = Taken \o wire
<1> DEFINE X == SubSeq(wire, 1, n)
           buf == cbuf \o X
<1>1. n \in 0..Len(wire) /\ wire \in Seq(Pieces) /\ cbuf \in Seq(Pieces)
  BY LenProperties DEF Read, TypeOK
<1>2. X \in Seq(Pieces) /\ wire' \in Seq(Pieces) /\ X \o wire' = wire
  BY <1>1, TakeAndDrop DEF Read
<1>3. Consume(buf) /\ buf \in Seq(Pieces) /\ file_size' = file_size
  BY <1>1, <1>2, ConcatProperties, Zenon DEF Read, server
<1>h. Header' = Header
  BY DEF Header
<1>i. /\ Header \in Seq(Pieces) /\ Len(Header) = HeadLen /\ HeadLen \in Nat \ {0}
      /\ Content \in Seq(Pieces) /\ Len(Content) = file_size
      /\ Taken \in Seq(Pieces)
  BY StreamTypes, TransferAssumption, TakenParts, Zenon DEF TypeOK
<1> HIDE DEF X
<1>4. Taken' = Taken \o X
  <2>1. start_write_file \in BOOLEAN
    BY DEF TypeOK
  <2>f. file \in Seq(Pieces)
    BY DEF TypeOK
  <2>2. CASE start_write_file = TRUE
    <3>1. file' = file \o buf /\ cbuf' = <<>> /\ start_write_file' = TRUE
      BY <1>3, <2>2 DEF Consume
    <3>2. Taken' = Header \o (file \o buf) \o <<>>
      BY <3>1, <1>h, Zenon DEF Taken
    <3>3. file \o buf \in Seq(Pieces) /\ file \o cbuf \in Seq(Pieces)
      BY <1>1, <1>3, <2>f, ConcatProperties
    <3>4. Taken' = Header \o (file \o buf)
      BY <3>2, <3>3, <1>i, ConcatProperties, ConcatEmptySeq
    <3>5. file \o buf = (file \o cbuf) \o X
      <4>1. file \in Seq(Pieces) /\ cbuf \in Seq(Pieces) /\ X \in Seq(Pieces)
        BY <1>1, <1>2, <2>f
      <4>2. (file \o cbuf) \o X = file \o (cbuf \o X)
        BY <4>1, Associative, Zenon
      <4> QED
        BY <4>2
    <3>6. Header \o ((file \o cbuf) \o X) = (Header \o (file \o cbuf)) \o X
      <4>1. Header \in Seq(Pieces) /\ X \in Seq(Pieces)
        BY <1>i, <1>2
      <4>2. (Header \o (file \o cbuf)) \o X = Header \o ((file \o cbuf) \o X)
        <5>1. PICK x \in Seq(Pieces) : x = file \o cbuf
          BY <3>3, Zenon
        <5>2. (Header \o x) \o X = Header \o (x \o X)
          BY <4>1, Associative, Zenon
        <5> QED
          BY <5>1, <5>2
      <4> QED
        BY <4>2
    <3> QED
      BY <3>4, <3>5, <3>6, <2>2, TakenParts
  <2>3. CASE start_write_file = FALSE
    <3>1. file = <<>> /\ Taken = cbuf
      BY <2>3, TakenParts, Zenon DEF Shape
    <3>2. CASE Len(buf) < HeadLen
      <4>1. cbuf' = buf /\ start_write_file' = FALSE /\ file' = <<>>
        BY <1>3, <2>3, <3>1, <3>2 DEF Consume
      <4>2. Taken' = <<>> \o <<>> \o buf
        BY <4>1 DEF Taken
      <4>3. <<>> \o <<>> = <<>> /\ <<>> \o buf = buf
        BY <1>3, EmptySeq, ConcatEmptySeq
      <4> QED
        BY <4>2, <4>3, <3>1
    <3>3. CASE ~(Len(buf) < HeadLen)
      <4>1. cbuf' = Drop(buf, HeadLen) /\ start_write_file' = TRUE /\ file' = <<>>
        BY <1>3, <2>3, <3>1, <3>3 DEF Consume
      <4>2. Len(buf) \in Nat /\ HeadLen \in 0..Len(buf)
        BY <1>i, <1>3, <3>3, LenProperties
      <4>3. /\ SubSeq(buf, 1, HeadLen) \o Drop(buf, HeadLen) = buf
            /\ Drop(buf, HeadLen) \in Seq(Pieces)
        BY <1>3, <4>2, TakeAndDrop, Zenon
      <4>4. SubSeq(buf, 1, HeadLen) = Header
        <5> DEFINE D == Drop(sbuf, wn)
                   C == SubSeq(Content, 1, offset)
        <5>1. D \in Seq(Pieces)
          BY LenProperties, TakeAndDrop, Zenon DEF TypeOK
        <5>2. offset \in 0..Len(Content)
          BY <1>i DEF TypeOK
        <5>3. C \in Seq(Pieces)
          BY <5>2, <1>i, TakeAndDrop
        <5>4. cbuf \o wire \o D = Header \o C
          BY <3>1, Zenon DEF StreamIntact, Shape, Read
        <5> HIDE DEF D, C
        <5>5. cbuf \o wire = buf \o wire'
          BY <1>1, <1>2, Associative, Zenon
        <5>6. buf \o wire' \o D = buf \o (wire' \o D)
          <6>1. PICK x \in Seq(Pieces), w \in Seq(Pieces) : x = buf /\ w = wire'
            BY <1>2, <1>3, Zenon
          <6>2. (x \o w) \o D = x \o (w \o D)
            BY <5>1, Associative, Zenon
          <6> QED
            BY <6>1, <6>2
        <5>7. buf \o (wire' \o D) = Header \o C /\ wire' \o D \in Seq(Pieces)
          BY <5>4, <5>5, <5>6, <5>1, <1>2, ConcatProperties, Zenon
        <5>8. Header # <<>> /\ Len(Header) <= Len(buf)
          BY <1>i, <4>2, EmptySeq
        <5> QED
          BY <5>3, <5>7, <5>8, <1>i, <1>3, FirstParts, Zenon
      <4>5. Taken' = Header \o <<>> \o Drop(buf, HeadLen)
        BY <4>1, <1>h DEF Taken
      <4>6. Header \o <<>> = Header
        BY <1>i, ConcatEmptySeq
      <4> QED
        BY <4>3, <4>4, <4>5, <4>6, <3>1, Zenon
    <3> QED
      BY <3>2, <3>3
  <2> QED
    BY <2>1, <2>2, <2>3, Zenon
<1>5. (Taken \o X) \o wire' = Taken \o (X \o wire')
  <2>1. Taken \in Seq(Pieces) /\ X \in Seq(Pieces) /\ wire' \in Seq(Pieces)
    BY <1>i, <1>2
  <2> HIDE DEF X
  <2> QED
    BY <2>1, Associative, Zenon
<1> QED
  BY <1>2, <1>4, <1>5

\* Every step keeps the stream intact.
LEMMA StreamStep ==
    ASSUME TypeOK, TypeOK', Shape, StreamIntact, [Next]_vars
    PROVE  StreamIntact'
<1> DEFINE D == Drop(sbuf, wn)
           C == SubSeq(Content, 1, offset)
<1>1. /\ Header \in Seq(Pieces) /\ Content \in Seq(Pieces) /\ Len(Content) = file_size
      /\ Taken \in Seq(Pieces) /\ wire \in Seq(Pieces) /\ sbuf \in Seq(Pieces)
  BY StreamTypes, TakenParts, Zenon DEF TypeOK
<1>2. offset \in 0..Len(Content) /\ wn \in 0..Len(sbuf) /\ Len(sbuf) \in Nat
  BY <1>1, LenProperties DEF TypeOK
<1>3. C \in Seq(Pieces) /\ D \in Seq(Pieces)
  BY <1>1, <1>2, TakeAndDrop
<1>4. Taken \o wire \in Seq(Pieces)
  BY <1>1, ConcatProperties
<1>h. Header' = Header
  BY DEF Header
<1>c. file_size' = file_size => Content' = Content
  BY DEF Content
<1>t. UNCHANGED <<start_write_file, file, cbuf>> => Taken' = Taken
  BY <1>h DEF Taken
<1>5. CASE Accept
  <2>1. /\ sbuf' = Header /\ wn' = 0 /\ offset' = 0 /\ file_size' = file_size
        /\ wire' = <<>> /\ file' = <<>> /\ cbuf' = <<>> /\ start_write_file' = FALSE
    BY <1>5 DEF Accept, Shape
  <2>2. Taken' = <<>> \o <<>> \o <<>>
    BY <2>1 DEF Taken
  <2>3. <<>> \o <<>> = <<>> /\ <<>> \o Header = Header /\ Header \o <<>> = Header
    BY <1>1, EmptySeq, ConcatEmptySeq
  <2>4. Drop(Header, 0) = Header
    BY <1>1, DropNone
  <2>5. SubSeq(Content, 1, 0) = <<>>
    BY SubSeqEmpty
  <2>6. Taken' \o wire' \o Drop(sbuf, wn)' = Header
    BY <2>1, <2>2, <2>3, <2>4 DEF Drop
  <2>7. (Header \o SubSeq(Content, 1, offset))' = Header
    BY <2>1, <2>3, <2>5, <1>h, <1>c, Zenon
  <2> QED
    BY <2>6, <2>7, Zenon DEF StreamIntact
<1>6. ASSUME NEW n \in 1..BufSize, ReadFile(n)
      PROVE  StreamIntact'
  <2> DEFINE X == SubSeq(Content, offset + 1, offset + n)
  <2>1. /\ sbuf' = sbuf \o X /\ wn' = 0 /\ wn = 0 /\ offset' = offset + n
        /\ file_size' = file_size /\ wire' = wire /\ Taken' = Taken /\ cpc' = cpc
        /\ spc # "accept" /\ n \in 0..(Len(Content) - offset)
    <3>1. /\ spc = "read" /\ offset + n <= file_size
          /\ sbuf' = sbuf \o X /\ offset' = offset + n /\ wn' = 0
          /\ UNCHANGED <<file_size, client, wire>>
      BY <1>6 DEF ReadFile
    <3>2. UNCHANGED <<cpc, cbuf, file, start_write_file, file_size, wire>> /\ Taken' = Taken
      BY <3>1 DEF client, Taken
    <3>3. wn = 0
      BY <3>1 DEF Shape
    <3>4. n \in 0..(Len(Content) - offset)
      BY <1>1, <1>2, <1>h, <3>1
    <3> HIDE DEF X
    <3> QED
      BY <3>1, <3>2, <3>3, <3>4
  <2>2. X \in Seq(Pieces) /\ C \o X = SubSeq(Content, 1, offset + n)
    BY <1>1, <1>2, <2>1, NextAndDrop, Zenon
  <2>3. sbuf \o X \in Seq(Pieces)
    BY <1>1, <2>2, ConcatProperties
  <2>4. Drop(sbuf \o X, 0) = sbuf \o X /\ D = sbuf
    BY <1>1, <2>1, <2>3, DropNone, Zenon
  <2>7. Drop(sbuf, wn)' = sbuf \o X
    BY <2>1, <2>4, Zenon DEF Drop
  <2>8. (Header \o SubSeq(Content, 1, offset))' = Header \o (C \o X)
    BY <2>1, <2>2, <1>h, <1>c, Zenon
  <2> HIDE DEF X, C, D
  <2>5. (Taken \o wire) \o (sbuf \o X) = ((Taken \o wire) \o sbuf) \o X
    <3> DEFINE T == Taken \o wire
    <3>1. T \in Seq(Pieces) /\ sbuf \in Seq(Pieces) /\ X \in Seq(Pieces)
      BY <1>1, <1>4, <2>2
    <3> HIDE DEF T
    <3>2. (T \o sbuf) \o X = T \o (sbuf \o X)
      BY <3>1, Associative
    <3> QED
      BY <3>2 DEF T
  <2>6. (Header \o C) \o X = Header \o (C \o X)
    <3>1. Header \in Seq(Pieces) /\ C \in Seq(Pieces) /\ X \in Seq(Pieces)
      BY <1>1, <1>3, <2>2
    <3> HIDE DEF Header
    <3> QED
      BY <3>1, Associative, Zenon
  <2>9. ASSUME cpc = "read"
        PROVE  Taken \o wire \o D = Header \o C
    BY <2>1, <2>9, Zenon DEF StreamIntact, C, D
  <2> QED
    BY <2>1, <2>4, <2>5, <2>6, <2>7, <2>8, <2>9, Zenon DEF StreamIntact
<1>7. ASSUME NEW n \in 1..Window, Write(n)
      PROVE  StreamIntact'
  <2> DEFINE U == SubSeq(sbuf, wn + 1, wn + n)
             R == Drop(sbuf, wn + n)
  <2>1. /\ n \in 1..(Len(sbuf) - wn) /\ n \in 0..(Len(sbuf) - wn)
        /\ Wrote(n) /\ wire' = wire \o U /\ offset' = offset
        /\ file_size' = file_size /\ cpc' = cpc /\ Taken' = Taken /\ spc # "accept"
    BY <1>7, <1>h DEF Write, Taken, client
  <2>2. U \in Seq(Pieces) /\ U \o R = D
    BY <1>1, <1>2, <2>1, NextAndDrop, Zenon
  <2>3. R \in Seq(Pieces)
    <3>1. wn + n \in 0..Len(sbuf)
      BY <1>2, <2>1
    <3> QED
      BY <3>1, <1>1, TakeAndDrop
  <2>4. Drop(sbuf, wn)' = R
    BY <2>1, WroteRest, Zenon DEF Drop
  <2> HIDE DEF U, R, C, D
  <2>5. Taken \o (wire \o U) = (Taken \o wire) \o U
    <3>1. Taken \in Seq(Pieces) /\ wire \in Seq(Pieces) /\ U \in Seq(Pieces)
      BY <1>1, <2>2
    <3> QED
      BY <3>1, Associative, Zenon
  <2>6. ((Taken \o wire) \o U) \o R = (Taken \o wire) \o (U \o R)
    BY <1>4, <2>2, <2>3, Associative, Zenon
  <2>7. (Header \o SubSeq(Content, 1, offset))' = Header \o C
    BY <2>1, <1>h, <1>c, Zenon DEF C
  <2>8. ASSUME cpc = "read"
        PROVE  Taken \o wire \o D = Header \o C
    BY <2>1, <2>8, Zenon DEF StreamIntact, C, D
  <2> QED
    BY <2>1, <2>2, <2>4, <2>5, <2>6, <2>7, <2>8, Zenon DEF StreamIntact
<1>8. ASSUME NEW n \in 1..BufSize, Read(n)
      PROVE  StreamIntact'
  <2>1. Taken' \o wire' = Taken \o wire
    BY <1>8, ReadKeepsStream
  <2>2. /\ sbuf' = sbuf /\ wn' = wn /\ offset' = offset /\ file_size' = file_size
        /\ spc' = spc /\ cpc' = cpc
    BY <1>8 DEF Read, server
  <2>3. Drop(sbuf, wn)' = D /\ (Header \o SubSeq(Content, 1, offset))' = Header \o C
    BY <2>2, <1>h, <1>c, Zenon DEF Drop
  <2> HIDE DEF C, D
  <2> QED
    BY <2>1, <2>2, <2>3, Zenon DEF StreamIntact, C, D
<1>9. ASSUME NEW n \in 1..Window, WriteLost(n)
      PROVE  StreamIntact'
  BY <1>9 DEF WriteLost, StreamIntact, Shape, client
<1>10. CASE ConnectFails \/ ReadEof \/ ClientFails
  BY <1>10 DEF ConnectFails, ReadEof, ClientFails, StreamIntact
<1>11. CASE AcceptFails
  BY <1>11 DEF AcceptFails, StreamIntact, client
<1>12. CASE ReadEnd \/ ReadFails \/ WriteFails \/ WaitClose \/ WaitCloseTimeout
            \/ ServerStat \/ ClientStat \/ ResetArrives \/ Terminated \/ UNCHANGED vars
  <2>1. /\ sbuf' = sbuf /\ wn' = wn /\ offset' = offset /\ file_size' = file_size
        /\ cpc' = cpc /\ wire' = wire /\ UNCHANGED <<start_write_file, file, cbuf>>
        /\ (spc' # "accept" => spc # "accept")
    <3>1. CASE ReadEnd \/ ReadFails \/ WriteFails
      BY <3>1, Zenon DEF ReadEnd, ReadFails, WriteFails, client
    <3>2. CASE WaitClose \/ WaitCloseTimeout \/ ServerStat
      BY <3>2, Zenon DEF WaitClose, WaitCloseTimeout, ServerStat, client
    <3>3. CASE ClientStat \/ ResetArrives
      BY <3>3 DEF ClientStat, ResetArrives, server, client
    <3>4. CASE Terminated \/ UNCHANGED vars
      BY <3>4, Zenon DEF Terminated, vars, server, client
    <3> QED
      BY <1>12, <3>1, <3>2, <3>3, <3>4, Zenon
  <2>3. Taken' = Taken
    BY <2>1, <1>t
  <2>2. Drop(sbuf, wn)' = D /\ (Header \o SubSeq(Content, 1, offset))' = Header \o C
    BY <2>1, <1>h, <1>c, Zenon DEF Drop
  <2> HIDE DEF C, D
  <2> QED
    BY <2>1, <2>2, <2>3, Zenon DEF StreamIntact, C, D
<1> QED
  BY <1>5, <1>6, <1>7, <1>8, <1>9, <1>10, <1>11, <1>12 DEF Next, ServerStep, ClientStep

-----------------------------------------------------------------------------
(* What the two success messages mean.                                     *)

\* When both sides have ended the stream, all of it is taken.
LEMMA AllTaken ==
    ASSUME TypeOK, Shape, StreamIntact,
           cpc = "read", wire = <<>>, spc \in {"waitclose", "succeed"}
    PROVE  Taken = Header \o Content
<1>1. Content \in Seq(Pieces) /\ Len(Content) = file_size /\ Taken \in Seq(Pieces)
  BY StreamTypes, TakenParts, Zenon DEF TypeOK
<1>2. sbuf = <<>> /\ wn = 0 /\ offset = Len(Content) /\ spc # "accept"
  BY <1>1 DEF Shape
<1>3. Drop(<<>>, 0) = <<>>
  BY EmptySeq, DropNone, Zenon
<1>4. SubSeq(Content, 1, Len(Content)) = Content
  BY <1>1, SubSeqFull
<1>5. Taken \o <<>> = Taken
  BY <1>1, ConcatEmptySeq
<1>6. Taken \o wire \o Drop(sbuf, wn) = Header \o SubSeq(Content, 1, offset)
  BY <1>2 DEF StreamIntact
<1> QED
  BY <1>2, <1>3, <1>4, <1>5, <1>6, Zenon

\* What follows the same header is the same.
LEMMA CancelHeader ==
    ASSUME NEW s \in Seq(Pieces), NEW t \in Seq(Pieces), NEW u \in Seq(Pieces),
           s \o t = s \o u
    PROVE  t = u
BY ConcatSimplifications, Zenon

\* The client holds the file when it has taken all of the stream.
LEMMA HeldAfterTaken ==
    ASSUME TypeOK, Shape, Taken = Header \o Content
    PROVE  start_write_file = TRUE /\ file \o cbuf = Content
<1>1. /\ Header \in Seq(Pieces) /\ Content \in Seq(Pieces) /\ HeadLen \in Nat
      /\ Len(Header) = HeadLen /\ Len(Content) = file_size /\ file_size \in Nat
      /\ start_write_file \in BOOLEAN /\ file \in Seq(Pieces) /\ cbuf \in Seq(Pieces)
  BY StreamTypes, TransferAssumption DEF TypeOK
<1>2. ASSUME start_write_file = FALSE
      PROVE  FALSE
  <2>1. Taken = cbuf /\ Len(cbuf) < HeadLen
    BY <1>2, TakenParts, Zenon DEF Shape
  <2>2. Len(Header \o Content) = Len(Header) + Len(Content)
    BY <1>1, ConcatProperties, Zenon
  <2>3. Len(cbuf) = HeadLen + file_size
    BY <2>1, <2>2, <1>1
  <2> QED
    BY <2>1, <2>3, <1>1
<1>3. start_write_file = TRUE
  BY <1>1, <1>2, Zenon
<1>4. Header \o (file \o cbuf) = Header \o Content
  BY <1>3, TakenParts
<1>5. file \o cbuf \in Seq(Pieces)
  BY <1>1, ConcatProperties
<1>6. file \o cbuf = Content
  BY <1>1, <1>4, <1>5, CancelHeader, Zenon
<1> QED
  BY <1>3, <1>6

\* Every step keeps what the client's success means.
LEMMA SuccessStep ==
    ASSUME TypeOK, TypeOK', Shape, Shape', StreamIntact, SucceedMeansHeld, [Next]_vars
    PROVE  SucceedMeansHeld'
<1>1. CASE ReadEof
  <2> SUFFICES ASSUME spc \notin {"fatal", "aborted"}
               PROVE  SucceedMeansHeld'
    BY <1>1 DEF ReadEof, SucceedMeansHeld, server
  <2>1. /\ cpc = "read" /\ wire = <<>> /\ cpc' = "succeed" /\ spc' = spc
        /\ file_size' = file_size
        /\ UNCHANGED <<file, cbuf, start_write_file>>
    BY <1>1 DEF ReadEof, server
  <2>2. spc \in {"waitclose", "succeed"}
    BY <2>1, Zenon DEF Shape
  <2>3. start_write_file = TRUE /\ file \o cbuf = Content
    BY <2>1, <2>2, AllTaken, HeldAfterTaken, Zenon
  <2>4. file = <<>> \/ cbuf = <<>>
    BY <2>3, Zenon DEF Shape
  <2>5. Content' = Content
    BY <2>1 DEF Content
  <2>6. (file \o cbuf)' = Content' /\ start_write_file' = TRUE
    BY <2>1, <2>3, <2>5
  <2> QED
    BY <2>1, <2>4, <2>6 DEF SucceedMeansHeld
<1>2. CASE ~ReadEof
  <2>1. ASSUME cpc' = "succeed", spc' \notin {"fatal", "aborted"}
        PROVE  /\ cpc = "succeed" /\ spc \notin {"fatal", "aborted"}
               /\ file_size' = file_size
               /\ UNCHANGED <<file, cbuf, start_write_file>>
    <3>1. CASE Accept \/ AcceptFails \/ ConnectFails
      BY <3>1, <2>1, Zenon DEF Accept, AcceptFails, ConnectFails, client
    <3>2. CASE \E n \in 1..BufSize : ReadFile(n)
      BY <3>2, <2>1 DEF ReadFile, client
    <3>3. CASE \E n \in 1..Window : Write(n) \/ WriteLost(n)
      BY <3>3, <2>1, Zenon DEF Write, WriteLost, Wrote, client
    <3>4. CASE ReadEnd \/ ReadFails \/ WriteFails
      BY <3>4, <2>1, Zenon DEF ReadEnd, ReadFails, WriteFails, client
    <3>5. CASE WaitClose \/ WaitCloseTimeout \/ ServerStat
      BY <3>5, <2>1, Zenon DEF WaitClose, WaitCloseTimeout, ServerStat, client
    <3>6. CASE \E n \in 1..BufSize : Read(n)
      BY <3>6, <2>1 DEF Read
    <3>7. CASE ClientFails \/ ClientStat \/ ResetArrives
      BY <3>7, <2>1, Zenon DEF ClientFails, ClientStat, ResetArrives, server, client
    <3>8. CASE Terminated \/ UNCHANGED vars
      BY <3>8, <2>1, Zenon DEF Terminated, vars, server, client
    <3> QED
      BY <1>2, <3>1, <3>2, <3>3, <3>4, <3>5, <3>6, <3>7, <3>8, Zenon
         DEF Next, ServerStep, ClientStep
  <2>2. file_size' = file_size => Content' = Content
    BY DEF Content
  <2> QED
    BY <2>1, <2>2 DEF SucceedMeansHeld
<1> QED
  BY <1>1, <1>2

\* The server's success then follows.
LEMMA ServerSuccess ==
    ASSUME TypeOK, Shape, SucceedMeansHeld
    PROVE  SucceedMeansRead
<1> SUFFICES ASSUME spc = "succeed", cpc = "succeed"
             PROVE  Taken = Header \o Content
  BY DEF SucceedMeansRead, Shape
<1>1. file \o cbuf = Content /\ start_write_file
  BY DEF SucceedMeansHeld
<1>2. start_write_file = TRUE
  BY <1>1 DEF TypeOK
<1> QED
  BY <1>1, <1>2, TakenParts

-----------------------------------------------------------------------------
(* The theorems.                                                           *)

\* The inductive invariant: the control invariant Shape gives the other parts
\* what they need of the two programs' positions.
Inv == TypeOK /\ Shape /\ StreamIntact /\ SucceedMeansHeld /\ CountersAgree

\* It holds at the start, and every step keeps it.
LEMMA InvAlways == Spec => []Inv
<1>1. Init => Inv
  <2> SUFFICES ASSUME Init PROVE Inv
    OBVIOUS
  <2>1. <<>> \in Seq(Pieces) /\ Len(<<>>) = 0
    BY EmptySeq
  <2>2. TypeOK
    <3>1. file_size \in 0..MaxFileLen /\ 0 \in 0..file_size /\ 0 \in 0..0 /\ 0 \in Nat
      BY TransferAssumption DEF Init
    <3>2. start_write_file \in BOOLEAN /\ fin \in BOOLEAN
      BY Zenon DEF Init
    <3> QED
      BY <2>1, <3>1, <3>2 DEF Init, TypeOK
  <2>3. Shape
    BY <2>1, TransferAssumption DEF Init, Shape
  <2>4. StreamIntact /\ SucceedMeansHeld /\ CountersAgree
    BY <2>1 DEF Init, StreamIntact, SucceedMeansHeld, CountersAgree
  <2> QED
    BY <2>2, <2>3, <2>4 DEF Inv
<1>2. Inv /\ [Next]_vars => Inv'
  <2> SUFFICES ASSUME Inv, [Next]_vars PROVE Inv'
    OBVIOUS
  <2>1. TypeOK /\ Shape /\ StreamIntact /\ SucceedMeansHeld /\ CountersAgree
    BY DEF Inv
  <2>2. TypeOK'
    BY <2>1, TypeStep
  <2>3. Shape'
    BY <2>1, ShapeStep
  <2>4. StreamIntact'
    BY <2>1, <2>2, StreamStep
  <2>5. SucceedMeansHeld'
    BY <2>1, <2>2, <2>3, SuccessStep
  <2>6. CountersAgree'
    BY <2>1, <2>2, CountersStep
  <2> QED
    BY <2>2, <2>3, <2>4, <2>5, <2>6 DEF Inv
<1> QED
  BY <1>1, <1>2, PTL DEF Spec

\* For every header, file, buffer and window size: the partial writes of
\* AsyncWrite and the client's reassembly of the header lose, repeat and reorder
\* no byte of the stream.
THEOREM StreamStaysIntact == Spec => []StreamIntact
BY InvAlways, PTL DEF Inv

\* When the client ends with success it has received the whole file, and has written
\* all of it or nothing, unless the server failed.
THEOREM ClientSuccessIsHeld == Spec => []SucceedMeansHeld
BY InvAlways, PTL DEF Inv

\* The server's "file transfer succeed!" means that the client has read the whole
\* stream or ended by LOG_FATAL.
THEOREM ServerSuccessIsRead == Spec => []SucceedMeansRead
<1>1. Inv => SucceedMeansRead
  BY ServerSuccess DEF Inv
<1> QED
  BY <1>1, InvAlways, PTL

\* Either message of success means that the client has received the whole file,
\* unless the other side died, for every file and every size.
THEOREM SuccessIsReceived == Spec => []SuccessMeansReceived
<1>1. Inv => SuccessMeansReceived
  BY ServerSuccess DEF Inv, SuccessMeansReceived
<1> QED
  BY <1>1, InvAlways, PTL

\* The assertion behind the shutdown fails for no file but an empty one.
THEOREM AssertionOnEmptyOnly == Spec => []AssertOnlyEmptyFile
<1>1. Inv => AssertOnlyEmptyFile
  BY DEF Inv, Shape, AssertOnlyEmptyFile
<1> QED
  BY <1>1, InvAlways, PTL

\* The two counters that the statistics print never disagree with the bytes on
\* their way.
THEOREM CountersStayInStep == Spec => []CountersAgree
BY InvAlways, PTL DEF Inv

=============================================================================
