---------------------------- MODULE MediaPackets ----------------------------
(***************************************************************************)
(* How a datagram of a peer is read: the tests by which ProcessPacket      *)
(* (webrtc/pc/peer_connection.cc) tells protocols apart, StunPacket::Parse *)
(* and Pack (webrtc/ice/stun_packet.cc), RtpPacket::Decode, and the walk   *)
(* of ProcessRtcp over the decoders of webrtc/rtp/rtcp_packet.cc.          *)
(*                                                                         *)
(* The loops are steps, and a step chooses the bytes it reads: a behaviour *)
(* is the processing of one datagram, and its content is what was chosen.  *)
(***************************************************************************)
EXTENDS Integers, Sequences

CONSTANTS Lens,         \* sizes of a datagram
          FirstBytes,   \* values of data[0]
          SecondBytes,  \* values of data[1], and of an RTCP type
          Lengths       \* values of a length field, and of RTP's padding byte

ASSUME PacketAssumption ==
    /\ Lens \subseteq Nat /\ \A n \in Lens : n <= 65532
    /\ Lengths \subseteq Nat /\ \A n \in Lengths : n <= 65535
    /\ FirstBytes \subseteq Nat /\ \A n \in FirstBytes : n <= 255
    /\ SecondBytes \subseteq Nat /\ \A n \in SecondBytes : n <= 255

VARIABLES
    len, b0, b1,   \* the size and the first two bytes of the datagram
    cookie,        \* bytes 4 to 7 are the magic cookie
    pc,            \* where the processing is, or how it ended
    pos,           \* the next attribute, or the next packet of a compound
    off, count,    \* a decoder's offset and the items still announced
    has,           \* the STUN fields that are set, and whether a PLI was decoded
    last,          \* the last STUN attribute, if it is one that ends a packet
    end,           \* all bytes read so far are before this one of the datagram
    rsp            \* the STUN response, <<>> when there is none

datagram == <<len, b0, b1, cookie>>
packetVars == <<datagram, pc, pos, off, count, has, last, end, rsp>>

Finished == {"ok", "error", "ignored", "fault"}

Larger(m, n) == IF m > n THEN m ELSE n
Reads(to) == end' = Larger(end, to)

PacketInit ==
    /\ len \in Lens /\ b0 \in FirstBytes /\ b1 \in SecondBytes /\ cookie \in BOOLEAN
    /\ pc = "demux" /\ pos = 0 /\ off = 0 /\ count = 0
    /\ has = {} /\ last = "none" /\ end = 0 /\ rsp = <<>>

-----------------------------------------------------------------------------
(* Telling the protocols apart.                                            *)

IsStun == len >= 20 /\ b0 < 3 /\ cookie
IsDtls == len >= 13 /\ b0 > 19 /\ b0 < 64
IsRtcp == len >= 4 /\ b0 > 127 /\ b0 < 192 /\ b1 >= 192 /\ b1 <= 223
IsRtp == len >= 12 /\ b0 > 127 /\ b0 < 192

\* Of a peer that is connected; DTLS packets go to OpenSSL.
Demux ==
    /\ pc = "demux"
    /\ pc' = IF IsStun THEN "stun" ELSE IF IsDtls THEN "ignored"
             ELSE IF IsRtcp THEN "walk" ELSE IF IsRtp THEN "rtp" ELSE "ignored"
    /\ end' = IF len >= 20 THEN 8 ELSE IF len >= 4 THEN 2 ELSE 0
    /\ UNCHANGED <<datagram, pos, off, count, has, last, rsp>>

-----------------------------------------------------------------------------
(* STUN.                                                                   *)

Align4(size) == (IF size % 4 # 0 THEN (size - (size % 4)) + 4 ELSE size) % 65536

\* The class and the method that the 14 bits of the type field interleave.
Klass(type) == 2 * ((type \div 256) % 2) + ((type \div 16) % 2)
Method(type) == (type % 16) + 16 * ((type \div 32) % 8) + 128 * ((type \div 512) % 32)
TypeField(method, klass) ==
    512 * ((method \div 128) % 32) + 32 * ((method \div 16) % 8) + (method % 16)
        + 256 * (klass \div 2) + 16 * (klass % 2)

AttrTypes == {"USERNAME", "PRIORITY", "ICE_CONTROLLING", "ICE_CONTROLLED",
              "USE_CANDIDATE", "NOMINATION", "MESSAGE_INTEGRITY", "FINGERPRINT",
              "ERROR_CODE", "other"}

\* The lengths Parse takes for an attribute.
LengthOk(type, n) ==
    CASE type \in {"PRIORITY", "NOMINATION", "FINGERPRINT"} -> n = 4
      [] type \in {"ICE_CONTROLLING", "ICE_CONTROLLED"} -> n = 8
      [] type = "USE_CANDIDATE" -> n = 0
      [] type = "MESSAGE_INTEGRITY" -> n = 20
      [] type = "ERROR_CODE" -> n >= 4
      [] OTHER -> TRUE

\* The fields ProcessStunPacket looks at, and when Parse leaves them set.
Fields == {"USERNAME", "PRIORITY", "ICE_CONTROLLED", "USE_CANDIDATE",
           "MESSAGE_INTEGRITY", "FINGERPRINT"}
Set(type, n, nonzero) ==
    type \in Fields /\ CASE type = "USERNAME" -> n > 0
                         [] type \in {"PRIORITY", "ICE_CONTROLLED"} -> nonzero
                         [] OTHER -> TRUE

\* The length field is the datagram's, and a multiple of 4.
StunHeader(msg_length) ==
    /\ pc = "stun"
    /\ end' = 20
    /\ IF msg_length # len - 20 \/ msg_length % 4 # 0
       THEN pc' = "error" /\ UNCHANGED pos
       ELSE pc' = "attrs" /\ pos' = 20
    /\ UNCHANGED <<datagram, off, count, has, last, rsp>>

\* A bug: what follows a fingerprint is parsed.
Misplaced_Fingerprint(type) ==
    "MESSAGE_INTEGRITY" \in has /\ type # "FINGERPRINT"

\* FINGERPRINT is the last attribute, and only it follows MESSAGE-INTEGRITY.
Misplaced(type) ==
    \/ "FINGERPRINT" \in has
    \/ "MESSAGE_INTEGRITY" \in has /\ type # "FINGERPRINT"

\* One attribute of Parse; its value, nonzero or not, is the field's from now on.
StunAttr(type, n, nonzero) ==
    /\ pc = "attrs" /\ pos + 4 <= len
    /\ IF pos + 4 + n > len \/ Misplaced(type) \/ ~LengthOk(type, n)
       THEN pc' = "error" /\ end' = pos + 4 /\ UNCHANGED <<pos, has, last>>
       ELSE /\ has' = IF Set(type, n, nonzero) THEN has \cup {type} ELSE has \ {type}
            /\ last' = IF type \in {"MESSAGE_INTEGRITY", "FINGERPRINT"} THEN type ELSE "none"
            /\ end' = pos + 4 + n
            /\ pos' = Align4((pos + 4 + n) % 65536)
            /\ UNCHANGED pc
    /\ UNCHANGED <<datagram, off, count, rsp>>

\* The attributes end with the datagram; a fingerprint is checked.
StunEnd(crc) ==
    /\ pc = "attrs" /\ pos + 4 > len
    /\ pc' = IF pos # len \/ ("FINGERPRINT" \in has /\ ~crc) THEN "error" ELSE "ice"
    /\ UNCHANGED <<datagram, pos, off, count, has, last, end, rsp>>

-----------------------------------------------------------------------------
(* The response.  A packet to Pack is its class, its method, the family of *)
(* its mapped address and the fields that are set.                         *)

AddXorMappedAddress(p) == p.family # "none" /\ p.method = 1 /\ p.klass = 2
AddErrorCode(p) == p.error_code # 0 /\ p.klass = 3
AddMessageIntegrity(p) == p.klass # 3 /\ p.password
AddressLen(p) == IF p.family = "INET" THEN 8 ELSE 20

If(test, n) == IF test THEN n ELSE 0

\* A bug: the fingerprint is left out of the size.
PackSize_NoFingerprint(p) ==
    20 + If(p.username > 0, 4 + Align4(p.username))
       + If(p.priority, 8) + If(p.controlling, 12) + If(p.controlled, 12)
       + If(p.use_candidate, 4)
       + If(AddXorMappedAddress(p), 4 + AddressLen(p))
       + If(AddErrorCode(p), 8) + If(AddMessageIntegrity(p), 24)

\* Pack computes the size first ...
PackSize(p) ==
    20 + If(p.username > 0, 4 + Align4(p.username))
       + If(p.priority, 8) + If(p.controlling, 12) + If(p.controlled, 12)
       + If(p.use_candidate, 4)
       + If(AddXorMappedAddress(p), 4 + AddressLen(p))
       + If(AddErrorCode(p), 8) + If(AddMessageIntegrity(p), 24) + 8

Attr(test, type, n) == IF test THEN <<[type |-> type, n |-> n]>> ELSE <<>>

\* ... and then appends the attributes, a username without its padding.
PackAttrs(p) ==
    Attr(p.username > 0, "USERNAME", p.username)
    \o Attr(p.priority, "PRIORITY", 4)
    \o Attr(p.controlling, "ICE_CONTROLLING", 8)
    \o Attr(p.controlled, "ICE_CONTROLLED", 8)
    \o Attr(p.use_candidate, "USE_CANDIDATE", 0)
    \o Attr(AddXorMappedAddress(p), "XOR_MAPPED_ADDRESS", AddressLen(p))
    \o Attr(AddErrorCode(p), "ERROR_CODE", 4)

\* The integrity is computed of what is there with a length field that counts
\* itself and not the fingerprint.
PackTail(p) ==
    Attr(AddMessageIntegrity(p), "MESSAGE_INTEGRITY", 20) \o Attr(TRUE, "FINGERPRINT", 4)

Pack(p) ==
    [type |-> TypeField(p.method, p.klass), msg_length |-> PackSize(p) - 20,
     attrs |-> PackAttrs(p) \o PackTail(p),
     hmac |-> If(AddMessageIntegrity(p), PackSize(p) - 20 - 8)]

SuccessResponse(family) ==
    Pack([klass |-> 2, method |-> 1, family |-> family, username |-> 0,
          priority |-> FALSE, controlling |-> FALSE, controlled |-> FALSE,
          use_candidate |-> FALSE, error_code |-> 0, password |-> TRUE])

\* ProcessStunPacket of a parsed packet.
Ice(family) ==
    /\ pc = "ice" /\ pc' = "ok"
    /\ LET type == 256 * b0 + b1 IN
       rsp' = IF /\ Method(type) = 1 /\ Klass(type) = 0
                 /\ {"FINGERPRINT", "MESSAGE_INTEGRITY", "PRIORITY", "USERNAME"} \subseteq has
                 /\ "ICE_CONTROLLED" \notin has
              THEN SuccessResponse(family) ELSE <<>>
    /\ UNCHANGED <<datagram, pos, off, count, has, last, end>>

-----------------------------------------------------------------------------
(* RTP.  The first byte has the number of CSRCs and the bits for extension *)
(* and padding; the lengths are read from the datagram.                    *)

Csrcs == 4 * (b0 % 16)
Extension == (b0 \div 16) % 2 = 1
Padding == (b0 \div 32) % 2 = 1

\* A bug: the padding is not compared with what remains.
DecodeRtp_NoPadding(words, padbyte) ==
    LET ptr == 12 + Csrcs
        payload == ptr + If(Extension, 4 + 4 * words)
        payload_length == len - payload
        result ==
            IF len < ptr THEN <<"error", 12>>
            ELSE IF Extension /\ len < ptr + 4 THEN <<"error", ptr>>
            ELSE IF Extension /\ len < payload THEN <<"error", ptr + 4>>
            ELSE IF Padding /\ payload_length = 0 THEN <<"error", ptr + If(Extension, 4)>>
            ELSE IF Padding /\ padbyte = 0 THEN <<"error", len>>
            ELSE <<"ok", Larger(ptr + If(Extension, 4), len)>>
    IN /\ pc = "rtp" /\ pc' = result[1] /\ Reads(result[2])
       /\ IF result[1] = "ok"
          THEN off' = payload /\ count' = payload_length - If(Padding, padbyte)
          ELSE UNCHANGED <<off, count>>
       /\ UNCHANGED <<datagram, pos, has, last, rsp>>

\* words: the extension's length field; padbyte: the last byte.  The tests are in
\* the order of the code, each with what has been read when it fails: the header,
\* the CSRCs, the extension's own header, the last byte.
DecodeRtp(words, padbyte) ==
    LET ptr == 12 + Csrcs
        payload == ptr + If(Extension, 4 + 4 * words)
        payload_length == len - payload
        result ==
            IF len < ptr THEN <<"error", 12>>
            ELSE IF Extension /\ len < ptr + 4 THEN <<"error", ptr>>
            ELSE IF Extension /\ len < payload THEN <<"error", ptr + 4>>
            ELSE IF Padding /\ payload_length = 0 THEN <<"error", ptr + If(Extension, 4)>>
            ELSE IF Padding /\ (padbyte = 0 \/ payload_length < padbyte) THEN <<"error", len>>
            ELSE <<"ok", Larger(ptr + If(Extension, 4), len)>>
    IN /\ pc = "rtp" /\ pc' = result[1] /\ Reads(result[2])
       /\ IF result[1] = "ok"
          THEN off' = payload /\ count' = payload_length - If(Padding, padbyte)
          ELSE UNCHANGED <<off, count>>
       /\ UNCHANGED <<datagram, pos, has, last, rsp>>

-----------------------------------------------------------------------------
(* RTCP.  The walk reads a header at pos, and every decoder is given the   *)
(* whole datagram: it starts at the first packet again, and takes its      *)
(* count.                                                                  *)

FirstCount == b0 % 32

\* What Decode of a sender or receiver report and of SDES starts with.
Decode(type, least, first) ==
    IF len < least THEN pc' = "walk" /\ UNCHANGED <<off, count>> /\ Reads(pos + 4)
    ELSE /\ pc' = type /\ off' = first /\ count' = FirstCount
         /\ Reads(IF first > pos + 4 THEN first ELSE pos + 4)

PacketLen(length) == (length + 1) * 4

\* One packet of the compound: its type, whether its count says PLI, its length.
Walk(type, pli, length) ==
    /\ pc = "walk" /\ pos < len
    /\ pos = 0 => type = b1 /\ pli = (FirstCount = 1)
    /\ IF len - pos < PacketLen(length)
       THEN pc' = "error" /\ Reads(pos + 4) /\ UNCHANGED <<pos, off, count, has>>
       ELSE /\ pos' = pos + PacketLen(length)
            /\ has' = IF type = 206 /\ pli /\ len = 12 THEN {"PLI"} ELSE has
            /\ CASE type = 200 -> Decode("SR", 28, 28)
                 [] type = 201 -> Decode("RR", 8, 8)
                 [] type = 202 -> Decode("SDES", 4, 4)
                 [] OTHER -> pc' = "walk" /\ Reads(pos + 4) /\ UNCHANGED <<off, count>>
    /\ UNCHANGED <<datagram, last, rsp>>

WalkEnd ==
    /\ pc = "walk" /\ pos >= len /\ pc' = "ok"
    /\ UNCHANGED <<datagram, pos, off, count, has, last, end, rsp>>

\* A bug: a report that is cut off is read.
Report_Short ==
    /\ pc \in {"SR", "RR"} /\ count > 0 /\ len > off
    /\ off' = off + 24 /\ count' = count - 1 /\ Reads(off + 24)
    /\ UNCHANGED <<datagram, pc, pos, has, last, rsp>>

\* One report block.
Report ==
    /\ pc \in {"SR", "RR"} /\ count > 0 /\ len - off >= 24
    /\ off' = off + 24 /\ count' = count - 1 /\ Reads(off + 24)
    /\ UNCHANGED <<datagram, pc, pos, has, last, rsp>>

ReportsEnd ==
    /\ pc \in {"SR", "RR"} /\ (count = 0 \/ len - off < 24)
    /\ pc' = "walk" /\ off' = 0 /\ count' = 0
    /\ UNCHANGED <<datagram, pos, has, last, end, rsp>>

\* One SDES chunk whose items are empty.  DecodeItem takes its first item from the
\* place of the SSRC and goes on to an END item, or until two bytes do not remain.
SdesChunk(items) ==
    /\ pc = "SDES" /\ count > 0 /\ len - off >= 4
    /\ items \in 0..((len - off) \div 2)
    /\ Reads(off + Larger(4, IF 2 * items + 2 <= len - off THEN 2 * items + 2 ELSE 2 * items))
    /\ off' = off + 4 + 2 * items /\ count' = count - 1
    /\ UNCHANGED <<datagram, pc, pos, has, last, rsp>>

\* A value that is not empty is copied from the address offset + 2, where the code
\* means that place of the packet: no byte of the datagram is there.
Outside == 65536

SdesFault ==
    /\ pc = "SDES" /\ count > 0 /\ len - off >= 4 /\ pc' = "fault" /\ end' = Outside
    /\ UNCHANGED <<datagram, pos, off, count, has, last, rsp>>

SdesEnd ==
    /\ pc = "SDES" /\ (count = 0 \/ len - off < 4) /\ pc' = "walk" /\ off' = 0 /\ count' = 0
    /\ UNCHANGED <<datagram, pos, has, last, end, rsp>>

-----------------------------------------------------------------------------
PacketDone == pc \in Finished /\ UNCHANGED packetVars

Step ==
    \/ Demux
    \/ \E n \in {len - 20, len - 16} : StunHeader(n)
    \/ \E type \in AttrTypes, n \in Lengths, nonzero \in BOOLEAN : StunAttr(type, n, nonzero)
    \/ \E crc \in BOOLEAN : StunEnd(crc)
    \/ \E family \in {"INET", "INET6"} : Ice(family)
    \/ \E words \in Lengths, padbyte \in {n \in Lengths : n < 256} : DecodeRtp(words, padbyte)
    \/ \E type \in SecondBytes, pli \in BOOLEAN, length \in Lengths : Walk(type, pli, length)
    \/ WalkEnd \/ Report \/ ReportsEnd
    \/ \E items \in Lengths : SdesChunk(items)
    \/ SdesFault \/ SdesEnd

PacketNext == Step \/ PacketDone

PacketSpec == PacketInit /\ [][PacketNext]_packetVars

-----------------------------------------------------------------------------
(* Properties.                                                             *)

\* What the parsers read is inside the datagram: always for STUN and RTP.  For RTCP
\* there are two exceptions, both read by the code as it is.  ProcessRtcp takes a
\* packet header from fewer than four bytes, and then always gives up; and DecodeItem
\* copies an SDES item that is not empty from an address that is not the packet's,
\* which needs a first packet that announces a chunk.
ReadsInside ==
    \/ end <= len
    \/ IsRtcp /\ pc = "error" /\ end <= len + 3
    \/ IsRtcp /\ pc = "fault" /\ FirstCount > 0

\* Parse's last check, that the attributes end where the datagram does, never
\* fails: each attribute is padded, and the length is a multiple of 4.
AttributesTile == pc = "attrs" /\ pos + 4 > len => pos = len

\* An accepted STUN packet has its fingerprint last, and nothing but that after
\* its integrity, as Parse's two checks of earlier attributes intend.
OrderOfAttributes ==
    pc = "ice" => /\ "FINGERPRINT" \in has => last = "FINGERPRINT"
                  /\ "MESSAGE_INTEGRITY" \in has => last \in {"MESSAGE_INTEGRITY", "FINGERPRINT"}

\* The payload of a decoded RTP packet lies in the datagram behind the headers.
PayloadInside ==
    pc = "ok" /\ IsRtp /\ ~IsRtcp => off >= 12 /\ count >= 0 /\ off + count <= len

\* Pack's type field and the class and method that Parse takes from it agree.
TypeFieldInverse ==
    pc = "ice" => TypeField(Method(256 * b0 + b1), Klass(256 * b0 + b1)) = 256 * b0 + b1

\* What attributes take in a packet, each with its header.
AttrsSize(attrs) ==
    LET sum[i \in 0..Len(attrs)] == IF i = 0 THEN 0 ELSE sum[i - 1] + 4 + attrs[i].n
    IN  sum[Len(attrs)]

\* The response that IceServer sends is a packet that Parse would take: as long
\* as its length field says, padded, in order, with attributes of the length
\* they must have, and the integrity is computed for the length up to itself.
ResponseParses ==
    rsp # <<>> =>
        LET k == Len(rsp.attrs)
            size == AttrsSize(rsp.attrs)
        IN /\ rsp.msg_length = size /\ size % 4 = 0
           /\ \A i \in 1..k : LengthOk(rsp.attrs[i].type, rsp.attrs[i].n)
           /\ rsp.attrs[k].type = "FINGERPRINT" /\ rsp.attrs[k - 1].type = "MESSAGE_INTEGRITY"
           /\ rsp.hmac = size - 8
           /\ Klass(rsp.type) = 2 /\ Method(rsp.type) = 1

\* A PLI, as SendPli encodes one, is decoded as one.
OwnPliDecodes ==
    len = 12 /\ b0 = 129 /\ b1 = 206 /\ pc = "ok" /\ pos = 12 => "PLI" \in has

\* What the server sends, the parsers of this repository accept: the response of
\* IceServer, whose type field gives its class and method back, and its PLI.
OwnPacketsParse == TypeFieldInverse /\ ResponseParses /\ OwnPliDecodes
=============================================================================
