---------------------------- MODULE PeerSession -----------------------------
(***************************************************************************)
(* What one packet, or one timer, does to a PeerConnection: ICE            *)
(* (webrtc/ice/ice_server.cc), then DTLS (webrtc/dtls/dtls_transport.cc),  *)
(* then SRTP (webrtc/pc/peer_connection.cc).  Handlers run without         *)
(* suspending, so each is an operator from a session to the set of its     *)
(* outcomes [s, err, sends]: the session after it, whether it ends the     *)
(* peer, and how many datagrams it hands to WebRTCServer::AsyncSend.       *)
(*                                                                         *)
(* A packet is what the handlers tell apart: "bind" and "nominate", STUN   *)
(* requests that are answered, without and with USE-CANDIDATE; "stun", any *)
(* other STUN; "dtls"; "rtp"; "rtcp"; "other".                             *)
(***************************************************************************)
EXTENDS Naturals

CONSTANT DtlsLimit      \* the 5000 ms of UpdateTimeout

ASSUME DtlsAssumption == DtlsLimit \in 101..5000

Kinds == {"bind", "nominate", "stun", "dtls", "rtp", "rtcp", "other"}
IsStun(k) == k \in {"bind", "nominate", "stun"}

(***************************************************************************)
(* ice: IceServer is CONNECTED.  dtls: DtlsTransport's state_, "none"      *)
(* before it exists.  done: HandshakeDone_, which ExtractSrtpKey_ follows  *)
(* in the same handler.  flight: the timeout, in ms, of the flight OpenSSL *)
(* waits for an answer to; 0 when none.  timer: timer_ is in the wheel.    *)
(* early: the wheel ran it before that timeout, and nothing started it     *)
(* since.                                                                  *)
(* established: both SRTP sessions exist and pli_timer_ is in the wheel.   *)
(***************************************************************************)
NewSession == [ice |-> FALSE, dtls |-> "none", done |-> FALSE, flight |-> 0,
               timer |-> FALSE, early |-> FALSE, established |-> FALSE]

\* DTLS timeouts double from 100 ms.
OnSslDtlsTimer(ms) ==
    IF ms = 0 THEN 100 ELSE IF ms >= 10000 THEN 10000 ELSE 2 * ms

Outcome(s, err, sends) == [s |-> s, err |-> err, sends |-> sends]

\* ProcessStunPacket: a request that passes every check is answered.
ProcessStunPacket(s, k) ==
    IF k = "stun" THEN Outcome(s, FALSE, 0)
    ELSE Outcome([s EXCEPT !.ice = @ \/ k = "nominate"], FALSE, 1)

-----------------------------------------------------------------------------
(* DTLS.                                                                   *)

\* The first packet after ICE makes the transport, as a server.
Initialize(s) == IF s.dtls = "none" THEN [s EXCEPT !.dtls = "CONNECTING"] ELSE s

IsRunning(s) == s.dtls \in {"CONNECTING", "CONNECTED"}

\* What OpenSSL has written goes out as one datagram; n is 0 if that is nothing.
SendBioData(o, n) == [o EXCEPT !.sends = @ + n]

\* OpenSSL's answers to one SSL_read of a packet: more is needed, with the same
\* flight, a new one, or none outstanding; the handshake is done; the packet is
\* fatal, or the peer's close.
SslRead(s) ==
    [done : {s.done}, flight : IF s.done THEN {0} ELSE {s.flight, 100, 0},
     bad : BOOLEAN, sends : {0, 1}]
    \cup (IF s.done THEN {}
          ELSE [done : {TRUE}, flight : {0}, bad : {FALSE}, sends : {1}])

\* timer_.Start of the time left, unless that is too long.
ArmTimer(s) ==
    IF s.flight < DtlsLimit THEN [s EXCEPT !.timer = TRUE, !.early = FALSE]
    ELSE [s EXCEPT !.dtls = "FAILED"]

\* A bug: the flight goes out again and its timer is not started again.
HandleTimeout_NoRestart(s) ==
    IF s.done \/ s.flight = 0 THEN {Outcome(s, FALSE, 0)}
    ELSE {SendBioData(Outcome([s EXCEPT !.flight = OnSslDtlsTimer(@)], FALSE, 0), 1),
          Outcome([s EXCEPT !.dtls = "FAILED"], FALSE, 0)}

\* HandleTimeout of an expired flight: OpenSSL retransmits it and doubles its
\* timeout, and UpdateTimeout arms the timer again; or it gives up.
HandleTimeout(s) ==
    IF s.done \/ s.flight = 0 THEN {Outcome(s, FALSE, 0)}
    ELSE {SendBioData(Outcome(ArmTimer([s EXCEPT !.flight = OnSslDtlsTimer(@)]),
                              FALSE, 0), 1),
          Outcome([s EXCEPT !.dtls = "FAILED"], FALSE, 0)}

\* With a flight outstanding the time left is some of its timeout, or nothing,
\* which is handled at once.
UpdateTimeout(s) ==
    IF s.done \/ s.flight = 0 THEN HandleTimeout(s)
    ELSE {Outcome(ArmTimer(s), FALSE, 0)} \cup HandleTimeout(s)

\* CheckStatus and ExtractSrtpKey of a handshake that is just done: the timer is
\* stopped; without usable keys the state stays CONNECTING.
HandshakeDone(s) ==
    {[s EXCEPT !.dtls = "CONNECTED", !.timer = FALSE], [s EXCEPT !.timer = FALSE]}

ProcessDtlsPacket(s) ==
    IF ~IsRunning(s) THEN {Outcome(s, FALSE, 0)}
    ELSE UNION {
       LET t == [s EXCEPT !.done = r.done, !.flight = r.flight]
           after == IF r.done /\ ~s.done
                    THEN {Outcome(u, FALSE, 0) : u \in HandshakeDone(t)}
                    ELSE IF r.bad
                    THEN {Outcome([t EXCEPT !.dtls = IF @ = "CONNECTED" THEN "CLOSED"
                                                     ELSE "FAILED"], FALSE, 0)}
                    ELSE UpdateTimeout(t)
       IN {SendBioData(o, r.sends) : o \in after}
       : r \in SslRead(s)}

-----------------------------------------------------------------------------
(* SRTP, and the whole of ProcessPacket.                                   *)

\* SrtpSession::New of both sessions, which may fail; then the first PLI is sent
\* and its timer started.
Establish(s) ==
    IF s.established THEN {Outcome(s, FALSE, 0)}
    ELSE {Outcome(s, TRUE, 0), Outcome([s EXCEPT !.established = TRUE], FALSE, 1)}

\* Decrypting and encrypting, in libsrtp, may fail and end the peer.
Crypt(o) == {o, [o EXCEPT !.err = TRUE]}

\* An RTP packet is echoed, unless it does not decode; RTCP is only read, and its
\* walk may fail.
ProcessMedia(s, k) ==
    UNION {IF o.err THEN {o}
           ELSE CASE k = "rtp" -> Crypt(o) \cup {[o EXCEPT !.sends = @ + 1]}
                  [] k = "rtcp" -> Crypt(o)
                  [] OTHER -> {o}
           : o \in Establish(s)}

ProcessPacket(s, k) ==
    LET t == Initialize(s)
    IN IF IsStun(k) THEN {ProcessStunPacket(s, k)}
       ELSE IF ~s.ice THEN {Outcome(s, FALSE, 0)}
       ELSE IF k = "dtls" THEN ProcessDtlsPacket(t)
       ELSE IF ~IsRunning(t) THEN {Outcome(t, TRUE, 0)}
       ELSE IF t.dtls # "CONNECTED" THEN {Outcome(t, FALSE, 0)}
       ELSE ProcessMedia(t, k)

\* The wheel runs timer_, which leaves the wheel unless HandleTimeout starts it.
\* TimeWheel may run a timer early; OpenSSL's timeout has not passed then, and
\* HandleTimeout does nothing.
OnDtlsTimer(s) ==
    {Outcome([s EXCEPT !.timer = FALSE, !.early = TRUE], FALSE, 0)}
    \cup HandleTimeout([s EXCEPT !.timer = FALSE])

\* OnPliTimer, every two seconds.
OnPliTimer(s) == Outcome(s, FALSE, 1)
=============================================================================
