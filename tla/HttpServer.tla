----------------------------- MODULE HttpServer -----------------------------
(***************************************************************************)
(* One HTTP or HTTPS connection: HttpStream and HttpMessage (http/),       *)
(* TlsStream (kernel/crypto/tls_stream.cc), and the request loop that the  *)
(* signalling server and the hello examples share.                         *)
(*                                                                         *)
(* The byte stream is a sequence of tokens: a first line, a header line,   *)
(* the blank line, a unit of body.  The client pipelines requests, the     *)
(* network cuts the stream anywhere, and the socket reports readiness by   *)
(* edges: an event finds the routine waiting, or it is gone.  A TLS        *)
(* handshake goes ahead of the stream, in flights: the client's, each      *)
(* answered by one of the server's, and the next when it has that.         *)
(***************************************************************************)
EXTENDS Integers, Sequences

CONSTANTS Requests,      \* what the client may send: sequences of tokens
          MaxRequests,   \* bound on the requests of one connection
          Window,        \* what the connection takes before a write must wait
          Flights,       \* the client's flights in a handshake
          FlightLen      \* the length of the server's answer to one

\* Content-Length with a number, and without one; a header; a line with no colon.
First == <<"first", 0>>
ContentLength(n) == <<"length", n>>
BadLength == <<"badlength", 0>>
Header == <<"header", 0>>
NoColon == <<"nocolon", 0>>
Blank == <<"blank", 0>>
Body == <<"body", 0>>
Answer(i) == <<"answer", i>>   \* the body of the response to the i-th request
LengthLines == {BadLength} \cup ({"length"} \X Nat)
Answers == {"answer"} \X Nat
Tokens == {First, Header, NoColon, Blank, Body} \cup LengthLines \cup Answers

\* A message as a client sends it, in the order of Encode: if the first of its
\* lengths is a number, that is the size of its body; without one it has no body.
Lengths(m, pos) == {i \in 2..(pos - 1) : m[i] \in LengthLines}
Framed(m, pos) ==
    /\ m[1] = First /\ m[pos] = Blank
    /\ \A i \in 2..(pos - 1) : m[i] \notin {First, Blank, Body}
    /\ \A i \in (pos + 1)..Len(m) : m[i] = Body
    /\ Lengths(m, pos) = {} => Len(m) = pos
    /\ \A i \in Lengths(m, pos) :
          m[i] # BadLength /\ (\A j \in Lengths(m, pos) : i <= j) => Len(m) = pos + m[i][2]

ASSUME HttpAssumption ==
    /\ Requests \subseteq Seq(Tokens \ Answers)
    /\ \A m \in Requests : \E pos \in 2..Len(m) : Framed(m, pos)
    /\ MaxRequests \in Nat /\ Window \in Nat \ {0}
    /\ Flights \in Nat \ {0} /\ FlightLen \in Nat \ {0}

VARIABLES
    https,        \* UpgradeHttps is called first
    pc,           \* where the connection's routine is, or how it ended
    read_buf,     \* read_buf_
    reqs,         \* the requests AsyncRead has returned, as they were in the buffer
    write_buf,    \* write_buf_
    wn,           \* how much of it AsyncWrite has written
    got,          \* what the connection has taken of the responses
    out,          \* bytes in the connection that the client has not read
    hs_sent,      \* flights of the handshake: the client has sent,
    hs_in,        \* are in the server's socket or were,
    hs_read,      \* SSL_accept has taken
    hs_out,       \* what it has still to write of its answer to the last
    sent,         \* the requests the client has sent
    sending,      \* its bytes on the way
    kernel,       \* its bytes in the server's socket
    fin,          \* the client's end: "no", "fin", "in" the socket, or "rst"
    broken,       \* behind them is a record that does not authenticate
    edgein, edgeout  \* events the loop has not reported yet

conn == <<https, read_buf, reqs>>
response == <<write_buf, wn, got>>
handshake == <<hs_sent, hs_in, hs_read, hs_out>>
client == <<sent, sending, kernel, fin, broken>>
edges == <<edgein, edgeout>>
vars == <<pc, conn, response, out, handshake, client, edges>>

Ended == {"refused", "badrequest", "timeout", "closed"}

Init ==
    /\ https \in BOOLEAN /\ pc = (IF https THEN "accept" ELSE "decode")
    /\ read_buf = <<>> /\ reqs = <<>> /\ write_buf = <<>> /\ wn = 0 /\ got = <<>>
    /\ hs_sent = 0 /\ hs_in = 0 /\ hs_read = 0 /\ hs_out = 0 /\ out = 0
    /\ sent = <<>> /\ sending = <<>> /\ kernel = <<>>
    /\ fin = "no" /\ broken = FALSE /\ edgein = FALSE /\ edgeout = FALSE

-----------------------------------------------------------------------------
(* HttpMessage.                                                            *)

\* The first place in s of one of the tokens, or 0.
Find(s, tokens) ==
    IF \E i \in DOMAIN s : s[i] \in tokens
    THEN CHOOSE i \in DOMAIN s : s[i] \in tokens /\ \A j \in 1..(i - 1) : s[j] \notin tokens
    ELSE 0

\* The length of the first message of the buffer; 0 when it is not complete; -1.
\* A Content-Length that no other header follows is an error.
CheckCompleted(buf) ==
    LET pos == Find(buf, {Blank})
        j == Find(SubSeq(buf, 1, pos - 1), LengthLines)
    IN IF pos = 0 THEN 0
       ELSE IF j = 0 THEN pos
       ELSE IF j = pos - 1 \/ buf[j] = BadLength THEN -1
       ELSE IF Len(buf) - pos < buf[j][2] THEN 0
       ELSE pos + buf[j][2]

\* The header loop stops at the last header and never looks at it; a first line
\* that the blank line follows is an error, there is no header to find.
Decode(buf) ==
    LET len == CheckCompleted(buf)
        pos == Find(buf, {Blank})
    IN IF len <= 0 THEN len
       ELSE IF pos = 2 \/ \E i \in 2..(pos - 2) : buf[i] = NoColon THEN -1
       ELSE len

\* Encode: headers in the order of their names.
Encode(headers, body) == <<First>> \o headers \o <<Blank>> \o body
Response(i) == Encode(<<ContentLength(1), Header>>, <<Answer(i)>>)
Responses(n) == [i \in 1..n |-> Response(i)]

-----------------------------------------------------------------------------
(* The connection's routine.                                               *)

Goes(to) == pc' = to /\ UNCHANGED <<conn, response, out, handshake, client, edges>>

\* SSL_accept takes a flight, and refuses the client or has an answer to write.
SslFlight ==
    /\ pc = "accept" /\ hs_out = 0 /\ hs_in > hs_read /\ fin # "rst"
    /\ hs_read' = hs_read + 1
    /\ \/ hs_out' = FlightLen /\ UNCHANGED pc
       \/ pc' = "refused" /\ UNCHANGED hs_out
    /\ UNCHANGED <<conn, response, out, hs_sent, hs_in, client, edges>>

\* The handshake is done when the answer to the last flight is written.
SslWrite(n) ==
    /\ pc = "accept" /\ fin # "rst" /\ n \in 1..hs_out /\ out + n <= Window
    /\ out' = out + n /\ hs_out' = hs_out - n
    /\ pc' = IF n = hs_out /\ hs_read = Flights THEN "decode" ELSE pc
    /\ UNCHANGED <<conn, response, hs_sent, hs_in, hs_read, client, edges>>

SslAcceptFails ==
    /\ pc = "accept" /\ (fin = "rst" \/ (fin = "in" /\ hs_out = 0 /\ hs_in = hs_read))
    /\ Goes("refused")

\* TlsStream::AsServer waits without a timeout, and for the socket to be readable
\* whether SSL_accept has to read or to write.
SslAcceptAgain ==
    /\ pc = "accept" /\ fin # "rst"
    /\ IF hs_out > 0 THEN out = Window ELSE hs_in = hs_read /\ fin # "in"
    /\ Goes("waitaccept")

\* HttpStream::AsyncRead decodes what the buffer holds before it reads.  Of a request
\* the handler makes a response, which AsyncWrite encodes behind what write_buf_ holds.
DecodeBuffer ==
    /\ pc = "decode"
    /\ LET len == Decode(read_buf) IN
       \/ len < 0 /\ Goes("badrequest")
       \/ len = 0 /\ Goes("read")
       \/ /\ len > 0 /\ pc' = "write"
          /\ reqs' = Append(reqs, SubSeq(read_buf, 1, len))
          /\ read_buf' = SubSeq(read_buf, len + 1, Len(read_buf))
          /\ write_buf' = write_buf \o Response(Len(reqs) + 1)
          /\ UNCHANGED <<https, wn, got, out, handshake, client, edges>>

\* A bug: the read goes to the start of the buffer.
Read_Overwrites(n) ==
    /\ pc = "read" /\ n \in 1..Len(kernel) /\ (https => n = 1)
    /\ read_buf' = SubSeq(kernel, 1, n)
    /\ kernel' = SubSeq(kernel, n + 1, Len(kernel))
    /\ pc' = "decode"
    /\ UNCHANGED <<https, reqs, response, out, handshake, sent, sending, fin, broken, edges>>

\* A read returns some of what is there, or one TLS record.
Read(n) ==
    /\ pc = "read" /\ n \in 1..Len(kernel) /\ (https => n = 1)
    /\ read_buf' = read_buf \o SubSeq(kernel, 1, n)
    /\ kernel' = SubSeq(kernel, n + 1, Len(kernel))
    /\ pc' = "decode"
    /\ UNCHANGED <<https, reqs, response, out, handshake, sent, sending, fin, broken, edges>>

\* A bug: the end of the stream is seen before what came ahead of it is read.
ReadEof_Early == pc = "read" /\ ~broken /\ fin \in {"in", "rst"} /\ Goes("closed")
ReadEof == pc = "read" /\ ~broken /\ kernel = <<>> /\ fin \in {"in", "rst"} /\ Goes("closed")

\* EAGAIN: wait for the next event, at most ms.
ReadAgain ==
    pc = "read" /\ ~broken /\ kernel = <<>> /\ fin \notin {"in", "rst"} /\ Goes("waitread")

\* SSL_read fails in the TLS layer, where no system call sets errno.  The code
\* does not reset it either: what an earlier call left decides between an error
\* and a wait for an event that need not come.
ReadBroken == pc = "read" /\ broken /\ kernel = <<>> /\ (Goes("closed") \/ Goes("waitread"))

\* A bug: the timer of the wait is not set.
ReadTimeout_Never == FALSE /\ Goes("timeout")
ReadTimeout == pc = "waitread" /\ Goes("timeout")

\* A bug: the buffer is not emptied.
Write_NoTakeAll(n) ==
    /\ pc = "write" /\ fin # "rst" /\ n \in 1..(Len(write_buf) - wn) /\ out + n <= Window
    /\ out' = out + n /\ got' = got \o SubSeq(write_buf, wn + 1, wn + n)
    /\ IF wn + n = Len(write_buf)
       THEN wn' = 0 /\ pc' = "decode" /\ UNCHANGED write_buf
       ELSE wn' = wn + n /\ UNCHANGED <<write_buf, pc>>
    /\ UNCHANGED <<conn, handshake, client, edges>>

\* AsyncWrite goes on from where the last write stopped until the buffer is out, and
\* then empties it.  SSL_write is tried again with the same bytes, of which the library
\* remembers what it has sent.
Write(n) ==
    /\ pc = "write" /\ fin # "rst" /\ n \in 1..(Len(write_buf) - wn) /\ out + n <= Window
    /\ out' = out + n /\ got' = got \o SubSeq(write_buf, wn + 1, wn + n)
    /\ IF wn + n = Len(write_buf)
       THEN wn' = 0 /\ write_buf' = <<>> /\ pc' = "decode"
       ELSE wn' = wn + n /\ UNCHANGED <<write_buf, pc>>
    /\ UNCHANGED <<conn, handshake, client, edges>>

WriteAgain == pc = "write" /\ fin # "rst" /\ out = Window /\ Goes("waitwrite")
WriteFails == pc = "write" /\ fin = "rst" /\ Goes("closed")

\* A bug: the event does not end the wait of the handshake.
PollIn_NotAccept ==
    /\ edgein /\ edgein' = FALSE
    /\ pc' = IF pc = "waitread" THEN "read" ELSE pc
    /\ UNCHANGED <<conn, response, out, handshake, client, edgeout>>

\* The loop reports an event to the routine that waits for it, or to nobody.
PollIn ==
    /\ edgein /\ edgein' = FALSE
    /\ pc' = CASE pc = "waitread" -> "read"
               [] pc = "waitaccept" -> "accept"
               [] OTHER -> pc
    /\ UNCHANGED <<conn, response, out, handshake, client, edgeout>>

PollOut ==
    /\ edgeout /\ edgeout' = FALSE
    /\ pc' = IF pc = "waitwrite" THEN "write" ELSE pc
    /\ UNCHANGED <<conn, response, out, handshake, client, edgein>>

-----------------------------------------------------------------------------
(* The client and the network, as long as the connection is there.         *)

Open == pc \notin Ended

\* The next flight, when the client has read the server's answer to the last.
ClientFlight ==
    /\ Open /\ https /\ fin = "no" /\ hs_sent < Flights
    /\ hs_read = hs_sent /\ hs_out = 0 /\ out = 0
    /\ hs_sent' = hs_sent + 1
    /\ UNCHANGED <<pc, conn, response, out, hs_in, hs_read, hs_out, client, edges>>

Request(m) ==
    /\ Open /\ fin = "no" /\ Len(sent) < MaxRequests /\ (https => hs_sent = Flights)
    /\ sent' = Append(sent, m) /\ sending' = sending \o m
    /\ UNCHANGED <<pc, conn, response, out, handshake, kernel, fin, broken, edges>>

Finish ==
    /\ Open /\ fin = "no" /\ fin' = "fin"
    /\ UNCHANGED <<pc, conn, response, out, handshake, sent, sending, kernel, broken, edges>>

Reset ==
    /\ Open /\ fin # "rst" /\ fin' = "rst" /\ sending' = <<>> /\ kernel' = <<>>
    /\ edgein' = TRUE /\ edgeout' = TRUE
    /\ UNCHANGED <<pc, conn, response, out, handshake, sent, broken>>

DeliverFlight ==
    /\ Open /\ hs_in < hs_sent /\ fin # "rst" /\ hs_in' = hs_in + 1 /\ edgein' = TRUE
    /\ UNCHANGED <<pc, conn, response, out, hs_sent, hs_read, hs_out, client, edgeout>>

Deliver(n) ==
    /\ Open /\ hs_in = hs_sent /\ ~broken /\ n \in 1..Len(sending)
    /\ kernel' = kernel \o SubSeq(sending, 1, n)
    /\ sending' = SubSeq(sending, n + 1, Len(sending))
    /\ edgein' = TRUE
    /\ UNCHANGED <<pc, conn, response, out, handshake, sent, fin, broken, edgeout>>

DeliverFin ==
    /\ Open /\ fin = "fin" /\ sending = <<>> /\ hs_in = hs_sent /\ ~broken
    /\ fin' = "in" /\ edgein' = TRUE
    /\ UNCHANGED <<pc, conn, response, out, handshake, sent, sending, kernel, broken, edgeout>>

\* A record is changed on its way; SSL_read never gets to what follows it.
Corrupt ==
    /\ Open /\ https /\ hs_in = Flights /\ sending # <<>> /\ ~broken
    /\ broken' = TRUE /\ edgein' = TRUE
    /\ UNCHANGED <<pc, conn, response, out, handshake, sent, sending, kernel, fin, edgeout>>

Drain ==
    /\ Open /\ out > 0 /\ out' = 0 /\ edgeout' = TRUE
    /\ UNCHANGED <<pc, conn, response, handshake, client, edgein>>

Terminated == pc \in Ended /\ UNCHANGED vars

Routine ==
    \/ SslFlight \/ SslAcceptFails \/ SslAcceptAgain
    \/ \E n \in 1..hs_out : SslWrite(n)
    \/ DecodeBuffer \/ ReadEof \/ ReadAgain \/ ReadBroken \/ ReadTimeout
    \/ \E n \in 1..Len(kernel) : Read(n)
    \/ \E n \in 1..Len(write_buf) : Write(n)
    \/ WriteAgain \/ WriteFails

Thread == Routine \/ PollIn \/ PollOut

Network ==
    \/ DeliverFlight \/ DeliverFin
    \/ \E n \in 1..Len(sending) : Deliver(n)

Client ==
    \/ ClientFlight \/ Drain \/ Finish \/ Reset \/ Corrupt
    \/ \E m \in Requests : Request(m)

Next == Thread \/ Network \/ Client \/ Terminated

Spec == Init /\ [][Next]_vars

\* One thread reports the events and runs the routine, and the network delivers in
\* order.  Nothing makes the client send, go on with a handshake, read what it is
\* sent, or close.
Fairness == WF_vars(Thread) /\ WF_vars(Network)

\* What a client that reads adds.
ClientReads == WF_vars(Drain)

FairSpec == Spec /\ Fairness

-----------------------------------------------------------------------------
(* Properties.                                                             *)

\* The messages one after the other.
Stream(msgs) ==
    LET joined[i \in 0..Len(msgs)] == IF i = 0 THEN <<>> ELSE joined[i - 1] \o msgs[i]
    IN joined[Len(msgs)]

\* What a request must look like to be served, said of the request alone.
Served(m) ==
    LET pos == CHOOSE i \in DOMAIN m : m[i] = Blank
        lengths == {i \in 1..pos : m[i] \in LengthLines}
    IN /\ pos > 2
       /\ \A i \in 2..(pos - 2) : m[i] # NoColon
       /\ \A i \in lengths : (\A j \in lengths : i <= j) =>
             /\ i < pos - 1
             /\ m[i] # BadLength /\ Len(m) = pos + m[i][2]

\* However the stream is cut, HttpStream::AsyncRead returns the client's requests,
\* one by one and whole, and what it has not returned is still in its place.  It
\* ends as "http request parse failed" exactly when the next request is malformed:
\* never for bytes of a good request that came late.
FramingExact ==
    /\ Len(reqs) <= Len(sent) /\ reqs = SubSeq(sent, 1, Len(reqs))
    /\ fin # "rst" => Stream(reqs) \o read_buf \o kernel \o sending = Stream(sent)
    /\ \A i \in DOMAIN reqs : Served(reqs[i])
    /\ pc = "badrequest" => ~Served(sent[Len(reqs) + 1])

\* What the connection takes is the responses to the requests that AsyncRead returned,
\* in their order and each once, however the writes are cut; what is missing is the
\* rest of write_buf_, and that is empty when the next request is decoded.
ResponsesExact ==
    /\ got \o SubSeq(write_buf, wn + 1, Len(write_buf)) = Stream(Responses(Len(reqs)))
    /\ pc \in {"decode", "read", "waitread"} => write_buf = <<>>

\* A routine that waits on a socket that is ready has an event coming: the call
\* before each wait leaves no edge unseen.  Only AsServer can wait for the wrong one,
\* when SSL_accept has to write.
NoLostEdge ==
    /\ pc = "waitread" /\ ~broken /\ (kernel # <<>> \/ fin \in {"in", "rst"}) => edgein
    /\ pc = "waitaccept" /\ hs_out = 0 /\ (hs_in > hs_read \/ fin = "in") => edgein
    /\ pc = "waitaccept" /\ fin = "rst" => edgein
    /\ pc = "waitwrite" /\ (out < Window \/ fin = "rst") => edgeout

\* SSL_accept has to write and AsServer waits for the client to send.
AcceptStalls == pc = "waitaccept" /\ hs_out > 0

\* The requests up to the first malformed one have their responses.
AllAnswered ==
    \A i \in DOMAIN sent :
        Len(got) >= i * Len(Response(i)) \/ \E j \in 1..i : ~Served(sent[j])

\* Well-formed requests are answered, also those a client sends before it shuts
\* down, if the client reads, and unless it is slower than the read's timeout,
\* resets, breaks the TLS stream or is refused by the handshake, or AsServer waits for
\* the wrong event for good.
GoodRequestsAnswered ==
    ClientReads =>
    \/ <>[]AcceptStalls
    \/ []<>(pc \in {"timeout", "refused"} \/ broken \/ fin = "rst" \/ AllAnswered)

\* A connection's routine is given back, also when the client falls silent, but for
\* the three waits without a timeout: AsServer's for a flight that the client does
\* not send, AsServer's when its own flight does not fit in the connection (it waits
\* for the client to send, tls_stream.cc:44, also when the client has made room), and
\* AsyncWrite's for a client that does not read.
ConnectionEnds ==
    \/ <>(pc \in Ended)
    \/ <>[](pc = "waitaccept" /\ hs_out = 0 /\ hs_sent = hs_read /\ hs_sent < Flights)
    \/ <>[]AcceptStalls
    \/ <>[](pc = "waitwrite" /\ out > 0)
=============================================================================
