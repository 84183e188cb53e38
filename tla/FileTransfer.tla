---------------------------- MODULE FileTransfer ----------------------------
(***************************************************************************)
(* bzft, example/file_transfer.cc: a server that sends one file to one     *)
(* client over a TCP stream, and the client that writes it.                *)
(*                                                                         *)
(* The stream carries a header and then the file.  A piece of the header   *)
(* is the number 0; a piece of the file is its index, so that order, loss  *)
(* and duplication show.  The two programs are two processes on two hosts; *)
(* each runs one routine and one statistics timer, which interrupts the    *)
(* routine wherever it is suspended.                                       *)
(***************************************************************************)
EXTENDS Naturals, Sequences

CONSTANTS HeadLen,   \* pieces of the header, bzfthead ... file size
          MaxFileLen,\* pieces of the longest file
          BufSize,   \* what one ReadFd takes at most, on either side
          Window     \* what the connection holds before a write must wait

ASSUME TransferAssumption ==
    /\ HeadLen \in Nat \ {0} /\ MaxFileLen \in Nat
    /\ BufSize \in Nat \ {0} /\ Window \in Nat \ {0}

VARIABLES file_size,                \* of file_reader_
          spc, sbuf, offset,        \* the server: Start, its buf, file_reader_
          total_send, last_send,    \* total_send_bytes, last_send_bytes
          wn,                       \* what its AsyncWrite has written so far
          cpc, cbuf, file,          \* the client: Start, its buf, file_writer_
          start_write_file,
          total_read, last_read,    \* total_read_bytes, last_read_bytes
          wire,                     \* the bytes between them
          fin,                      \* the server has shut its side down
          closed                    \* how the client's side ended

server == <<file_size, spc, sbuf, offset, total_send, last_send, wn>>
client == <<cpc, cbuf, file, start_write_file, total_read, last_read>>
vars == <<server, client, wire, fin, closed>>

Header == [i \in 1..HeadLen |-> 0]
Content == [i \in 1..file_size |-> i]
Drop(s, n) == SubSeq(s, n + 1, Len(s))

Init ==
    /\ file_size \in 0..MaxFileLen
    /\ spc = "accept" /\ sbuf = <<>> /\ offset = 0 /\ wn = 0
    /\ total_send = 0 /\ last_send = 0
    /\ cpc = "connect" /\ cbuf = <<>> /\ file = <<>>
    /\ start_write_file = FALSE /\ total_read = 0 /\ last_read = 0
    /\ wire = <<>> /\ fin = FALSE /\ closed = "no"

-----------------------------------------------------------------------------
(* The server.                                                             *)

\* AsyncConnect and AsyncAccept succeed together: the header is in the buffer.
Accept ==
    /\ spc = "accept" /\ cpc = "connect"
    /\ spc' = "read" /\ sbuf' = Header
    /\ cpc' = "read"
    /\ UNCHANGED <<file_size, offset, total_send, last_send, wn, cbuf, file,
                   start_write_file, total_read, last_read, wire, fin, closed>>

\* AsyncAccept fails: Start returns and the process exits.
AcceptFails ==
    /\ spc = "accept" /\ cpc = "connect"
    /\ spc' = "fatal" /\ fin' = TRUE
    /\ UNCHANGED <<file_size, sbuf, offset, total_send, last_send, wn, client, wire,
                   closed>>

\* AsyncConnect fails: the client ends with LOG_FATAL.
ConnectFails ==
    /\ cpc = "connect"
    /\ cpc' = "fatal" /\ closed' = "fin"
    /\ UNCHANGED <<server, cbuf, file, start_write_file, total_read, last_read,
                   wire, fin>>

\* ReadFile: the next n pieces join what the buffer holds; 0 is the file's end,
\* where the timer stops, the statistics are printed and the stream is shut
\* down, with the assertion that the buffer is empty.
ReadFile(n) ==
    /\ spc = "read"
    /\ n \in 1..BufSize /\ offset + n <= file_size
    /\ sbuf' = sbuf \o SubSeq(Content, offset + 1, offset + n)
    /\ offset' = offset + n
    /\ spc' = "write" /\ wn' = 0
    /\ UNCHANGED <<file_size, total_send, last_send, client, wire, fin, closed>>

ReadEnd ==
    /\ spc = "read" /\ offset = file_size
    /\ last_send' = total_send
    /\ fin' = TRUE
    /\ spc' = IF sbuf = <<>> THEN "waitclose" ELSE "aborted"
    /\ UNCHANGED <<file_size, sbuf, offset, total_send, wn, client, wire, closed>>

ReadFails ==
    /\ spc = "read"
    /\ spc' = "fatal" /\ fin' = TRUE
    /\ UNCHANGED <<file_size, sbuf, offset, total_send, last_send, wn, client, wire,
                   closed>>

\* AsyncWrite has written n more bytes: when that is all of them the buffer is
\* emptied and the file is read again.
Wrote(n) ==
    IF wn + n = Len(sbuf)
    THEN /\ total_send' = total_send + Len(sbuf)
         /\ sbuf' = <<>> /\ wn' = 0 /\ spc' = "read"
    ELSE wn' = wn + n /\ UNCHANGED <<total_send, sbuf, spc>>

\* One ::write of AsyncWrite: as much as the connection takes, then the rest
\* after a wait.
Write_Again(n) ==
    /\ spc = "write" /\ closed = "no"
    /\ n \in 1..(Len(sbuf) - wn) /\ Len(wire) + n <= Window
    /\ wire' = wire \o SubSeq(sbuf, 1, n)
    /\ Wrote(n)
    /\ UNCHANGED <<file_size, offset, last_send, client, fin, closed>>
Write_AllAtOnce(n) ==
    /\ spc = "write" /\ closed = "no"
    /\ n = Len(sbuf) - wn /\ Len(wire) + n <= Window
    /\ wire' = wire \o SubSeq(sbuf, wn + 1, wn + n)
    /\ Wrote(n)
    /\ UNCHANGED <<file_size, offset, last_send, client, fin, closed>>
Write(n) ==
    /\ spc = "write" /\ closed = "no"
    /\ n \in 1..(Len(sbuf) - wn) /\ Len(wire) + n <= Window
    /\ wire' = wire \o SubSeq(sbuf, wn + 1, wn + n)
    /\ Wrote(n)
    /\ UNCHANGED <<file_size, offset, last_send, client, fin, closed>>

\* The client has closed and its reset is not back yet: the kernel takes the
\* bytes and they are lost.
WriteLost(n) ==
    /\ spc = "write" /\ closed = "fin"
    /\ n \in 1..(Len(sbuf) - wn) /\ n <= Window
    /\ Wrote(n)
    /\ UNCHANGED <<file_size, offset, last_send, client, wire, fin, closed>>

\* The client's host answers the bytes it has no socket for.
ResetArrives ==
    /\ closed = "fin" /\ cpc = "fatal" /\ spc \in {"read", "write", "waitclose"}
    /\ closed' = "rst"
    /\ UNCHANGED <<server, client, wire, fin>>

\* AsyncWrite fails and returns short: LOG_FATAL.
WriteFails ==
    /\ spc = "write" /\ closed = "rst"
    /\ spc' = "fatal" /\ fin' = TRUE
    /\ UNCHANGED <<file_size, sbuf, offset, total_send, last_send, wn, client, wire,
                   closed>>

\* The timed AsyncRead after the shutdown: the client's close is the success.
WaitClose ==
    /\ spc = "waitclose"
    /\ closed # "no"
    /\ spc' = IF closed = "fin" THEN "succeed" ELSE "fatal"
    /\ UNCHANGED <<file_size, sbuf, offset, total_send, last_send, wn, client, wire, fin,
                   closed>>

\* Three seconds pass first.
WaitCloseTimeout ==
    /\ spc = "waitclose"
    /\ spc' = "fatal"
    /\ UNCHANGED <<file_size, sbuf, offset, total_send, last_send, wn, client, wire, fin,
                   closed>>

\* OnTimer, from the accept to the end of the file.
ServerStat ==
    /\ spc = "write" /\ last_send # total_send
    /\ last_send' = total_send
    /\ UNCHANGED <<file_size, spc, sbuf, offset, total_send, wn, client, wire, fin,
                   closed>>

-----------------------------------------------------------------------------
(* The client.                                                             *)

\* The exit of the process closes the socket: with a reset if the kernel holds
\* bytes nobody read.
Close == closed' = IF wire = <<>> THEN "fin" ELSE "rst"

\* The header is parsed once it is whole, and what follows it stays in the
\* buffer.  From then on a read's bytes, and what the buffer holds, are written.
Consume(buf) ==
    IF start_write_file
    THEN /\ file' = file \o buf
         /\ cbuf' = <<>>
         /\ UNCHANGED start_write_file
    ELSE IF Len(buf) < HeadLen
    THEN cbuf' = buf /\ UNCHANGED <<file, start_write_file>>
    ELSE /\ cbuf' = Drop(buf, HeadLen)
         /\ start_write_file' = TRUE
         /\ UNCHANGED file

\* AsyncRead returns n bytes.
Read(n) ==
    /\ cpc = "read"
    /\ n \in 1..BufSize /\ n <= Len(wire)
    /\ wire' = Drop(wire, n)
    /\ total_read' = total_read + n
    /\ Consume(cbuf \o SubSeq(wire, 1, n))
    /\ UNCHANGED <<server, cpc, last_read, fin, closed>>

\* AsyncRead returns 0: the statistics, "recv file succeed!!" and exit.
ReadEof_Early ==
    /\ cpc = "read" /\ fin
    /\ cpc' = "succeed" /\ last_read' = total_read
    /\ Close
    /\ UNCHANGED <<server, cbuf, file, start_write_file, total_read, wire, fin>>
ReadEof ==
    /\ cpc = "read" /\ fin /\ wire = <<>>
    /\ cpc' = "succeed" /\ last_read' = total_read
    /\ Close
    /\ UNCHANGED <<server, cbuf, file, start_write_file, total_read, wire, fin>>

\* AsyncRead fails, a header does not parse, or the file cannot be opened or
\* written: LOG_FATAL.
ClientFails ==
    /\ cpc = "read"
    /\ cpc' = "fatal"
    /\ Close
    /\ UNCHANGED <<server, cbuf, file, start_write_file, total_read, last_read,
                   wire, fin>>

\* OnTimer; the client never stops its timer.
ClientStat ==
    /\ cpc = "read" /\ last_read # total_read
    /\ last_read' = total_read
    /\ UNCHANGED <<server, cpc, cbuf, file, start_write_file, total_read, wire,
                   fin, closed>>

ServerDone == spc \in {"succeed", "fatal", "aborted"}
ClientDone == cpc \in {"succeed", "fatal"}

\* Both programs have ended, or the server waits for a client that will not come.
Terminated ==
    /\ ClientDone /\ (ServerDone \/ spc = "accept")
    /\ UNCHANGED vars

ServerStep ==
    \/ \E n \in 1..BufSize : ReadFile(n)
    \/ \E n \in 1..Window : Write(n) \/ WriteLost(n)
    \/ ReadEnd \/ WriteFails \/ WaitClose

ClientStep == ReadEof \/ \E n \in 1..BufSize : Read(n)

Next ==
    \/ Accept \/ AcceptFails \/ ConnectFails
    \/ ServerStep \/ ReadFails \/ WaitCloseTimeout \/ ServerStat
    \/ ClientStep \/ ClientFails \/ ClientStat
    \/ ResetArrives \/ Terminated

Spec == Init /\ [][Next]_vars

\* Both programs run, and the connection carries what is written.
FairSpec == Spec /\ WF_vars(ServerStep) /\ WF_vars(ClientStep)

-----------------------------------------------------------------------------
(* Properties.                                                             *)

Pieces == 0..MaxFileLen

\* Every variable has its type.
TypeOK ==
    /\ spc \in {"accept", "read", "write", "waitclose", "succeed", "fatal",
                "aborted"}
    /\ cpc \in {"connect", "read", "succeed", "fatal"}
    /\ sbuf \in Seq(Pieces) /\ cbuf \in Seq(Pieces) /\ file \in Seq(Pieces)
    /\ wire \in Seq(Pieces)
    /\ file_size \in 0..MaxFileLen /\ offset \in 0..file_size /\ wn \in 0..Len(sbuf)
    /\ total_send \in Nat /\ last_send \in 0..total_send
    /\ total_read \in Nat /\ last_read \in 0..total_read
    /\ start_write_file \in BOOLEAN /\ fin \in BOOLEAN
    /\ closed \in {"no", "fin", "rst"}

\* What the client took out of the stream: the header it has removed, the file
\* it has written and its buffer.
Taken == (IF start_write_file THEN Header ELSE <<>>) \o file \o cbuf

\* However reads, writes and suspensions interleave, as long as the client has
\* not closed, its file, its buffer, the connection and the server's unsent bytes
\* are, in this order, the header and the part of the file read so far:
\* AsyncWrite's partial writes and the client's partial headers lose, repeat and
\* reorder nothing.
StreamIntact ==
    spc # "accept" /\ cpc = "read" =>
       Taken \o wire \o Drop(sbuf, wn) = Header \o SubSeq(Content, 1, offset)

\* The server's "file transfer succeed!" (file_transfer.cc:128) means that the
\* client read the header and the whole file, unless the client died by LOG_FATAL:
\* its exit looks like its success to the server.
SucceedMeansRead ==
    spc = "succeed" => Taken = Header \o Content \/ cpc = "fatal"

\* When the client reports success and the server did not fail, it has received the
\* whole file, and has written either all of it or, when all of it came in the same
\* read as the end of the header, nothing: Start writes the buffer at the next read.
SucceedMeansHeld ==
    cpc = "succeed" /\ spc \notin {"fatal", "aborted"} =>
       /\ file \o cbuf = Content /\ start_write_file
       /\ file = <<>> \/ cbuf = <<>>

\* Either side's message of success means that the client has received every byte
\* of the file, unless the other side died: no partial write, partial header or
\* early close is taken for the end.  It does not mean that the file is on the disk.
SuccessMeansReceived == SucceedMeansRead /\ SucceedMeansHeld

\* The client's "recv file succeed!!" (file_transfer.cc:243), taken at its word: the
\* server did not fail, and the file the client wrote is the server's.
RecvFileSucceed ==
    cpc = "succeed" /\ spc \notin {"fatal", "aborted"} => file = Content

\* The server's assertion that its buffer is empty after the file's end fails
\* only for an empty file, whose header is never sent.
AssertOnlyEmptyFile == spc = "aborted" => file_size = 0

\* The counters the statistics print agree with the bytes: what the client
\* counted and what is on its way is what the server counted or is writing.
CountersAgree ==
    closed = "no" => total_read + Len(wire) = total_send + wn

\* Once connected, server and client end, whatever the other side does: neither
\* is left in a write or in a read.
TransferEnds == (spc = "read" ~> ServerDone) /\ (cpc = "read" ~> ClientDone)
=============================================================================
