------------------------------ MODULE NetBuffer ------------------------------
(***************************************************************************)
(* net::Buffer, the byte queue of kernel/net.  A buffer is the size of its *)
(* vector, the two indexes and the readable bytes, a function of the       *)
(* indexes between them: the prependable and the writable bytes are never  *)
(* read.  The operations are functions from a buffer to a buffer; an       *)
(* assertion that fails sets the field aborted.                            *)
(*                                                                         *)
(* Its users fill a buffer in one of two ways: TcpStream and FileReader    *)
(* with ReadFd, the TLS and UDP readers by reading into the writable bytes *)
(* and calling AddReadableLength.                                          *)
(***************************************************************************)
EXTENDS Integers, Sequences

CONSTANTS kCheapPrepend,  \* 8
          InitialSize,    \* kInitialSize: 1508
          ExtraSize,      \* the size of g_extrabuf: 65536
          LowWater,       \* AddReadableLength grows a buffer below this: 1024
          HighWater,      \* and by at most this: 65536
          Bytes,          \* the values a byte takes
          MaxReadable,    \* bound: how many bytes are left unread
          MaxLen          \* bound: how many bytes one call appends or reads

ASSUME BufferAssumption ==
    /\ kCheapPrepend \in Nat /\ InitialSize \in Nat /\ ExtraSize \in Nat
    /\ LowWater \in Nat /\ HighWater \in Nat
    /\ LowWater <= InitialSize /\ LowWater <= HighWater
    /\ MaxReadable \in Nat /\ MaxLen \in Nat

VARIABLES buf,     \* the buffer
          filling, \* how its user fills it: "ReadFd" or "AddReadableLength"
          pending  \* the bytes put in and not yet taken, in order

bufferVars == <<buf, filling, pending>>

readable_bytes(b) == b.writer_index - b.reader_index
writable_bytes(b) == b.size - b.writer_index
prependable_bytes(b) == b.reader_index

\* The buffer b with another size, indexes and content.
With(b, size, reader, writer, bytes) ==
    [size |-> size, reader_index |-> reader, writer_index |-> writer,
     bytes |-> bytes, aborted |-> b.aborted]

NewBuffer ==
    [size |-> kCheapPrepend + InitialSize, reader_index |-> kCheapPrepend,
     writer_index |-> kCheapPrepend, bytes |-> <<>>, aborted |-> FALSE]

\* The readable bytes of b moved to index to.
Copy(b, to) == [i \in to..(to + readable_bytes(b) - 1) |->
                   b.bytes[i - to + b.reader_index]]

Resize(b, len) ==
    With(b, b.writer_index + len, b.reader_index, b.writer_index, b.bytes)

Abort(b) == [b EXCEPT !.aborted = TRUE]

Compact_Misplaced(b) ==
    With(b, b.size, kCheapPrepend, kCheapPrepend + readable_bytes(b),
         [i \in kCheapPrepend..(kCheapPrepend + readable_bytes(b) - 1) |->
             b.bytes[b.reader_index]])
Compact(b) ==
    IF ~(kCheapPrepend < b.reader_index) THEN Abort(b)
    ELSE With(b, b.size, kCheapPrepend, kCheapPrepend + readable_bytes(b),
              Copy(b, kCheapPrepend))

\* The prependable bytes beyond the first kCheapPrepend are reused if that is
\* enough, else the vector grows.
MakeSpace(b, len) ==
    IF writable_bytes(b) + prependable_bytes(b) < len + kCheapPrepend
    THEN Resize(b, len) ELSE Compact(b)

EnsureWritableBytes(b, len) ==
    LET c == IF writable_bytes(b) < len THEN MakeSpace(b, len) ELSE b
    IN  IF writable_bytes(c) < len THEN Abort(c) ELSE c

\* data is copied to the writable bytes, and the write index moved past it.
CopyIn(b, data) == [i \in b.reader_index..(b.writer_index + Len(data) - 1) |->
                      IF i < b.writer_index THEN b.bytes[i]
                                            ELSE data[i - b.writer_index + 1]]

Put(b, data) ==
    With(b, b.size, b.reader_index, b.writer_index + Len(data), CopyIn(b, data))

AppendData(b, data) ==
    IF data = <<>> THEN b ELSE Put(EnsureWritableBytes(b, Len(data)), data)

TakeAll(b) == With(b, b.size, kCheapPrepend, kCheapPrepend, <<>>)

\* The bytes from index from on.
Rest(b, from) == [i \in from..(b.writer_index - 1) |-> b.bytes[i]]

TakeLen(b, len) ==
    IF len < readable_bytes(b)
    THEN With(b, b.size, b.reader_index + len, b.writer_index,
              Rest(b, b.reader_index + len))
    ELSE TakeAll(b)

\* readv fills the writable bytes, and g_extrabuf if they are fewer than it has;
\* what went to g_extrabuf is appended.
ReadInto(b, data) ==
    LET writable == writable_bytes(b)
    IN  IF Len(data) <= writable
        THEN Put(b, data)
        ELSE AppendData(Put(b, SubSeq(data, 1, writable)),
                        SubSeq(data, writable + 1, Len(data)))

\* A buffer with little room left is grown for the next read.
AddLength_NoGrowth(b, data) == Put(EnsureWritableBytes(b, Len(data)), data)
AddLength(b, data) ==
    LET c == Put(EnsureWritableBytes(b, Len(data)), data)
    IN  IF writable_bytes(c) >= LowWater THEN c
        ELSE EnsureWritableBytes(c, IF c.size < HighWater THEN c.size ELSE HighWater)

-----------------------------------------------------------------------------
BufferInit ==
    /\ buf = NewBuffer
    /\ filling \in {"ReadFd", "AddReadableLength"}
    /\ pending = <<>>

\* The data of one call.
Data == UNION {[1..n -> Bytes] : n \in 0..MaxLen}

Fill(data) ==
    /\ Len(pending) + Len(data) <= MaxReadable
    /\ pending' = pending \o data
    /\ UNCHANGED filling

ReadFd(data) ==
    /\ filling = "ReadFd"
    /\ Len(data) <= writable_bytes(buf)
                      + (IF writable_bytes(buf) < ExtraSize THEN ExtraSize ELSE 0)
    /\ Fill(data)
    /\ buf' = ReadInto(buf, data)

AppendBytes(data) ==
    /\ filling = "ReadFd"
    /\ Fill(data)
    /\ buf' = AppendData(buf, data)

\* The reader was given the writable bytes, and data is what it put there.
AddReadableLength(data) ==
    /\ filling = "AddReadableLength"
    /\ data # <<>> /\ Len(data) <= writable_bytes(buf)
    /\ Fill(data)
    /\ buf' = AddLength(buf, data)

\* Take and TakeUntil, whose callers take at most what is readable, and TakeAll.
Take(len) ==
    /\ len <= readable_bytes(buf)
    /\ buf' = TakeLen(buf, len)
    /\ pending' = SubSeq(pending, len + 1, Len(pending))
    /\ UNCHANGED filling

BufferNext ==
    \/ \E data \in Data : ReadFd(data) \/ AppendBytes(data) \/ AddReadableLength(data)
    \/ \E len \in 1..MaxReadable : Take(len)

BufferSpec == BufferInit /\ [][BufferNext]_bufferVars

-----------------------------------------------------------------------------
(* Properties.                                                             *)

\* The fields of b have their types, and its indexes are in order.
IsBuffer(b) ==
    /\ b.size \in Nat /\ b.reader_index \in Nat /\ b.writer_index \in Nat
    /\ b.aborted \in BOOLEAN
    /\ DOMAIN b.bytes = b.reader_index..(b.writer_index - 1)
    /\ kCheapPrepend <= b.reader_index
    /\ b.reader_index <= b.writer_index
    /\ b.writer_index <= b.size

\* The readable bytes of b are the sequence s.
Holds(b, s) ==
    /\ readable_bytes(b) = Len(s)
    /\ \A i \in 1..Len(s) : b.bytes[b.reader_index + i - 1] = s[i]

\* The variables have their types, and the indexes are in the order that the
\* diagram of net_buffer.h draws, the first kCheapPrepend bytes kept free.
TypeOK ==
    /\ IsBuffer(buf)
    /\ filling \in {"ReadFd", "AddReadableLength"}
    /\ pending \in Seq(Bytes)

\* The readable bytes are the bytes that were put in and not taken, in order,
\* however the buffer was compacted and grown in between.
ContentIsPending == Holds(buf, pending)

\* The assertions of MakeSpace and EnsureWritableBytes hold: a buffer is only
\* compacted when that frees something, and there is room afterwards.
AssertionsHold == buf.aborted = FALSE

\* The TLS and UDP readers, which read straight into the writable bytes, always
\* find at least LowWater of them: a read into none would look like the peer's
\* close.
RoomToRead == filling = "AddReadableLength" => writable_bytes(buf) >= LowWater
=============================================================================
