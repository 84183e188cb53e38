---------------------------- MODULE AsyncLogging ----------------------------
(***************************************************************************)
(* The double-buffered logger of kernel/log: any thread appends lines to   *)
(* currentBuffer_ under mutex_, a backend thread takes the full buffers    *)
(* and writes them to a LogFile, which goes to a new file when the old one *)
(* is large or a day old.  Lines are numbered in the order Append got the  *)
(* mutex; a buffer, and a file, is the sequence of its lines.              *)
(*                                                                         *)
(* The owner calls Start and Stop.  A block that holds mutex_ is one step; *)
(* WaitForSeconds, which releases it, may end at any time (a notification, *)
(* the timeout, or spuriously).                                            *)
(***************************************************************************)
EXTENDS Integers, Sequences, Functions

CONSTANTS BufferSize, \* a buffer takes a line while fewer than this many fit
          DropLimit,  \* more buffers than this are dropped (25)
          RollSize,   \* a file with more than this is rolled
          CheckEveryN,\* the clock is looked at every so many appends (1024)
          Day,        \* kRollPerSeconds_
          MaxLines,   \* bound: how many lines are appended
          MaxTime,    \* bound: the last second of the clock
          MaxFailures \* bound: how many writes fail

ASSUME LoggingAssumption ==
    /\ BufferSize \in Nat \ {0, 1}
    /\ DropLimit \in Nat \ {0, 1}
    /\ RollSize \in Nat /\ CheckEveryN \in Nat \ {0} /\ Day \in Nat \ {0}
    /\ MaxLines \in Nat /\ MaxTime \in Nat \ {0} /\ MaxFailures \in Nat

VARIABLES owner,          \* the thread that calls Start and Stop
          running,        \* running_
          count,          \* how many lines were appended
          currentBuffer, nextBuffer, buffers,      \* guarded by mutex_
          pc,             \* the backend thread
          newBuffer1, newBuffer2, buffersToWrite,  \* its locals
          next,           \* the next of buffersToWrite to write
          dropped,        \* the lines it dropped, or failed to write
          log,            \* the LogFile: its files and its counters
          failures        \* how many writes failed

shared == <<currentBuffer, nextBuffer, buffers>>
locals == <<newBuffer1, newBuffer2, buffersToWrite, next>>
file == <<dropped, log, failures>>
vars == <<owner, running, count, shared, pc, locals, file>>

nullptr == <<0>>  \* no line has number 0, so this is not a buffer
empty == <<>>

Init ==
    /\ owner = "new" /\ running = FALSE /\ count = 0
    /\ currentBuffer = empty /\ nextBuffer = empty /\ buffers = <<>>
    /\ pc = "none"
    /\ newBuffer1 = nullptr /\ newBuffer2 = nullptr /\ buffersToWrite = <<>>
    /\ next = 0 /\ dropped = {} /\ failures = 0
    /\ log \in {[files |-> <<[opened |-> t, last |-> t, lines |-> <<>>]>>,
                count |-> 0, lastFlush |-> t, flushed |-> {}] : t \in 1..MaxTime}

-----------------------------------------------------------------------------
(* LogFile and AppendFile.  A file is the second in its name, the second   *)
(* of its last append, and its lines; 0 stands for the notice of a drop.   *)

notice == 0
FileLines(f) == [i \in DOMAIN f.files |-> f.files[i].lines]
Newest(f) == f.files[Len(f.files)]
Period(second) == second \div Day

\* The lines in a sequence of files or buffers.
LinesIn(blocks) == (UNION {Range(blocks[b]) : b \in DOMAIN blocks}) \ {notice}

\* fflush: all lines so far are out, those of earlier files since their fclose.
Flushed_Missing(f) == f
Flushed(f) == [f EXCEPT !.flushed = LinesIn(FileLines(f))]

\* At most one file per second: its name says only that.  The old one is closed.
RollFile_Always(f, t) ==
    [Flushed(f) EXCEPT !.files = Append(@, [opened |-> t, last |-> t, lines |-> <<>>]),
                       !.lastFlush = t]
RollFile(f, t) ==
    IF t > Newest(f).opened
    THEN [Flushed(f) EXCEPT !.files = Append(@, [opened |-> t, last |-> t, lines |-> <<>>]),
                            !.lastFlush = t]
    ELSE f

\* A bug: the size is looked at only with the clock.
LogAppend_LateCheck(f, data, t) ==
    LET g == [f EXCEPT !.files[Len(f.files)].lines = @ \o data,
                       !.files[Len(f.files)].last = t, !.count = @ + 1]
        h == [g EXCEPT !.count = 0]
    IN IF g.count < CheckEveryN THEN g
       ELSE IF Len(Newest(g).lines) > RollSize THEN RollFile(h, t) ELSE h

\* LogFile::Append, in second t, of what AppendFile::Append could write.  The clock
\* is read anew each time and may have been set back.  The flush interval is less
\* than a second here.
LogAppend(f, data, t) ==
    LET g == [f EXCEPT !.files[Len(f.files)].lines = @ \o data,
                       !.files[Len(f.files)].last = t]
        h == [g EXCEPT !.count = 0]
    IN IF Len(Newest(g).lines) > RollSize THEN RollFile(g, t)
       ELSE IF g.count + 1 < CheckEveryN THEN [g EXCEPT !.count = @ + 1]
       ELSE IF Period(t) # Period(Newest(g).opened) THEN RollFile(h, t)
       ELSE IF t - g.lastFlush > 0 THEN Flushed([h EXCEPT !.lastFlush = t])
       ELSE h

-----------------------------------------------------------------------------
(* The front end.                                                          *)

\* FixedBuffer keeps one byte free: it takes a line only if more than its
\* length is available.
Fits(buffer) == BufferSize - Len(buffer) > 1

\* The full buffer goes to buffers_.
PushCurrent_Overwritten == UNCHANGED buffers
PushCurrent == buffers' = Append(buffers, currentBuffer)

\* A line that does not fit goes to nextBuffer_, or to a new buffer if there is
\* none.
AppendLine ==
    /\ count < MaxLines
    /\ count' = count + 1
    /\ IF Fits(currentBuffer)
       THEN /\ currentBuffer' = Append(currentBuffer, count')
            /\ UNCHANGED <<nextBuffer, buffers>>
       ELSE /\ PushCurrent
            /\ nextBuffer' = nullptr
            /\ currentBuffer' = <<count'>>
    /\ UNCHANGED <<owner, running, pc, locals, file>>

\* Start: the thread is created, and the owner waits for it.
Start ==
    /\ owner = "new"
    /\ owner' = "starting"
    /\ running' = TRUE
    /\ pc' = "begin"
    /\ UNCHANGED <<count, shared, locals, file>>

Started ==
    /\ owner = "starting" /\ pc # "begin"
    /\ owner' = "started"
    /\ UNCHANGED <<running, count, shared, pc, locals, file>>

\* Stop: the flag, then the join.
Stop_FlagKept ==
    /\ owner = "started"
    /\ owner' = "joining"
    /\ UNCHANGED <<running, count, shared, pc, locals, file>>
Stop ==
    /\ owner = "started"
    /\ owner' = "joining"
    /\ running' = FALSE
    /\ UNCHANGED <<count, shared, pc, locals, file>>

Joined ==
    /\ owner = "joining" /\ pc = "exited"
    /\ owner' = "stopped"
    /\ UNCHANGED <<running, count, shared, pc, locals, file>>

-----------------------------------------------------------------------------
(* The backend: ThreadFunc.                                                *)

Flush == log' = Flushed(log)

\* AsyncLogging::Flush, from any thread.
FlushOutput ==
    /\ log # Flushed(log)
    /\ Flush
    /\ UNCHANGED <<owner, running, count, shared, pc, locals, dropped, failures>>

Begin ==
    /\ pc = "begin"
    /\ newBuffer1' = empty /\ newBuffer2' = empty
    /\ pc' = IF running THEN "loop" ELSE "aborted"
    /\ UNCHANGED <<owner, running, count, shared, buffersToWrite, next, file>>

\* The loop's condition and the assertions at its head.
Loop ==
    /\ pc = "loop"
    /\ IF running
       THEN /\ pc' = IF newBuffer1 = empty /\ newBuffer2 = empty
                        /\ buffersToWrite = <<>>
                     THEN "lock" ELSE "aborted"
            /\ UNCHANGED log
       ELSE pc' = "exited" /\ Flush
    /\ UNCHANGED <<owner, running, count, shared, locals, dropped, failures>>

\* The front end's buffers are taken, and replaced by the two spare ones.
Swap ==
    /\ buffersToWrite' = Append(buffers, currentBuffer)
    /\ buffers' = <<>>
    /\ currentBuffer' = newBuffer1
    /\ newBuffer1' = nullptr
    /\ IF nextBuffer = nullptr
       THEN nextBuffer' = newBuffer2 /\ newBuffer2' = nullptr
       ELSE UNCHANGED <<nextBuffer, newBuffer2>>
    /\ pc' = "drop"
    /\ UNCHANGED next

\* The block under the mutex: wait if no buffer is full, then swap.
Lock ==
    /\ pc = "lock"
    /\ IF buffers = <<>>
       THEN pc' = "wait" /\ UNCHANGED <<shared, locals>>
       ELSE Swap
    /\ UNCHANGED <<owner, running, count, file>>

\* However the wait ends, and whatever was appended during it, the buffers are
\* taken: neither buffers_ nor running_ is looked at again.
WaitForSeconds_ChecksRunning ==
    /\ pc = "wait"
    /\ IF running THEN Swap
                  ELSE pc' = "exited" /\ UNCHANGED <<shared, locals>>
    /\ UNCHANGED <<owner, running, count, file>>
WaitForSeconds ==
    /\ pc = "wait"
    /\ Swap
    /\ UNCHANGED <<owner, running, count, file>>

\* Too many buffers are cut to two, and the file gets a notice of it.
Drop(t) ==
    LET lost == UNION {Range(buffersToWrite[b]) : b \in 3..Len(buffersToWrite)}
    IN  /\ pc = "drop"
        /\ IF Len(buffersToWrite) > DropLimit
           THEN /\ dropped' = dropped \cup lost
                /\ buffersToWrite' = SubSeq(buffersToWrite, 1, 2)
                /\ log' = LogAppend(log, <<notice>>, t)
           ELSE UNCHANGED <<dropped, buffersToWrite, log>>
        /\ pc' = "write" /\ next' = 1
        /\ UNCHANGED <<owner, running, count, shared, newBuffer1, newBuffer2,
                       failures>>

\* A buffer is written; a write error loses the rest of it.
Write(n, t) ==
    LET data == buffersToWrite[next]
        rest == {data[i] : i \in (n + 1)..Len(data)}
    IN  /\ pc = "write" /\ next <= Len(buffersToWrite)
        /\ n \in 0..Len(data) /\ (n < Len(data) => failures < MaxFailures)
        /\ failures' = IF n < Len(data) THEN failures + 1 ELSE failures
        /\ dropped' = dropped \cup rest
        /\ log' = LogAppend(log, SubSeq(data, 1, n), t)
        /\ next' = next + 1
        /\ UNCHANGED <<owner, running, count, shared, pc, newBuffer1, newBuffer2,
                       buffersToWrite>>

Written ==
    /\ pc = "write" /\ next > Len(buffersToWrite)
    /\ pc' = "recycle" /\ next' = 0
    /\ UNCHANGED <<owner, running, count, shared, newBuffer1, newBuffer2,
                   buffersToWrite, file>>

\* How many of the written buffers the spare ones are refilled from.
Recyclable == 2

\* The spare buffers that were used are refilled from the written ones, which
\* the assertions say suffice, and the file is flushed.
Recycle ==
    LET needed == (IF newBuffer1 = nullptr THEN 1 ELSE 0)
                  + (IF newBuffer2 = nullptr THEN 1 ELSE 0)
        there == IF Len(buffersToWrite) > Recyclable THEN Recyclable
                                                     ELSE Len(buffersToWrite)
    IN  /\ pc = "recycle"
        /\ IF needed <= there
           THEN /\ newBuffer1' = empty /\ newBuffer2' = empty
                /\ buffersToWrite' = <<>>
                /\ Flush
                /\ pc' = "loop"
           ELSE pc' = "aborted" /\ UNCHANGED <<newBuffer1, newBuffer2, buffersToWrite, log>>
        /\ UNCHANGED <<owner, running, count, shared, next, dropped, failures>>

Backend ==
    \/ Begin \/ Loop \/ Lock \/ WaitForSeconds \/ Written \/ Recycle
    \/ \E t \in 1..MaxTime : Drop(t) \/ \E n \in 0..BufferSize : Write(n, t)

Terminated ==
    /\ owner = "stopped" /\ count = MaxLines
    /\ UNCHANGED vars

Next ==
    \/ AppendLine \/ FlushOutput
    \/ Start \/ Started \/ Stop \/ Joined
    \/ Backend
    \/ Terminated

Spec == Init /\ [][Next]_vars

\* The backend thread is scheduled, its timed waits end, and the owner returns
\* from its waits.
FairSpec == Spec /\ WF_vars(Backend) /\ WF_vars(Started) /\ WF_vars(Joined)

-----------------------------------------------------------------------------
(* Properties.                                                             *)

\* The buffers the backend holds and has not written.
InFlight ==
    IF pc = "drop" THEN buffersToWrite
    ELSE IF pc = "write" THEN SubSeq(buffersToWrite, next, Len(buffersToWrite))
    ELSE <<>>

\* The lines of files or buffers are in order: each is followed by larger ones
\* only, in its own file or buffer and in later ones.
InOrder(blocks) ==
    \A b, c \in DOMAIN blocks : \A i \in DOMAIN blocks[b], j \in DOMAIN blocks[c] :
        (b < c \/ (b = c /\ i < j)) /\ notice \notin {blocks[b][i], blocks[c][j]}
            => blocks[b][i] < blocks[c][j]

\* Whatever the threads do, the files, the buffers the backend took, the full
\* buffers and the current one hold, in this order, every line that was appended
\* and not dropped, once and in order.
NothingLost ==
    LET blocks == FileLines(log) \o InFlight \o buffers \o <<currentBuffer>>
    IN  LinesIn(blocks) = (1..count) \ dropped /\ InOrder(blocks)

\* RollFile never opens the file of another second again, wherever the clock is
\* set: no two files of a LogFile have one name.
FileNamesDiffer ==
    \A i, j \in DOMAIN log.files : i < j => log.files[i].opened < log.files[j].opened

\* A file stays beyond its size only when that happened in the second it was
\* opened in, or while the clock was set back: the next append rolls it.
OversizeIsTransient ==
    \A i \in DOMAIN log.files :
        i = Len(log.files) /\ Len(log.files[i].lines) > RollSize
            => log.files[i].last <= log.files[i].opened

\* ThreadFunc's assertions hold: the spare buffers are there and empty at the
\* head of its loop, and the written buffers suffice to refill them.
BackendAssertions == pc # "aborted"

\* The line is in the file and flushed, or was dropped.
Settled(i) == i \in dropped \cup log.flushed

\* While the logger runs, a line that was appended is flushed to the file or
\* dropped, even if its buffer never fills up.
LinesReachFile ==
    \A i \in 1..MaxLines : (running /\ count >= i) ~> (Settled(i) \/ ~running)

\* What was appended when ThreadFunc is in, or about to enter, its critical
\* section reaches the file even if Stop comes at once: at a shutdown only lines
\* appended after the last swap are lost.
StopLosesOnlyTheLast ==
    \A i \in 1..MaxLines :
       (pc \in {"lock", "wait"} /\ count >= i) ~> Settled(i)

\* Stop returns: the backend leaves its loop and can be joined.
StopReturns == (owner = "joining") ~> (owner = "stopped")
=============================================================================
