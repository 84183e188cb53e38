--------------------------- MODULE LoggingProofs ---------------------------
(***************************************************************************)
(* Theorems about AsyncLogging, for any sizes of buffers and files and any *)
(* number of lines: the assertions of ThreadFunc hold, no line is lost, no *)
(* two files of a LogFile have one name, and a large one is rolled.        *)
(***************************************************************************)
EXTENDS AsyncLogging, SequenceTheorems, TLAPS

-----------------------------------------------------------------------------
(* ThreadFunc's assertions.                                                *)

\* Where the spare buffers are: with the backend at the head of its loop; after
\* the swap the first is in use, and the second only if the front end had used
\* its own, in which case at least two buffers were taken.
SpareBuffers ==
    /\ running \in BOOLEAN
    /\ buffers \in Seq(Seq(Nat)) /\ buffersToWrite \in Seq(Seq(Nat))
    /\ currentBuffer \in Seq(Nat) /\ nextBuffer \in {nullptr, empty} /\ count \in Nat
    /\ newBuffer1 \in {nullptr, empty} /\ newBuffer2 \in {nullptr, empty}
    /\ pc = "none" => owner = "new" /\ buffersToWrite = <<>>
    /\ pc = "begin" => owner = "starting" /\ running = TRUE /\ buffersToWrite = <<>>
    /\ owner = "new" => pc = "none"
    /\ nextBuffer = nullptr => Len(buffers) >= 1
    /\ pc \in {"loop", "lock", "wait"} =>
          newBuffer1 = empty /\ newBuffer2 = empty /\ buffersToWrite = <<>>
    /\ pc \in {"drop", "write", "recycle"} =>
          /\ Len(buffersToWrite) >= 1
          /\ newBuffer2 = nullptr => Len(buffersToWrite) >= 2
    /\ pc = "write" => next \in Nat \ {0}
    /\ pc # "aborted"

\* The null pointer is no empty buffer.
LEMMA NullIsNotEmpty == nullptr # empty /\ empty \in Seq(Nat) /\ nullptr \in Seq(Nat)
BY DEF nullptr, empty

\* AppendLine keeps the front end's spare buffer accounted for.
LEMMA AppendStep ==
    ASSUME SpareBuffers, AppendLine
    PROVE  SpareBuffers'
<1>1. count' \in Nat /\ <<count'>> \in Seq(Nat)
  BY DEF AppendLine, SpareBuffers
<1>2. CASE Fits(currentBuffer)
  <2>1. Append(currentBuffer, count') \in Seq(Nat)
    BY <1>1, AppendProperties DEF SpareBuffers
  <2> QED
    BY <1>1, <1>2, <2>1, Zenon DEF AppendLine, SpareBuffers, locals
<1>3. CASE ~Fits(currentBuffer)
  <2>1. /\ Append(buffers, currentBuffer) \in Seq(Seq(Nat))
        /\ Len(Append(buffers, currentBuffer)) = Len(buffers) + 1
        /\ Len(buffers) \in Nat
    BY AppendProperties, LenProperties DEF SpareBuffers
  <2>2. /\ buffers' = Append(buffers, currentBuffer) /\ nextBuffer' = nullptr
        /\ currentBuffer' = <<count'>>
        /\ UNCHANGED <<owner, running, pc, newBuffer1, newBuffer2, buffersToWrite, next>>
    BY <1>3 DEF AppendLine, PushCurrent, locals
  <2>3. buffers' \in Seq(Seq(Nat)) /\ Len(buffers') >= 1
    BY <2>1, <2>2
  <2> QED
    BY <1>1, <2>2, <2>3 DEF SpareBuffers
<1> QED
  BY <1>2, <1>3

\* The swap of Lock and of WaitForSeconds hands out the backend's spare buffers.
LEMMA SwapStep ==
    ASSUME SpareBuffers, pc \in {"lock", "wait"}, Swap, UNCHANGED <<owner, running, count>>
    PROVE  SpareBuffers'
<1>1. /\ Append(buffers, currentBuffer) \in Seq(Seq(Nat))
      /\ Len(Append(buffers, currentBuffer)) = Len(buffers) + 1
      /\ Len(buffers) \in Nat /\ <<>> \in Seq(Seq(Nat))
  BY AppendProperties, LenProperties DEF SpareBuffers
<1> QED
  BY <1>1, NullIsNotEmpty DEF Swap, SpareBuffers

\* The cut of Drop leaves two buffers.
LEMMA DropStep ==
    ASSUME SpareBuffers, NEW t, Drop(t)
    PROVE  SpareBuffers'
<1>1. CASE Len(buffersToWrite) > DropLimit
  <2>1. 2 <= Len(buffersToWrite) /\ Len(buffersToWrite) \in Nat
    BY <1>1, LoggingAssumption, LenProperties DEF SpareBuffers
  <2>2. /\ SubSeq(buffersToWrite, 1, 2) \in Seq(Seq(Nat))
        /\ Len(SubSeq(buffersToWrite, 1, 2)) = 2
    BY <2>1, SubSeqProperties DEF SpareBuffers
  <2>3. /\ buffersToWrite' = SubSeq(buffersToWrite, 1, 2) /\ pc' = "write" /\ next' = 1
        /\ UNCHANGED <<owner, running, count, currentBuffer, nextBuffer, buffers,
                       newBuffer1, newBuffer2>>
    BY <1>1 DEF Drop, shared
  <2>4. buffersToWrite' \in Seq(Seq(Nat)) /\ Len(buffersToWrite') = 2 /\ pc = "drop"
    BY <2>2, <2>3 DEF Drop
  <2> QED
    BY <2>3, <2>4 DEF SpareBuffers
<1>2. CASE ~(Len(buffersToWrite) > DropLimit)
  BY <1>2 DEF Drop, SpareBuffers, shared
<1> QED
  BY <1>1, <1>2

\* Every step keeps the spare buffers accounted for.
LEMMA SpareStep ==
    ASSUME SpareBuffers, [Next]_vars
    PROVE  SpareBuffers'
<1>1. CASE AppendLine
  BY <1>1, AppendStep
<1>2. CASE FlushOutput
  BY <1>2 DEF FlushOutput, SpareBuffers, shared, locals
<1>3. CASE Start \/ Started \/ Stop \/ Joined
  BY <1>3, Zenon DEF Start, Started, Stop, Joined, SpareBuffers, shared, locals
<1>4. CASE Begin
  BY <1>4 DEF Begin, SpareBuffers, shared
<1>5. CASE Loop
  BY <1>5 DEF Loop, SpareBuffers, shared, locals
<1>6. CASE Lock
  <2>1. CASE buffers = <<>>
    BY <1>6, <2>1 DEF Lock, SpareBuffers, shared, locals
  <2>2. CASE buffers # <<>>
    BY <1>6, <2>2, SwapStep DEF Lock
  <2> QED
    BY <2>1, <2>2
<1>7. CASE WaitForSeconds
  BY <1>7, SwapStep DEF WaitForSeconds
<1>8. CASE \E t \in 1..MaxTime : Drop(t)
  BY <1>8, DropStep
<1>9. CASE \E t \in 1..MaxTime : \E n \in 0..BufferSize : Write(n, t)
  BY <1>9 DEF Write, SpareBuffers, shared
<1>10. CASE Written
  BY <1>10 DEF Written, SpareBuffers, shared
<1>11. CASE Recycle
  <2> DEFINE needed == (IF newBuffer1 = nullptr THEN 1 ELSE 0)
                       + (IF newBuffer2 = nullptr THEN 1 ELSE 0)
             there == IF Len(buffersToWrite) > 2 THEN 2 ELSE Len(buffersToWrite)
  <2>1. Len(buffersToWrite) \in Nat /\ Len(buffersToWrite) >= 1
    BY <1>11, LenProperties DEF Recycle, SpareBuffers
  <2>2. newBuffer2 = nullptr => Len(buffersToWrite) >= 2
    BY <1>11 DEF Recycle, SpareBuffers
  <2>3. needed <= there
    BY <2>1, <2>2
  <2>4. /\ newBuffer1' = empty /\ newBuffer2' = empty /\ buffersToWrite' = <<>>
        /\ pc' = "loop"
        /\ UNCHANGED <<owner, running, count, currentBuffer, nextBuffer, buffers>>
    BY <1>11, <2>3 DEF Recycle, Recyclable, shared
  <2>5. <<>> \in Seq(Seq(Nat)) /\ pc = "recycle"
    BY <1>11 DEF Recycle
  <2> QED
    BY <2>4, <2>5 DEF SpareBuffers
<1>12. CASE Terminated \/ UNCHANGED vars
  BY <1>12 DEF Terminated, SpareBuffers, vars, shared, locals
<1> QED
  BY <1>1, <1>2, <1>3, <1>4, <1>5, <1>6, <1>7, <1>8, <1>9, <1>10, <1>11, <1>12
     DEF Next, Backend

\* The spare buffers are accounted for at the start and stay so.
LEMMA SpareAlways == Spec => []SpareBuffers
<1>1. Init => SpareBuffers
  <2> SUFFICES ASSUME Init PROVE SpareBuffers
    OBVIOUS
  <2>1. <<>> \in Seq(Nat) /\ <<>> \in Seq(Seq(Nat))
    BY EmptySeq
  <2>2. running \in BOOLEAN
    BY Zenon DEF Init
  <2> QED
    BY <2>1, <2>2, NullIsNotEmpty DEF Init, SpareBuffers, empty
<1>2. SpareBuffers /\ [Next]_vars => SpareBuffers'
  BY SpareStep
<1> QED
  BY <1>1, <1>2, PTL DEF Spec

\* The assertions of ThreadFunc hold, whenever lines are appended, the wait
\* ends and Stop is called: the spare buffers are empty and there at the head of
\* the loop, and the buffers that were written suffice to refill them.
THEOREM AssertionsOfThreadFunc == Spec => []BackendAssertions
<1>1. SpareBuffers => BackendAssertions
  BY DEF SpareBuffers, BackendAssertions
<1> QED
  BY <1>1, SpareAlways, PTL

-----------------------------------------------------------------------------
(* The files: their names, and their sizes.                                *)

File == [opened : Nat, last : Nat, lines : Seq(Nat)]

\* The LogFile f is a record, and has a file.
IsLog(f) ==
    /\ f = [files |-> f.files, count |-> f.count, lastFlush |-> f.lastFlush,
            flushed |-> f.flushed]
    /\ f.files \in Seq(File) /\ f.files # <<>>

\* FileNamesDiffer for one LogFile.
NamesDiffer(f) ==
    \A i, j \in DOMAIN f.files : i < j => f.files[i].opened < f.files[j].opened

\* A flush changes no file.
LEMMA FlushedFiles ==
    ASSUME NEW f, IsLog(f)
    PROVE  IsLog(Flushed(f)) /\ Flushed(f).files = f.files
BY DEF IsLog, Flushed

\* Nor does the time of the last flush.
LEMMA LastFlushFiles ==
    ASSUME NEW f, IsLog(f), NEW t
    PROVE  /\ IsLog([f EXCEPT !.lastFlush = t])
           /\ [f EXCEPT !.lastFlush = t].files = f.files
BY DEF IsLog

\* Nor does the count of appends.
LEMMA CountFiles ==
    ASSUME NEW f, IsLog(f), NEW n
    PROVE  IsLog([f EXCEPT !.count = n]) /\ [f EXCEPT !.count = n].files = f.files
BY DEF IsLog

\* RollFile opens a file only in a second after the newest file's.
LEMMA RollFileNames ==
    ASSUME NEW f, IsLog(f), NamesDiffer(f), NEW t \in Nat
    PROVE  IsLog(RollFile(f, t)) /\ NamesDiffer(RollFile(f, t))
<1>1. CASE ~(t > Newest(f).opened)
  BY <1>1 DEF RollFile
<1>2. CASE t > Newest(f).opened
  <2> DEFINE new == [opened |-> t, last |-> t, lines |-> <<>>]
             g == RollFile(f, t)
  <2>1. IsLog(Flushed(f)) /\ Flushed(f).files = f.files
    BY FlushedFiles
  <2>2. g = [Flushed(f) EXCEPT !.files = Append(f.files, new), !.lastFlush = t]
    BY <1>2, <2>1 DEF RollFile
  <2>3. /\ g.files = Append(f.files, new)
        /\ g = [files |-> g.files, count |-> g.count, lastFlush |-> g.lastFlush,
                flushed |-> g.flushed]
    BY <2>1, <2>2, Zenon DEF IsLog
  <2>4. new \in File
    BY DEF File
  <2>5. f.files \in Seq(File) /\ Len(f.files) \in Nat \ {0}
    BY EmptySeq, LenProperties DEF IsLog
  <2>6. /\ g.files \in Seq(File) /\ Len(g.files) = Len(f.files) + 1
        /\ \A i \in 1..Len(f.files) : g.files[i] = f.files[i]
        /\ g.files[Len(f.files) + 1] = new
    BY <2>3, <2>4, <2>5, AppendProperties
  <2>7. IsLog(g)
    BY <2>3, <2>5, <2>6, EmptySeq DEF IsLog
  <2>8. /\ f.files[Len(f.files)].opened < t
        /\ \A i \in 1..Len(f.files) : f.files[i].opened \in Nat
    <3>1. \A i \in 1..Len(f.files) : f.files[i] \in File
      BY <2>5, ElementOfSeq
    <3>2. \A i \in 1..Len(f.files) : f.files[i].opened \in Nat
      BY <3>1 DEF File
    <3>3. t > f.files[Len(f.files)].opened
      BY <1>2 DEF Newest
    <3> QED
      BY <3>2, <3>3, <2>5
  <2>9. \A i \in 1..Len(f.files) : f.files[i].opened < t
    BY <2>5, <2>8 DEF NamesDiffer
  <2>10. DOMAIN g.files = 1..(Len(f.files) + 1) /\ DOMAIN f.files = 1..Len(f.files)
    BY <2>5, <2>6, LenProperties
  <2>11. \A i, j \in DOMAIN g.files : i < j => g.files[i].opened < g.files[j].opened
    <3>1. PICK n \in Nat : n = Len(f.files)
      BY <2>5
    <3>2. \A i \in 1..n : g.files[i].opened = f.files[i].opened /\ f.files[i].opened < t
      BY <2>6, <2>9, <3>1
    <3>3. g.files[n + 1].opened = t
      BY <2>6, <3>1
    <3>4. \A i, j \in 1..n : i < j => f.files[i].opened < f.files[j].opened
      BY <2>10, <3>1 DEF NamesDiffer
    <3> HIDE DEF g
    <3>5. ASSUME NEW i \in 1..(n + 1), NEW j \in 1..(n + 1), i < j
          PROVE  g.files[i].opened < g.files[j].opened
      <4>1. i \in 1..n /\ (j \in 1..n \/ j = n + 1)
        BY <3>5
      <4> QED
        BY <3>2, <3>3, <3>4, <3>5, <4>1
    <3> QED
      BY <2>10, <3>1, <3>5
  <2> HIDE DEF g
  <2>12. NamesDiffer(g)
    BY <2>11 DEF NamesDiffer
  <2> QED
    BY <2>7, <2>12 DEF g
<1> QED
  BY <1>1, <1>2

\* What Append does to the newest file, before it looks whether to roll.
LEMMA WriteNames ==
    ASSUME NEW f, IsLog(f), NamesDiffer(f), NEW data \in Seq(Nat), NEW t \in Nat,
           NEW g, g = [f EXCEPT !.files[Len(f.files)].lines = @ \o data,
                                !.files[Len(f.files)].last = t]
    PROVE  IsLog(g) /\ NamesDiffer(g)
<1> DEFINE k == Len(f.files)
           new == [f.files[k] EXCEPT !.lines = @ \o data, !.last = t]
<1>1. f.files \in Seq(File) /\ k \in Nat \ {0} /\ DOMAIN f.files = 1..k
  BY EmptySeq, LenProperties DEF IsLog
<1>2. f.files[k] \in File
  BY <1>1
<1>3. f.files[k].lines \o data \in Seq(Nat)
  BY <1>2, ConcatProperties DEF File
<1>4. new \in File /\ new.opened = f.files[k].opened
  BY <1>2, <1>3, Zenon DEF File
<1>5. g = [f EXCEPT !.files = [f.files EXCEPT ![k] = new]]
  BY <1>1, <1>2, Zenon DEF IsLog, File
<1> HIDE DEF new
<1>6. /\ g.files = [f.files EXCEPT ![k] = new]
      /\ g = [files |-> g.files, count |-> g.count, lastFlush |-> g.lastFlush,
              flushed |-> g.flushed]
  BY <1>5, Zenon DEF IsLog
<1>7. /\ g.files \in Seq(File) /\ DOMAIN g.files = 1..k
      /\ \A i \in 1..k : g.files[i].opened = f.files[i].opened
  <2>1. k \in 1..k /\ k \in 1..Len(f.files)
    BY <1>1
  <2>2. /\ g.files \in Seq(File) /\ Len(g.files) = Len(f.files)
        /\ \A i \in 1..Len(f.files) : g.files[i] = IF i = k THEN new ELSE f.files[i]
    <3>1. f.files \in Seq(File) /\ new \in File
      BY <1>1, <1>4
    <3> HIDE DEF k
    <3>2. LET h == [f.files EXCEPT ![k] = new]
          IN  /\ h \in Seq(File) /\ Len(h) = Len(f.files)
              /\ \A i \in 1..Len(f.files) : h[i] = IF i = k THEN new ELSE f.files[i]
      BY <2>1, <3>1, ExceptSeq
    <3> QED
      BY <3>2, <1>6, Zenon
  <2>3. DOMAIN g.files = 1..k
    BY <2>2, LenProperties, Zenon
  <2> QED
    BY <1>4, <2>2, <2>3, Zenon
<1>8. IsLog(g)
  <2>1. g.files # <<>>
    BY <1>1, <1>7, EmptySeq, LenProperties
  <2> QED
    BY <1>6, <1>7, <2>1, Zenon DEF IsLog
<1>9. NamesDiffer(g)
  BY <1>1, <1>7, Zenon DEF NamesDiffer
<1> QED
  BY <1>8, <1>9

\* LogFile::Append keeps the names different, wherever the clock is set.
LEMMA LogAppendNames ==
    ASSUME NEW f, IsLog(f), NamesDiffer(f), NEW data \in Seq(Nat), NEW t \in Nat
    PROVE  IsLog(LogAppend(f, data, t)) /\ NamesDiffer(LogAppend(f, data, t))
<1> DEFINE g == [f EXCEPT !.files[Len(f.files)].lines = @ \o data,
                          !.files[Len(f.files)].last = t]
           h == [g EXCEPT !.count = 0]
           c == [g EXCEPT !.count = @ + 1]
           l == [h EXCEPT !.lastFlush = t]
<1>1. IsLog(g) /\ NamesDiffer(g)
  BY WriteNames, Zenon
<1>2. \/ LogAppend(f, data, t) = RollFile(g, t)
      \/ LogAppend(f, data, t) = c
      \/ LogAppend(f, data, t) = RollFile(h, t)
      \/ LogAppend(f, data, t) = Flushed(l)
      \/ LogAppend(f, data, t) = h
  BY Zenon DEF LogAppend
<1> HIDE DEF g
<1>3. IsLog(h) /\ h.files = g.files /\ IsLog(c) /\ c.files = g.files
  BY <1>1 DEF IsLog
<1> HIDE DEF h, c
<1>4. IsLog(l) /\ l.files = g.files
  BY <1>3, LastFlushFiles, Zenon
<1> HIDE DEF l
<1>5. NamesDiffer(h) /\ NamesDiffer(c) /\ NamesDiffer(l)
  BY <1>1, <1>3, <1>4 DEF NamesDiffer
<1>6. IsLog(Flushed(l)) /\ Flushed(l).files = l.files
  BY <1>4, FlushedFiles
<1>7. NamesDiffer(Flushed(l))
  BY <1>5, <1>6 DEF NamesDiffer
<1>8. IsLog(RollFile(g, t)) /\ NamesDiffer(RollFile(g, t))
  BY <1>1, RollFileNames
<1>9. IsLog(RollFile(h, t)) /\ NamesDiffer(RollFile(h, t))
  BY <1>3, <1>5, RollFileNames
<1> QED
  BY <1>2, <1>3, <1>5, <1>6, <1>7, <1>8, <1>9

\* What a step does to the LogFile.
LEMMA LogCases ==
    ASSUME SpareBuffers, [Next]_vars
    PROVE  \/ log' = log
           \/ log' = Flushed(log)
           \/ \E t \in Nat, data \in Seq(Nat) : log' = LogAppend(log, data, t)
<1>1. CASE AppendLine \/ Start \/ Started \/ Stop \/ Joined
  BY <1>1 DEF AppendLine, Start, Started, Stop, Joined, file
<1>2. CASE FlushOutput
  BY <1>2 DEF FlushOutput, Flush
<1>3. CASE Begin \/ Lock \/ WaitForSeconds \/ Written
  BY <1>3 DEF Begin, Lock, WaitForSeconds, Written, file
<1>4. CASE Loop \/ Recycle
  BY <1>4 DEF Loop, Recycle, Flush
<1>5. ASSUME NEW t \in 1..MaxTime, Drop(t)
      PROVE  log' = log \/ \E s \in Nat, data \in Seq(Nat) : log' = LogAppend(log, data, s)
  <2>1. <<notice>> \in Seq(Nat) /\ t \in Nat
    BY LoggingAssumption DEF notice
  <2>2. log' = LogAppend(log, <<notice>>, t) \/ log' = log
    BY <1>5 DEF Drop
  <2> QED
    BY <2>1, <2>2, Zenon
<1>6. ASSUME NEW t \in 1..MaxTime, NEW n \in 0..BufferSize, Write(n, t)
      PROVE  \E s \in Nat, data \in Seq(Nat) : log' = LogAppend(log, data, s)
  <2> DEFINE data == buffersToWrite[next]
  <2>1. next \in 1..Len(buffersToWrite) /\ t \in Nat
    BY <1>6, LenProperties, LoggingAssumption DEF Write, SpareBuffers
  <2>2. data \in Seq(Nat)
    BY <2>1, ElementOfSeq DEF SpareBuffers
  <2>3. n \in 0..Len(data) /\ log' = LogAppend(log, SubSeq(data, 1, n), t)
    BY <1>6 DEF Write
  <2> HIDE DEF data
  <2>4. SubSeq(data, 1, n) \in Seq(Nat)
    BY <2>2, <2>3, LenProperties, SubSeqProperties
  <2> QED
    BY <2>1, <2>3, <2>4, Zenon
<1>7. CASE Terminated \/ UNCHANGED vars
  BY <1>7 DEF Terminated, vars, file
<1> QED
  BY <1>1, <1>2, <1>3, <1>4, <1>5, <1>6, <1>7 DEF Next, Backend

\* Every step keeps the names different.
LEMMA NamesStep ==
    ASSUME SpareBuffers, IsLog(log), NamesDiffer(log), [Next]_vars
    PROVE  IsLog(log') /\ NamesDiffer(log')
<1>1. CASE log' = log
  BY <1>1
<1>2. CASE log' = Flushed(log)
  <2>1. IsLog(Flushed(log)) /\ Flushed(log).files = log.files
    BY FlushedFiles
  <2>2. NamesDiffer(Flushed(log))
    BY <2>1 DEF NamesDiffer
  <2> QED
    BY <1>2, <2>1, <2>2
<1>3. ASSUME NEW t \in Nat, NEW data \in Seq(Nat), log' = LogAppend(log, data, t)
      PROVE  IsLog(log') /\ NamesDiffer(log')
  BY <1>3, LogAppendNames
<1> QED
  BY <1>1, <1>2, <1>3, LogCases

\* g is f with data behind the lines of the newest file, and t in it.
Extends(f, g, data, t) ==
    LET k == Len(f.files)
    IN  /\ Len(g.files) = k
        /\ \A i \in 1..(k - 1) : g.files[i] = f.files[i]
        /\ g.files[k].lines = f.files[k].lines \o data
        /\ g.files[k].last = t
        /\ g.files[k].opened = f.files[k].opened

\* What Append does to the files before it looks whether to roll.
LEMMA WriteFiles ==
    ASSUME NEW f, IsLog(f), NEW data, NEW t,
           NEW g, g = [f EXCEPT !.files[Len(f.files)].lines = @ \o data,
                                !.files[Len(f.files)].last = t]
    PROVE  Extends(f, g, data, t)
<1> DEFINE k == Len(f.files)
           new == [f.files[k] EXCEPT !.lines = @ \o data, !.last = t]
<1>1. f.files \in Seq(File) /\ k \in Nat \ {0} /\ DOMAIN f.files = 1..k
  BY EmptySeq, LenProperties DEF IsLog
<1>2. f.files[k] \in File
  BY <1>1
<1>3. /\ new.opened = f.files[k].opened /\ new.lines = f.files[k].lines \o data
      /\ new.last = t
  BY <1>2 DEF File
<1>4. g = [f EXCEPT !.files = [f.files EXCEPT ![k] = new]]
  BY <1>1, <1>2, Zenon DEF IsLog, File
<1> HIDE DEF new
<1>5. g.files = [f.files EXCEPT ![k] = new]
  BY <1>4, Zenon DEF IsLog
<1>6. Len(g.files) = Len(f.files)
  <2>1. DOMAIN g.files = 1..k
    BY <1>1, <1>5
  <2> QED
    BY <1>1, <2>1
<1>7. \A i \in 1..k : g.files[i] = IF i = k THEN new ELSE f.files[i]
  <2> HIDE DEF k
  <2> QED
    BY <1>1, <1>5, Zenon
<1>8. k \in 1..k /\ \A i \in 1..(k - 1) : i \in 1..k /\ i # k
  <2> HIDE DEF k
  <2> QED
    BY <1>1
<1> QED
  BY <1>3, <1>6, <1>7, <1>8, Zenon DEF Extends

\* OversizeIsTransient for one LogFile.
Transient(f) ==
    LET newest == f.files[Len(f.files)]
    IN  Len(newest.lines) > RollSize => newest.last <= newest.opened

\* RollFile leaves a file as it is only in the second of its name or before.
LEMMA RollFileTransient ==
    ASSUME NEW f, IsLog(f), NEW t \in Nat, f.files[Len(f.files)].last = t
    PROVE  Transient(RollFile(f, t))
<1>1. CASE ~(t > Newest(f).opened)
  <2>1. RollFile(f, t) = f /\ ~(t > f.files[Len(f.files)].opened)
    BY <1>1 DEF RollFile, Newest
  <2>2. f.files[Len(f.files)].opened \in Nat
    <3>1. Len(f.files) \in 1..Len(f.files) /\ f.files \in Seq(File)
      BY EmptySeq, LenProperties DEF IsLog
    <3>2. f.files[Len(f.files)] \in File
      BY <3>1, ElementOfSeq
    <3> QED
      BY <3>2 DEF File
  <2> QED
    BY <2>1, <2>2 DEF Transient
<1>2. CASE t > Newest(f).opened
  <2> DEFINE new == [opened |-> t, last |-> t, lines |-> <<>>]
             g == RollFile(f, t)
  <2>1. IsLog(Flushed(f)) /\ Flushed(f).files = f.files
    BY FlushedFiles
  <2>2. g = [Flushed(f) EXCEPT !.files = Append(f.files, new), !.lastFlush = t]
    BY <1>2, <2>1 DEF RollFile
  <2>3. g.files = Append(f.files, new)
    BY <2>1, <2>2 DEF IsLog
  <2>4. new \in File /\ f.files \in Seq(File)
    BY DEF File, IsLog
  <2>5. g.files[Len(g.files)] = new
    BY <2>3, <2>4, AppendProperties
  <2>6. Len(new.lines) = 0 /\ ~(0 > RollSize)
    BY LoggingAssumption
  <2> HIDE DEF g, new
  <2>7. Transient(g)
    BY <2>5, <2>6 DEF Transient
  <2> QED
    BY <2>7 DEF g
<1> QED
  BY <1>1, <1>2

\* LogFile::Append leaves no large file behind, but for those.
LEMMA LogAppendTransient ==
    ASSUME NEW f, IsLog(f), NamesDiffer(f), NEW data \in Seq(Nat), NEW t \in Nat
    PROVE  Transient(LogAppend(f, data, t))
<1> DEFINE g == [f EXCEPT !.files[Len(f.files)].lines = @ \o data,
                          !.files[Len(f.files)].last = t]
           h == [g EXCEPT !.count = 0]
           c == [g EXCEPT !.count = @ + 1]
           l == [h EXCEPT !.lastFlush = t]
           small == ~(Len(Newest(g).lines) > RollSize)
<1>1. IsLog(g)
  BY WriteNames, Zenon
<1>2. \/ LogAppend(f, data, t) = RollFile(g, t)
      \/ small /\ LogAppend(f, data, t) = c
      \/ LogAppend(f, data, t) = RollFile(h, t)
      \/ small /\ LogAppend(f, data, t) = Flushed(l)
      \/ small /\ LogAppend(f, data, t) = h
  BY Zenon DEF LogAppend
<1>3. g.files[Len(g.files)].last = t
  <2>1. Extends(f, g, data, t)
    BY WriteFiles, Zenon
  <2> HIDE DEF g
  <2> QED
    BY <2>1, Zenon DEF Extends
<1>4. small <=> ~(Len(g.files[Len(g.files)].lines) > RollSize)
  BY DEF Newest
<1> HIDE DEF g, small
<1>5. IsLog(h) /\ h.files = g.files /\ IsLog(c) /\ c.files = g.files
  BY <1>1, CountFiles, Zenon
<1> HIDE DEF h, c
<1>6. IsLog(l) /\ l.files = g.files
  BY <1>5, LastFlushFiles, Zenon
<1> HIDE DEF l
<1>7. Flushed(l).files = g.files
  BY <1>6, FlushedFiles
<1>8. Transient(RollFile(g, t)) /\ Transient(RollFile(h, t))
  BY <1>1, <1>3, <1>5, RollFileTransient
<1>9. small => Transient(c) /\ Transient(Flushed(l)) /\ Transient(h)
  BY <1>4, <1>5, <1>7 DEF Transient
<1> QED
  BY <1>2, <1>8, <1>9

-----------------------------------------------------------------------------
(* The order of lines.                                                     *)

\* Every line of S was appended before every line of U.
Below(S, U) == \A x \in S, y \in U : x < y

\* What LinesIn means for one line.
LEMMA LineIn ==
    ASSUME NEW X, NEW x
    PROVE  x \in LinesIn(X) <=> /\ x # notice
                                /\ \E b \in DOMAIN X : \E i \in DOMAIN X[b] : x = X[b][i]
<1>1. \A b : x \in Range(X[b]) <=> \E i \in DOMAIN X[b] : x = X[b][i]
  BY DEF Range
<1>2. x \in UNION {Range(X[b]) : b \in DOMAIN X} <=> \E b \in DOMAIN X : x \in Range(X[b])
  OBVIOUS
<1> QED
  BY <1>1, <1>2 DEF LinesIn

\* No buffer, and an empty buffer, have no lines.
LEMMA NoBlocks ==
    /\ InOrder(<<>>) /\ LinesIn(<<>>) = {}
    /\ InOrder(<< <<>> >>) /\ LinesIn(<< <<>> >>) = {}
BY DEF InOrder, LinesIn, Range

\* The lines of one buffer.
LEMMA LineInOne ==
    ASSUME NEW s
    PROVE  \A x : x \in LinesIn(<<s>>) <=> x # notice /\ \E i \in DOMAIN s : x = s[i]
<1> DEFINE X == <<s>>
<1>1. DOMAIN X = {1} /\ X[1] = s
  OBVIOUS
<1> HIDE DEF X
<1>2. \A x : x \in LinesIn(X) <=> x # notice /\ \E i \in DOMAIN s : x = s[i]
  BY <1>1, LineIn
<1> QED
  BY <1>2 DEF X

\* The order of one buffer.
LEMMA OneInOrder ==
    ASSUME NEW s
    PROVE  InOrder(<<s>>) <=>
              \A i, j \in DOMAIN s : i < j /\ notice \notin {s[i], s[j]} => s[i] < s[j]
<1> DEFINE X == <<s>>
<1>1. DOMAIN X = {1} /\ X[1] = s
  OBVIOUS
<1> HIDE DEF X
<1>2. InOrder(X) <=> \A i, j \in DOMAIN s : i < j /\ notice \notin {s[i], s[j]} => s[i] < s[j]
  BY <1>1 DEF InOrder
<1> QED
  BY <1>2 DEF X

\* A buffer with one line.
LEMMA OneLine ==
    ASSUME NEW k \in Nat \ {0}
    PROVE  InOrder(<< <<k>> >>) /\ LinesIn(<< <<k>> >>) = {k}
<1> DEFINE X == << <<k>> >>
<1>1. DOMAIN X = {1} /\ DOMAIN X[1] = {1} /\ X[1][1] = k
  OBVIOUS
<1> HIDE DEF X
<1>2. InOrder(X)
  BY <1>1 DEF InOrder
<1>3. \A x : x \in LinesIn(X) <=> x = k
  BY <1>1, LineIn DEF notice
<1> QED
  BY <1>2, <1>3 DEF X

\* Buffers behind buffers are in order exactly if both are, and all lines of the
\* first were appended before those of the second.
LEMMA ConcatInOrder ==
    ASSUME NEW X \in Seq(Seq(Nat)), NEW Y \in Seq(Seq(Nat))
    PROVE  /\ X \o Y \in Seq(Seq(Nat))
           /\ LinesIn(X \o Y) = LinesIn(X) \cup LinesIn(Y)
           /\ InOrder(X \o Y) <=> /\ InOrder(X) /\ InOrder(Y)
                                  /\ Below(LinesIn(X), LinesIn(Y))
<1> DEFINE Z == X \o Y
           m == Len(X)
           n == Len(Y)
<1>1. /\ m \in Nat /\ n \in Nat /\ DOMAIN X = 1..m /\ DOMAIN Y = 1..n
      /\ Z \in Seq(Seq(Nat)) /\ DOMAIN Z = 1..(m + n)
      /\ \A b \in 1..m : Z[b] = X[b]
      /\ \A b \in 1..n : Z[m + b] = Y[b]
  <2>1. /\ m \in Nat /\ n \in Nat /\ DOMAIN X = 1..m /\ DOMAIN Y = 1..n
    BY LenProperties
  <2>2. /\ Z \in Seq(Seq(Nat)) /\ Len(Z) = m + n
        /\ \A b \in 1..m + n : Z[b] = IF b <= m THEN X[b] ELSE Y[b - m]
    BY ConcatProperties
  <2>3. DOMAIN Z = 1..(m + n)
    BY <2>2, LenProperties
  <2> HIDE DEF Z, m, n
  <2> QED
    BY <2>1, <2>2, <2>3
<1> HIDE DEF Z, m, n
<1>2. \A b \in 1..(m + n) : b \in 1..m \/ \E c \in 1..n : b = m + c
  <2> TAKE b \in 1..(m + n)
  <2>1. b \in 1..m \/ (b - m \in 1..n /\ b = m + (b - m))
    BY <1>1
  <2> QED
    BY <2>1
<1>3. \A b \in 1..m : b \in DOMAIN Z
  BY <1>1
<1>4. \A b \in 1..n : m + b \in DOMAIN Z
  BY <1>1
<1>5. LinesIn(Z) = LinesIn(X) \cup LinesIn(Y)
  <2>1. ASSUME NEW x \in LinesIn(Z) PROVE x \in LinesIn(X) \cup LinesIn(Y)
    <3>1. PICK b \in 1..(m + n) : x # notice /\ \E i \in DOMAIN Z[b] : x = Z[b][i]
      BY <1>1, <2>1, LineIn
    <3>2. CASE b \in 1..m
      <4>1. b \in DOMAIN X /\ \E i \in DOMAIN X[b] : x = X[b][i]
        BY <1>1, <3>1, <3>2
      <4> QED
        BY <3>1, <4>1, LineIn
    <3>3. ASSUME NEW c \in 1..n, b = m + c PROVE x \in LinesIn(Y)
      <4>1. c \in DOMAIN Y /\ \E i \in DOMAIN Y[c] : x = Y[c][i]
        BY <1>1, <3>1, <3>3, Zenon
      <4> QED
        BY <3>1, <4>1, LineIn
    <3> QED
      BY <1>2, <3>2, <3>3
  <2>2. ASSUME NEW x \in LinesIn(X) PROVE x \in LinesIn(Z)
    <3>1. PICK b \in 1..m : x # notice /\ \E i \in DOMAIN X[b] : x = X[b][i]
      <4>1. x # notice /\ \E b \in DOMAIN X : \E i \in DOMAIN X[b] : x = X[b][i]
        BY LineIn
      <4> QED
        BY <1>1, <4>1
    <3>2. x # notice /\ \E i \in DOMAIN Z[b] : x = Z[b][i]
      BY <3>1, <1>1
    <3> QED
      BY <3>2, <1>3, LineIn
  <2>3. ASSUME NEW x \in LinesIn(Y) PROVE x \in LinesIn(Z)
    <3>1. PICK b \in 1..n : x # notice /\ \E i \in DOMAIN Y[b] : x = Y[b][i]
      <4>1. x # notice /\ \E b \in DOMAIN Y : \E i \in DOMAIN Y[b] : x = Y[b][i]
        BY LineIn
      <4> QED
        BY <1>1, <4>1
    <3>2. x # notice /\ \E i \in DOMAIN Z[m + b] : x = Z[m + b][i]
      BY <3>1, <1>1
    <3> QED
      BY <3>2, <1>4, LineIn
  <2> QED
    BY <2>1, <2>2, <2>3
<1>6. ASSUME InOrder(Z) PROVE InOrder(X) /\ InOrder(Y) /\ Below(LinesIn(X), LinesIn(Y))
  <2>1. InOrder(X)
    BY <1>1, <1>3, <1>6, Zenon DEF InOrder
  <2>2. InOrder(Y)
    <3> SUFFICES ASSUME NEW b \in 1..n, NEW c \in 1..n, NEW i \in DOMAIN Y[b], NEW j \in DOMAIN Y[c],
                        b < c \/ (b = c /\ i < j), notice \notin {Y[b][i], Y[c][j]}
                 PROVE  Y[b][i] < Y[c][j]
      BY <1>1, Zenon DEF InOrder
    <3>1. /\ m + b \in DOMAIN Z /\ m + c \in DOMAIN Z /\ Z[m + b] = Y[b] /\ Z[m + c] = Y[c]
          /\ m + b < m + c \/ (m + b = m + c /\ i < j)
      <4>1. b \in Nat /\ c \in Nat /\ m \in Nat
        BY <1>1
      <4>2. m + b < m + c \/ (m + b = m + c /\ i < j)
        BY <4>1
      <4>3. m + b \in DOMAIN Z /\ m + c \in DOMAIN Z /\ Z[m + b] = Y[b] /\ Z[m + c] = Y[c]
        BY <1>1, <1>4, Zenon
      <4> QED
        BY <4>2, <4>3, Zenon
    <3> QED
      BY <3>1, <1>6 DEF InOrder
  <2>3. ASSUME NEW x \in LinesIn(X), NEW y \in LinesIn(Y) PROVE x < y
    <3>1. PICK b \in 1..m : x # notice /\ \E i \in DOMAIN X[b] : x = X[b][i]
      <4>1. x # notice /\ \E b \in DOMAIN X : \E i \in DOMAIN X[b] : x = X[b][i]
        BY LineIn
      <4> QED
        BY <1>1, <4>1
    <3>2. PICK c \in 1..n : y # notice /\ \E j \in DOMAIN Y[c] : y = Y[c][j]
      <4>1. y # notice /\ \E c \in DOMAIN Y : \E j \in DOMAIN Y[c] : y = Y[c][j]
        BY LineIn
      <4> QED
        BY <1>1, <4>1
    <3>3. PICK i \in DOMAIN Z[b], j \in DOMAIN Z[m + c] : x = Z[b][i] /\ y = Z[m + c][j]
      BY <1>1, <3>1, <3>2
    <3>4. b \in DOMAIN Z /\ m + c \in DOMAIN Z
      BY <1>3, <1>4
    <3>5. b < m + c
      BY <1>1
    <3> QED
      BY <3>1, <3>2, <3>3, <3>4, <3>5, <1>6 DEF InOrder
  <2> QED
    BY <2>1, <2>2, <2>3 DEF Below
<1>7. ASSUME InOrder(X), InOrder(Y), Below(LinesIn(X), LinesIn(Y)) PROVE InOrder(Z)
  <2> SUFFICES ASSUME NEW b \in 1..(m + n), NEW c \in 1..(m + n), NEW i \in DOMAIN Z[b],
                      NEW j \in DOMAIN Z[c],
                      b < c \/ (b = c /\ i < j), notice \notin {Z[b][i], Z[c][j]}
               PROVE  Z[b][i] < Z[c][j]
    BY <1>1 DEF InOrder
  <2>1. CASE b \in 1..m /\ c \in 1..m
    <3>1. Z[b] = X[b] /\ Z[c] = X[c]
      BY <1>1, <2>1
    <3> QED
      BY <1>1, <1>7, <2>1, <3>1, Zenon DEF InOrder
  <2>2. ASSUME b \in 1..m, NEW d \in 1..n, c = m + d PROVE Z[b][i] < Z[c][j]
    <3>1. Z[b] = X[b] /\ Z[c] = Y[d]
      BY <1>1, <2>2
    <3>2. Z[b][i] \in LinesIn(X)
      BY <1>1, <2>2, <3>1, LineIn, Zenon
    <3>3. Z[c][j] \in LinesIn(Y)
      BY <1>1, <2>2, <3>1, LineIn, Zenon
    <3> QED
      BY <1>7, <3>2, <3>3 DEF Below
  <2>3. ASSUME c \in 1..m, NEW d \in 1..n, b = m + d PROVE FALSE
    BY <1>1, <2>3
  <2>4. ASSUME NEW d \in 1..n, b = m + d, NEW e \in 1..n, c = m + e PROVE Z[b][i] < Z[c][j]
    <3>1. Z[b] = Y[d] /\ Z[c] = Y[e]
      BY <1>1, <2>4, Zenon
    <3>2. d < e \/ (d = e /\ i < j)
      <4>1. m + d < m + e \/ (m + d = m + e /\ i < j)
        BY <2>4
      <4> QED
        BY <1>1, <4>1
    <3>3. i \in DOMAIN Y[d] /\ j \in DOMAIN Y[e] /\ notice \notin {Y[d][i], Y[e][j]}
      BY <3>1
    <3>4. d \in DOMAIN Y /\ e \in DOMAIN Y
      BY <1>1
    <3>5. Y[d][i] < Y[e][j]
      BY <1>7, <3>2, <3>3, <3>4, Zenon DEF InOrder
    <3> QED
      BY <3>1, <3>5
  <2> QED
    BY <1>2, <2>1, <2>2, <2>3, <2>4
<1> QED
  BY <1>1, <1>5, <1>6, <1>7 DEF Z

\* The same of lines behind lines in one buffer.
LEMMA ConcatLines ==
    ASSUME NEW s \in Seq(Nat), NEW u \in Seq(Nat)
    PROVE  /\ s \o u \in Seq(Nat)
           /\ LinesIn(<<s \o u>>) = LinesIn(<<s>>) \cup LinesIn(<<u>>)
           /\ InOrder(<<s \o u>>) <=> /\ InOrder(<<s>>) /\ InOrder(<<u>>)
                                      /\ Below(LinesIn(<<s>>), LinesIn(<<u>>))
<1> DEFINE z == s \o u
           m == Len(s)
           n == Len(u)
<1>1. /\ m \in Nat /\ n \in Nat /\ DOMAIN s = 1..m /\ DOMAIN u = 1..n
      /\ z \in Seq(Nat) /\ DOMAIN z = 1..(m + n)
      /\ \A i \in 1..m : z[i] = s[i]
      /\ \A i \in 1..n : z[m + i] = u[i]
  <2>1. /\ m \in Nat /\ n \in Nat /\ DOMAIN s = 1..m /\ DOMAIN u = 1..n
    BY LenProperties
  <2>2. /\ z \in Seq(Nat) /\ Len(z) = m + n
        /\ \A i \in 1..m + n : z[i] = IF i <= m THEN s[i] ELSE u[i - m]
    BY ConcatProperties
  <2>3. DOMAIN z = 1..(m + n)
    BY <2>2, LenProperties
  <2> HIDE DEF z, m, n
  <2> QED
    BY <2>1, <2>2, <2>3
<1>2. /\ \A x : x \in LinesIn(<<s>>) <=> x # notice /\ \E i \in DOMAIN s : x = s[i]
      /\ \A x : x \in LinesIn(<<u>>) <=> x # notice /\ \E i \in DOMAIN u : x = u[i]
      /\ \A x : x \in LinesIn(<<z>>) <=> x # notice /\ \E i \in DOMAIN z : x = z[i]
  BY LineInOne, Zenon
<1>3. /\ InOrder(<<s>>) <=>
            \A i, j \in DOMAIN s : i < j /\ notice \notin {s[i], s[j]} => s[i] < s[j]
      /\ InOrder(<<u>>) <=>
            \A i, j \in DOMAIN u : i < j /\ notice \notin {u[i], u[j]} => u[i] < u[j]
      /\ InOrder(<<z>>) <=>
            \A i, j \in DOMAIN z : i < j /\ notice \notin {z[i], z[j]} => z[i] < z[j]
  BY OneInOrder, Zenon
<1> HIDE DEF z, m, n
<1>4. \A i \in 1..(m + n) : i \in 1..m \/ \E k \in 1..n : i = m + k
  <2> TAKE i \in 1..(m + n)
  <2>1. i \in 1..m \/ (i - m \in 1..n /\ i = m + (i - m))
    BY <1>1
  <2> QED
    BY <2>1
<1>5. \A x : x \in LinesIn(<<z>>) <=> x \in LinesIn(<<s>>) \/ x \in LinesIn(<<u>>)
  <2>1. ASSUME NEW x \in LinesIn(<<z>>) PROVE x \in LinesIn(<<s>>) \/ x \in LinesIn(<<u>>)
    <3>1. PICK i \in 1..(m + n) : x # notice /\ x = z[i]
      BY <1>1, <1>2
    <3>2. (i \in 1..m /\ x = s[i]) \/ \E k \in 1..n : x = u[k]
      BY <1>1, <1>4, <3>1, Zenon
    <3> QED
      BY <1>1, <1>2, <3>1, <3>2, Zenon
  <2>2. ASSUME NEW x \in LinesIn(<<s>>) PROVE x \in LinesIn(<<z>>)
    <3>1. PICK i \in 1..m : x # notice /\ x = s[i]
      BY <1>1, <1>2, Zenon
    <3>2. i \in DOMAIN z /\ x = z[i]
      BY <1>1, <3>1
    <3> QED
      BY <1>2, <3>1, <3>2, Zenon
  <2>3. ASSUME NEW x \in LinesIn(<<u>>) PROVE x \in LinesIn(<<z>>)
    <3>1. PICK i \in 1..n : x # notice /\ x = u[i]
      BY <1>1, <1>2, Zenon
    <3>2. m + i \in DOMAIN z /\ x = z[m + i]
      BY <1>1, <3>1
    <3> QED
      BY <1>2, <3>1, <3>2
  <2> QED
    BY <2>1, <2>2, <2>3, Zenon
<1>6. ASSUME InOrder(<<s>>), InOrder(<<u>>), Below(LinesIn(<<s>>), LinesIn(<<u>>)),
             NEW i \in 1..(m + n), NEW j \in 1..(m + n), i < j, notice \notin {z[i], z[j]}
      PROVE  z[i] < z[j]
  <2>1. CASE i \in 1..m /\ j \in 1..m
    BY <1>1, <1>3, <1>6, <2>1, Zenon
  <2>2. ASSUME i \in 1..m, NEW l \in 1..n, j = m + l PROVE z[i] < z[j]
    BY <1>1, <1>2, <1>6, <2>2, Zenon DEF Below
  <2>3. ASSUME NEW k \in 1..n, i = m + k, j \in 1..m PROVE FALSE
    BY <1>1, <1>6, <2>3
  <2>4. ASSUME NEW k \in 1..n, i = m + k, NEW l \in 1..n, j = m + l PROVE z[i] < z[j]
    <3>1. k < l /\ z[i] = u[k] /\ z[j] = u[l]
      BY <1>1, <1>6, <2>4
    <3> QED
      BY <1>1, <1>3, <1>6, <3>1, Zenon
  <2> QED
    BY <1>4, <2>1, <2>2, <2>3, <2>4
<1>7. ASSUME InOrder(<<z>>)
      PROVE  InOrder(<<s>>) /\ InOrder(<<u>>) /\ Below(LinesIn(<<s>>), LinesIn(<<u>>))
  <2>1. InOrder(<<s>>)
    <3>1. \A i \in DOMAIN s : i \in DOMAIN z /\ z[i] = s[i]
      BY <1>1
    <3> QED
      BY <1>3, <1>7, <3>1
  <2>2. InOrder(<<u>>)
    <3> SUFFICES ASSUME NEW i \in 1..n, NEW j \in 1..n, i < j, notice \notin {u[i], u[j]}
                 PROVE  u[i] < u[j]
      BY <1>1, <1>3
    <3>1. /\ m + i \in DOMAIN z /\ m + j \in DOMAIN z /\ m + i < m + j
          /\ z[m + i] = u[i] /\ z[m + j] = u[j]
      <4>1. m + i \in 1..(m + n) /\ m + j \in 1..(m + n) /\ m + i < m + j
        BY <1>1
      <4> QED
        BY <1>1, <4>1
    <3> QED
      BY <1>3, <1>7, <3>1
  <2>3. ASSUME NEW x \in LinesIn(<<s>>), NEW y \in LinesIn(<<u>>) PROVE x < y
    <3>1. PICK i \in 1..m : x # notice /\ x = s[i]
      BY <1>1, <1>2, Zenon
    <3>2. PICK j \in 1..n : y # notice /\ y = u[j]
      BY <1>1, <1>2, Zenon
    <3>3. i \in DOMAIN z /\ m + j \in DOMAIN z /\ i < m + j /\ x = z[i] /\ y = z[m + j]
      <4>1. i \in 1..(m + n) /\ m + j \in 1..(m + n) /\ i < m + j
        BY <1>1
      <4> QED
        BY <1>1, <3>1, <3>2, <4>1
    <3> QED
      BY <1>3, <1>7, <3>1, <3>2, <3>3
  <2> QED
    BY <2>1, <2>2, <2>3 DEF Below
<1>8. InOrder(<<z>>) <=> InOrder(<<s>>) /\ InOrder(<<u>>) /\ Below(LinesIn(<<s>>), LinesIn(<<u>>))
  BY <1>1, <1>3, <1>6, <1>7
<1> QED
  BY <1>1, <1>5, <1>8, Zenon DEF z

\* Buffers are the first k of them and the rest.
LEMMA SplitBlocks ==
    ASSUME NEW X \in Seq(Seq(Nat)), NEW k \in 0..Len(X)
    PROVE  /\ SubSeq(X, 1, k) \in Seq(Seq(Nat)) /\ SubSeq(X, k + 1, Len(X)) \in Seq(Seq(Nat))
           /\ X = SubSeq(X, 1, k) \o SubSeq(X, k + 1, Len(X))
<1>1. Len(X) \in Nat /\ \A i \in 1..Len(X) : X[i] \in Seq(Nat)
  BY LenProperties, ElementOfSeq
<1>2. SubSeq(X, 1, k) \o SubSeq(X, k + 1, Len(X)) = SubSeq(X, 1, Len(X))
  <2>1. 1 \in 1 .. Len(X) + 1 /\ k \in 1 - 1 .. Len(X) /\ Len(X) \in k .. Len(X)
    BY <1>1
  <2> QED
    BY <2>1, ConcatAdjacentSubSeq, Zenon
<1>3. SubSeq(X, 1, k) \in Seq(Seq(Nat)) /\ SubSeq(X, k + 1, Len(X)) \in Seq(Seq(Nat))
  BY <1>1, SubSeqProperties
<1> QED
  BY <1>2, <1>3, SubSeqFull, Zenon

\* The files of a LogFile as a sequence of sequences of lines.
LEMMA FilesAsBlocks ==
    ASSUME NEW f, IsLog(f)
    PROVE  /\ Len(f.files) \in Nat \ {0} /\ FileLines(f) \in Seq(Seq(Nat))
           /\ Len(FileLines(f)) = Len(f.files)
           /\ \A i \in 1..Len(f.files) : FileLines(f)[i] = f.files[i].lines
<1>1. f.files \in Seq(File) /\ Len(f.files) \in Nat \ {0} /\ DOMAIN f.files = 1..Len(f.files)
  BY EmptySeq, LenProperties DEF IsLog
<1>2. \A i \in 1..Len(f.files) : f.files[i].lines \in Seq(Nat)
  <2>1. \A i \in 1..Len(f.files) : f.files[i] \in File
    BY <1>1, ElementOfSeq
  <2> QED
    BY <2>1 DEF File
<1>3. FileLines(f) = [i \in 1..Len(f.files) |-> f.files[i].lines]
  BY <1>1 DEF FileLines
<1>4. FileLines(f) \in [1..Len(f.files) -> Seq(Nat)]
  BY <1>2, <1>3
<1>5. \A S : \A n \in Nat : \A g \in [1..n -> S] : g \in Seq(S) /\ Len(g) = n
  OBVIOUS
<1> QED
  BY <1>1, <1>3, <1>4, <1>5

\* Buffers are all but the last, and the last.
LEMMA FrontAndLast ==
    ASSUME NEW X \in Seq(Seq(Nat)), NEW k \in Nat \ {0}, Len(X) = k
    PROVE  /\ X[k] \in Seq(Nat) /\ SubSeq(X, 1, k - 1) \in Seq(Seq(Nat))
           /\ Len(SubSeq(X, 1, k - 1)) = k - 1
           /\ \A i \in 1..(k - 1) : SubSeq(X, 1, k - 1)[i] = X[i]
           /\ X = SubSeq(X, 1, k - 1) \o <<X[k]>>
<1>1. 1 \in 1..Len(X) /\ k \in 1..Len(X) /\ k - 1 \in Int /\ 1 \in Int
  OBVIOUS
<1>2. \A i \in 1..k : X[i] \in Seq(Nat)
  BY ElementOfSeq
<1>3. \A i \in 1..(k - 1) : X[i] \in Seq(Nat)
  BY <1>2
<1>4. /\ SubSeq(X, 1, k - 1) \in Seq(Seq(Nat))
      /\ Len(SubSeq(X, 1, k - 1)) = IF 1 <= k - 1 THEN k - 1 - 1 + 1 ELSE 0
      /\ \A i \in 1 .. k - 1 - 1 + 1 : SubSeq(X, 1, k - 1)[i] = X[1 + i - 1]
  BY <1>1, <1>3, SubSeqProperties
<1>5. k - 1 - 1 + 1 = k - 1 /\ \A i \in 1..(k - 1) : 1 + i - 1 = i
  OBVIOUS
<1>6. X = SubSeq(X, 1, k - 1) \o <<X[k]>>
  <2>1. SubSeq(X, 1, k) = SubSeq(X, 1, k - 1) \o <<X[k]>>
    BY <1>1, SubSeqRecursiveSecond
  <2> QED
    BY <2>1, SubSeqFull
<1> DEFINE front == SubSeq(X, 1, k - 1)
<1> HIDE DEF front
<1>7. Len(front) = k - 1
  BY <1>4 DEF front
<1>8. \A i \in 1..(k - 1) : front[i] = X[i]
  BY <1>4, <1>5 DEF front
<1>9. X[k] \in Seq(Nat)
  BY <1>1, <1>2
<1> QED
  BY <1>4, <1>6, <1>7, <1>8, <1>9 DEF front

\* Lines that go behind the newest file and are later than all in the files.
LEMMA AppendedBlocks ==
    ASSUME NEW f, IsLog(f), NEW g, IsLog(g), NEW data \in Seq(Nat), NEW t,
           Extends(f, g, data, t), InOrder(FileLines(f)), InOrder(<<data>>),
           Below(LinesIn(FileLines(f)), LinesIn(<<data>>))
    PROVE  /\ InOrder(FileLines(g))
           /\ LinesIn(FileLines(g)) = LinesIn(FileLines(f)) \cup LinesIn(<<data>>)
<1> DEFINE k == Len(f.files)
           X == FileLines(f)
           Y == FileLines(g)
           front == SubSeq(X, 1, k - 1)
           l == X[k]
<1>1. /\ k \in Nat \ {0} /\ X \in Seq(Seq(Nat)) /\ Len(X) = k
      /\ \A i \in 1..k : X[i] = f.files[i].lines
  BY FilesAsBlocks, Zenon
<1>2. /\ Y \in Seq(Seq(Nat)) /\ Len(Y) = k
      /\ \A i \in 1..k : Y[i] = g.files[i].lines
  BY FilesAsBlocks, Zenon DEF Extends
<1>3. /\ \A i \in 1..(k - 1) : g.files[i] = f.files[i]
      /\ g.files[k].lines = f.files[k].lines \o data
  BY Zenon DEF Extends
<1> HIDE DEF X, Y, k
<1>4. /\ l \in Seq(Nat) /\ front \in Seq(Seq(Nat)) /\ X = front \o <<l>>
  BY <1>1, FrontAndLast
<1>5. Y = front \o <<l \o data>>
  <2> DEFINE other == SubSeq(Y, 1, k - 1)
  <2>1. other \in Seq(Seq(Nat)) /\ Y = other \o <<Y[k]>>
    BY <1>1, <1>2, FrontAndLast
  <2>2. /\ Len(front) = k - 1 /\ \A i \in 1..(k - 1) : front[i] = X[i]
        /\ Len(other) = k - 1 /\ \A i \in 1..(k - 1) : other[i] = Y[i]
    BY <1>1, <1>2, FrontAndLast, Zenon
  <2>3. \A i \in 1..(k - 1) : Y[i] = X[i]
    <3>1. \A i \in 1..(k - 1) : i \in 1..k
      BY <1>1
    <3> QED
      BY <1>1, <1>2, <1>3, <3>1, Zenon
  <2> HIDE DEF other, front
  <2>4. other = front
    <3>1. Len(other) = Len(front) /\ \A i \in 1..Len(other) : other[i] = front[i]
      BY <2>2, <2>3
    <3> QED
      BY <1>4, <2>1, <3>1, SeqEqual
  <2>5. Y[k] = l \o data
    <3>1. k \in 1..k
      BY <1>1
    <3> QED
      BY <1>1, <1>2, <1>3, <3>1, Zenon
  <2> QED
    BY <2>1, <2>4, <2>5, Zenon
<1> HIDE DEF l, front
<1>6. <<l>> \in Seq(Seq(Nat)) /\ <<l \o data>> \in Seq(Seq(Nat))
  <2>1. l \o data \in Seq(Nat)
    BY <1>4, ConcatProperties
  <2> QED
    BY <1>4, <2>1
<1>7. /\ InOrder(front) /\ InOrder(<<l>>) /\ Below(LinesIn(front), LinesIn(<<l>>))
      /\ LinesIn(X) = LinesIn(front) \cup LinesIn(<<l>>)
  <2>1. InOrder(front \o <<l>>)
    BY <1>4 DEF X
  <2> DEFINE L == <<l>>
  <2> HIDE DEF L
  <2>2. InOrder(front \o L) /\ L \in Seq(Seq(Nat)) /\ X = front \o L
    BY <1>4, <1>6, <2>1 DEF L
  <2>3. /\ InOrder(front) /\ InOrder(L) /\ Below(LinesIn(front), LinesIn(L))
        /\ LinesIn(X) = LinesIn(front) \cup LinesIn(L)
    BY <1>4, <2>2, ConcatInOrder, Zenon
  <2> QED
    BY <2>3 DEF L
<1>8. /\ Below(LinesIn(<<l>>), LinesIn(<<data>>)) /\ Below(LinesIn(front), LinesIn(<<data>>))
  BY <1>7 DEF Below, X
<1>9. /\ InOrder(<<l \o data>>)
      /\ LinesIn(<<l \o data>>) = LinesIn(<<l>>) \cup LinesIn(<<data>>)
  BY <1>4, <1>7, <1>8, ConcatLines, Zenon
<1>10. Below(LinesIn(front), LinesIn(<<l \o data>>))
  BY <1>7, <1>8, <1>9, Zenon DEF Below
<1>11. InOrder(Y) /\ LinesIn(Y) = LinesIn(front) \cup LinesIn(<<l \o data>>)
  BY <1>4, <1>5, <1>6, <1>7, <1>9, <1>10, ConcatInOrder, Zenon
<1> QED
  BY <1>7, <1>9, <1>11, Zenon DEF X, Y

\* RollFile adds an empty file at most.
LEMMA RollFileBlocks ==
    ASSUME NEW f, IsLog(f), NamesDiffer(f), NEW t \in Nat, InOrder(FileLines(f))
    PROVE  InOrder(FileLines(RollFile(f, t))) /\ LinesIn(FileLines(RollFile(f, t))) = LinesIn(FileLines(f))
<1> DEFINE g == RollFile(f, t)
           new == [opened |-> t, last |-> t, lines |-> <<>>]
           k == Len(f.files)
<1>1. CASE ~(t > Newest(f).opened)
  BY <1>1 DEF RollFile
<1>2. CASE t > Newest(f).opened
  <2>1. IsLog(Flushed(f)) /\ Flushed(f).files = f.files
    BY FlushedFiles
  <2>2. g = [Flushed(f) EXCEPT !.files = Append(f.files, new), !.lastFlush = t]
    BY <1>2, <2>1 DEF RollFile
  <2>3. IsLog(g) /\ g.files = Append(f.files, new)
    BY <2>1, <2>2, RollFileNames, Zenon DEF IsLog
  <2>4. /\ k \in Nat /\ FileLines(f) \in Seq(Seq(Nat)) /\ Len(FileLines(f)) = k
        /\ \A i \in 1..k : FileLines(f)[i] = f.files[i].lines
    BY FilesAsBlocks
  <2>5. /\ FileLines(g) \in Seq(Seq(Nat)) /\ Len(FileLines(g)) = Len(g.files)
        /\ \A i \in 1..Len(g.files) : FileLines(g)[i] = g.files[i].lines
    BY <2>3, FilesAsBlocks, Zenon
  <2>6. /\ Len(g.files) = k + 1 /\ g.files[k + 1] = new
        /\ \A i \in 1..k : g.files[i] = f.files[i]
    BY <2>3, AppendProperties DEF IsLog, File
  <2>7. FileLines(g) = Append(FileLines(f), <<>>)
    <3> DEFINE Z == Append(FileLines(f), <<>>)
    <3>1. <<>> \in Seq(Nat) /\ new.lines = <<>>
      OBVIOUS
    <3>2. /\ Z \in Seq(Seq(Nat)) /\ Len(Z) = k + 1 /\ Z[k + 1] = <<>>
          /\ \A i \in 1..k : Z[i] = FileLines(f)[i]
      BY <2>4, <3>1, AppendProperties
    <3> HIDE DEF g, Z, k, new
    <3>3. \A i \in 1..(k + 1) : Z[i] = FileLines(g)[i]
      <4> TAKE i \in 1..(k + 1)
      <4>1. i \in 1..k \/ i = k + 1
        BY <2>4
      <4> QED
        BY <2>4, <2>5, <2>6, <3>1, <3>2, <4>1, Zenon
    <3>4. Z \in Seq(Seq(Nat)) /\ FileLines(g) \in Seq(Seq(Nat)) /\ Len(Z) = Len(FileLines(g))
          /\ \A i \in 1..Len(Z) : Z[i] = FileLines(g)[i]
      BY <2>5, <2>6, <3>2, <3>3, Zenon
    <3>5. Z = FileLines(g)
      BY <3>4, SeqEqual
    <3> QED
      BY <3>5 DEF Z
  <2>8. FileLines(g) = FileLines(f) \o << <<>> >>
    BY <2>4, <2>7, AppendIsConcat
  <2>9. << <<>> >> \in Seq(Seq(Nat))
    OBVIOUS
  <2> HIDE DEF g
  <2>10. InOrder(FileLines(g)) /\ LinesIn(FileLines(g)) = LinesIn(FileLines(f))
    <3>1. Below(LinesIn(FileLines(f)), LinesIn(<< <<>> >>))
      BY NoBlocks DEF Below
    <3> DEFINE E == << <<>> >>
    <3>2. E \in Seq(Seq(Nat)) /\ InOrder(E) /\ LinesIn(E) = {} /\ FileLines(g) = FileLines(f) \o E
      BY <2>8, <2>9, NoBlocks
    <3> HIDE DEF E
    <3>3. Below(LinesIn(FileLines(f)), LinesIn(E))
      BY <3>1 DEF E
    <3>4. /\ InOrder(FileLines(f) \o E)
          /\ LinesIn(FileLines(f) \o E) = LinesIn(FileLines(f)) \cup LinesIn(E)
      BY <2>4, <3>2, <3>3, ConcatInOrder, Zenon
    <3> QED
      BY <3>2, <3>4
  <2> QED
    BY <2>10 DEF g
<1> QED
  BY <1>1, <1>2

\* LogFile::Append adds its lines to the files and no others, in order.
LEMMA LogAppendBlocks ==
    ASSUME NEW f, IsLog(f), NamesDiffer(f), NEW data \in Seq(Nat), NEW t \in Nat,
           InOrder(FileLines(f)), InOrder(<<data>>),
           Below(LinesIn(FileLines(f)), LinesIn(<<data>>))
    PROVE  /\ InOrder(FileLines(LogAppend(f, data, t)))
           /\ LinesIn(FileLines(LogAppend(f, data, t)))
                 = LinesIn(FileLines(f)) \cup LinesIn(<<data>>)
<1> DEFINE g == [f EXCEPT !.files[Len(f.files)].lines = @ \o data,
                          !.files[Len(f.files)].last = t]
           h == [g EXCEPT !.count = 0]
           c == [g EXCEPT !.count = @ + 1]
           l == [h EXCEPT !.lastFlush = t]
<1>1. IsLog(g) /\ NamesDiffer(g)
  BY WriteNames, Zenon
<1>2. \/ LogAppend(f, data, t) = RollFile(g, t)
      \/ LogAppend(f, data, t) = c
      \/ LogAppend(f, data, t) = RollFile(h, t)
      \/ LogAppend(f, data, t) = Flushed(l)
      \/ LogAppend(f, data, t) = h
  BY Zenon DEF LogAppend
<1>3. InOrder(FileLines(g)) /\ LinesIn(FileLines(g)) = LinesIn(FileLines(f)) \cup LinesIn(<<data>>)
  <2>1. Extends(f, g, data, t)
    BY WriteFiles, Zenon
  <2> HIDE DEF g
  <2> QED
    BY <1>1, <2>1, AppendedBlocks
<1> HIDE DEF g
<1>4. IsLog(h) /\ h.files = g.files /\ IsLog(c) /\ c.files = g.files
  BY <1>1, CountFiles, Zenon
<1> HIDE DEF h, c
<1>5. IsLog(l) /\ l.files = g.files
  BY <1>4, LastFlushFiles, Zenon
<1> HIDE DEF l
<1>6. IsLog(Flushed(l)) /\ Flushed(l).files = g.files
  BY <1>5, FlushedFiles
<1>7. /\ FileLines(h) = FileLines(g) /\ FileLines(c) = FileLines(g)
      /\ FileLines(Flushed(l)) = FileLines(g) /\ NamesDiffer(h)
  BY <1>1, <1>4, <1>6, Zenon DEF FileLines, NamesDiffer
<1>8. /\ InOrder(FileLines(RollFile(g, t)))
      /\ LinesIn(FileLines(RollFile(g, t))) = LinesIn(FileLines(g))
  BY <1>1, <1>3, RollFileBlocks
<1>9. /\ InOrder(FileLines(RollFile(h, t)))
      /\ LinesIn(FileLines(RollFile(h, t))) = LinesIn(FileLines(g))
  BY <1>1, <1>3, <1>4, <1>7, RollFileBlocks
<1> QED
  BY <1>2, <1>3, <1>7, <1>8, <1>9

-----------------------------------------------------------------------------
(* Where the lines are.                                                    *)

\* The files F, the buffers W that the backend took, the full buffers B and the
\* current one c hold n lines but those of d, each part in order and behind those
\* before it.
Arranged(F, W, B, c, n, d) ==
    LET C == <<c>>
    IN  /\ InOrder(F) /\ InOrder(W) /\ InOrder(B) /\ InOrder(C)
        /\ Below(LinesIn(F), LinesIn(W)) /\ Below(LinesIn(F), LinesIn(B))
        /\ Below(LinesIn(F), LinesIn(C)) /\ Below(LinesIn(W), LinesIn(B))
        /\ Below(LinesIn(W), LinesIn(C)) /\ Below(LinesIn(B), LinesIn(C))
        /\ LinesIn(F) \cup LinesIn(W) \cup LinesIn(B) \cup LinesIn(C) = (1..n) \ d
        /\ d \subseteq 0..n

\* A line that fits.
LEMMA LineAppended ==
    ASSUME NEW F, NEW W, NEW B, NEW c \in Seq(Nat), NEW n \in Nat, NEW d,
           Arranged(F, W, B, c, n, d)
    PROVE  Arranged(F, W, B, Append(c, n + 1), n + 1, d)
<1> DEFINE u == <<n + 1>>
           e == Append(c, n + 1)
<1>1. u \in Seq(Nat) /\ e = c \o u
  BY AppendIsConcat
<1>2. InOrder(<<u>>) /\ LinesIn(<<u>>) = {n + 1}
  <2>1. n + 1 \in Nat \ {0}
    OBVIOUS
  <2> QED
    BY <2>1, OneLine, Zenon
<1>3. \A x \in LinesIn(F) \cup LinesIn(W) \cup LinesIn(B) \cup LinesIn(<<c>>) : x \in 1..n
  BY DEF Arranged
<1> HIDE DEF u, e
<1>4. Below(LinesIn(<<c>>), LinesIn(<<u>>))
  BY <1>2, <1>3 DEF Below
<1>5. InOrder(<<e>>) /\ LinesIn(<<e>>) = LinesIn(<<c>>) \cup {n + 1}
  <2>1. InOrder(<<c>>)
    BY DEF Arranged
  <2>2. /\ LinesIn(<<c \o u>>) = LinesIn(<<c>>) \cup LinesIn(<<u>>)
        /\ InOrder(<<c \o u>>)
    BY <1>1, <1>2, <1>4, <2>1, ConcatLines, Zenon
  <2> QED
    BY <1>1, <1>2, <2>2, Zenon
<1>6. /\ Below(LinesIn(F), LinesIn(<<e>>)) /\ Below(LinesIn(W), LinesIn(<<e>>))
      /\ Below(LinesIn(B), LinesIn(<<e>>))
  <2>1. \A x \in 1..n : x < n + 1
    OBVIOUS
  <2> QED
    BY <1>3, <1>5, <2>1, Zenon DEF Arranged, Below
<1>7. LinesIn(F) \cup LinesIn(W) \cup LinesIn(B) \cup LinesIn(<<e>>) = (1..(n + 1)) \ d
  <2>1. (1..(n + 1)) \ d = ((1..n) \ d) \cup {n + 1}
    BY DEF Arranged
  <2> QED
    BY <1>5, <2>1 DEF Arranged
<1>8. d \subseteq 0..(n + 1)
  BY DEF Arranged
<1>9. Arranged(F, W, B, e, n + 1, d)
  BY <1>5, <1>6, <1>7, <1>8, Zenon DEF Arranged
<1> QED
  BY <1>9 DEF e

\* The current buffer joins the full ones.
LEMMA BufferPushed ==
    ASSUME NEW B \in Seq(Seq(Nat)), NEW c \in Seq(Nat),
           InOrder(B), InOrder(<<c>>), Below(LinesIn(B), LinesIn(<<c>>))
    PROVE  /\ Append(B, c) \in Seq(Seq(Nat)) /\ InOrder(Append(B, c))
           /\ LinesIn(Append(B, c)) = LinesIn(B) \cup LinesIn(<<c>>)
<1>1. Append(B, c) = B \o <<c>>
  BY AppendIsConcat
<1>2. <<c>> \in Seq(Seq(Nat))
  OBVIOUS
<1>3. /\ B \o <<c>> \in Seq(Seq(Nat)) /\ InOrder(B \o <<c>>)
      /\ LinesIn(B \o <<c>>) = LinesIn(B) \cup LinesIn(<<c>>)
  <2> DEFINE C == <<c>>
  <2> HIDE DEF C
  <2>1. /\ B \o C \in Seq(Seq(Nat)) /\ InOrder(B \o C)
        /\ LinesIn(B \o C) = LinesIn(B) \cup LinesIn(C)
    BY <1>2, ConcatInOrder, Zenon DEF C
  <2> QED
    BY <2>1, Zenon DEF C
<1> QED
  BY <1>1, <1>3, Zenon

\* A line that does not fit.
LEMMA LinePushed ==
    ASSUME NEW F, NEW W, NEW B \in Seq(Seq(Nat)), NEW c \in Seq(Nat), NEW n \in Nat, NEW d,
           Arranged(F, W, B, c, n, d)
    PROVE  Arranged(F, W, Append(B, c), <<n + 1>>, n + 1, d)
<1> DEFINE u == <<n + 1>>
           A == Append(B, c)
<1>1. InOrder(<<u>>) /\ LinesIn(<<u>>) = {n + 1}
  <2>1. n + 1 \in Nat \ {0}
    OBVIOUS
  <2> QED
    BY <2>1, OneLine, Zenon
<1>2. InOrder(A) /\ LinesIn(A) = LinesIn(B) \cup LinesIn(<<c>>)
  BY BufferPushed DEF Arranged
<1>3. \A x \in LinesIn(F) \cup LinesIn(W) \cup LinesIn(A) : x \in 1..n
  BY <1>2, Zenon DEF Arranged
<1> HIDE DEF u, A
<1>4. /\ Below(LinesIn(F), LinesIn(A)) /\ Below(LinesIn(W), LinesIn(A))
  BY <1>2, Zenon DEF Arranged, Below
<1>5. /\ Below(LinesIn(F), LinesIn(<<u>>)) /\ Below(LinesIn(W), LinesIn(<<u>>))
      /\ Below(LinesIn(A), LinesIn(<<u>>))
  BY <1>1, <1>3 DEF Below
<1>6. LinesIn(F) \cup LinesIn(W) \cup LinesIn(A) \cup LinesIn(<<u>>) = (1..(n + 1)) \ d
  <2>1. (1..(n + 1)) \ d = ((1..n) \ d) \cup {n + 1}
    BY DEF Arranged
  <2> QED
    BY <1>1, <1>2, <2>1 DEF Arranged
<1>7. d \subseteq 0..(n + 1)
  BY DEF Arranged
<1>8. Arranged(F, W, A, u, n + 1, d)
  BY <1>1, <1>2, <1>4, <1>5, <1>6, <1>7, Zenon DEF Arranged
<1> QED
  BY <1>8 DEF A, u

\* The swap: all buffers of the front end go to the backend, which has none.
LEMMA BuffersSwapped ==
    ASSUME NEW F, NEW B \in Seq(Seq(Nat)), NEW c \in Seq(Nat), NEW n \in Nat, NEW d,
           Arranged(F, <<>>, B, c, n, d)
    PROVE  Arranged(F, Append(B, c), <<>>, <<>>, n, d)
<1> DEFINE A == Append(B, c)
           E == <<>>
<1>1. InOrder(A) /\ LinesIn(A) = LinesIn(B) \cup LinesIn(<<c>>)
  BY BufferPushed DEF Arranged
<1>2. InOrder(E) /\ LinesIn(E) = {} /\ InOrder(<<E>>) /\ LinesIn(<<E>>) = {}
  BY NoBlocks
<1>3. Arranged(F, E, B, c, n, d)
  OBVIOUS
<1> HIDE DEF A, E
<1>4. Arranged(F, A, E, E, n, d)
  BY <1>1, <1>2, <1>3, Zenon DEF Arranged, Below
<1> QED
  BY <1>4 DEF A, E

\* What is taken out of the backend's buffers and not written is dropped.
LEMMA LinesMoved ==
    ASSUME NEW F, NEW W, NEW B, NEW c, NEW n \in Nat, NEW d, Arranged(F, W, B, c, n, d),
           NEW G, NEW V, InOrder(G), InOrder(V),
           NEW kept, NEW lost, NEW e,
           LinesIn(G) = LinesIn(F) \cup kept,
           LinesIn(W) = kept \cup lost \cup LinesIn(V),
           Below(kept, LinesIn(V)), \A x \in lost : x \notin kept /\ x \notin LinesIn(V),
           e \subseteq lost \cup {notice}, lost \subseteq e
    PROVE  Arranged(G, V, B, c, n, d \cup e)
<1> DEFINE C == <<c>>
<1>1. /\ Below(LinesIn(G), LinesIn(V)) /\ Below(LinesIn(G), LinesIn(B))
      /\ Below(LinesIn(G), LinesIn(C)) /\ Below(LinesIn(V), LinesIn(B))
      /\ Below(LinesIn(V), LinesIn(C)) /\ Below(LinesIn(B), LinesIn(C))
  BY Zenon DEF Arranged, Below
<1>2. LinesIn(F) \cup LinesIn(W) \cup LinesIn(B) \cup LinesIn(C) = (1..n) \ d
  BY Zenon DEF Arranged
<1>3. d \cup e \subseteq 0..n
  <2>1. \A x \in lost : x \in 1..n
    BY <1>2, Zenon
  <2>2. \A x \in e : x \in lost \/ x = 0
    BY Zenon DEF notice
  <2>3. \A x \in d : x \in 0..n
    BY Zenon DEF Arranged
  <2>4. \A x \in 1..n : x \in 0..n
    OBVIOUS
  <2>5. 0 \in 0..n
    OBVIOUS
  <2>6. \A x \in d \cup e : x \in 0..n
    BY <2>1, <2>2, <2>3, <2>4, <2>5, Zenon
  <2> QED
    BY <2>6, Zenon
<1>4. \A x \in lost : x \in Nat /\ x \notin LinesIn(F) /\ x \notin LinesIn(B) /\ x \notin LinesIn(C)
  <2> TAKE x \in lost
  <2>1. x \in LinesIn(W) /\ x \in Nat /\ ~(x < x)
    BY <1>2
  <2> QED
    BY <2>1 DEF Arranged, Below
<1>5. LinesIn(G) \cup LinesIn(V) \cup LinesIn(B) \cup LinesIn(C) = (1..n) \ (d \cup e)
  <2>1. \A x \in 1..n : x # notice
    <3>1. \A x \in 1..n : x # 0
      OBVIOUS
    <3> QED
      BY <3>1, Zenon DEF notice
  <2> HIDE DEF C
  <2> QED
    BY <1>2, <1>4, <2>1, Zenon
<1> QED
  BY <1>1, <1>3, <1>5, Zenon DEF Arranged

\* Where the lines are, in every state.
Parts == Arranged(FileLines(log), InFlight, buffers, currentBuffer, count, dropped)

\* The swap of Lock and of WaitForSeconds.
LEMMA PartsSwap ==
    ASSUME SpareBuffers, Parts, pc \in {"lock", "wait"}, Swap, UNCHANGED <<count, file>>
    PROVE  Parts'
<1>1. InFlight = <<>>
  BY DEF InFlight
<1>2. /\ InFlight' = Append(buffers, currentBuffer) /\ buffers' = <<>> /\ currentBuffer' = <<>>
      /\ log' = log /\ count' = count /\ dropped' = dropped
  BY DEF Swap, InFlight, SpareBuffers, file, empty
<1>3. Arranged(FileLines(log), Append(buffers, currentBuffer), <<>>, <<>>, count, dropped)
  BY <1>1, BuffersSwapped DEF Parts, SpareBuffers
<1> QED
  BY <1>2, <1>3 DEF Parts

\* The cut of Drop: the lines of all buffers but two are dropped.
LEMMA PartsDrop ==
    ASSUME SpareBuffers, IsLog(log), NamesDiffer(log), Parts, NEW t \in 1..MaxTime, Drop(t)
    PROVE  Parts'
<1> DEFINE W == buffersToWrite
<1>1. /\ InFlight = W /\ W \in Seq(Seq(Nat)) /\ Len(W) \in Nat /\ count \in Nat
      /\ InFlight' = SubSeq(buffersToWrite', 1, Len(buffersToWrite'))
      /\ buffers' = buffers /\ currentBuffer' = currentBuffer /\ count' = count
  BY LenProperties DEF Drop, InFlight, SpareBuffers, shared
<1>2. CASE ~(Len(W) > DropLimit)
  <2>1. buffersToWrite' = W /\ dropped' = dropped /\ log' = log
    BY <1>2 DEF Drop
  <2>2. InFlight' = W
    BY <1>1, <2>1, SubSeqFull
  <2> QED
    BY <1>1, <2>1, <2>2, Zenon DEF Parts
<1>3. CASE Len(W) > DropLimit
  <2> DEFINE V == SubSeq(W, 1, 2)
             R == SubSeq(W, 3, Len(W))
             e == UNION {Range(W[b]) : b \in 3..Len(W)}
             lost == LinesIn(R)
             G == FileLines(LogAppend(log, <<notice>>, t))
  <2>1. buffersToWrite' = V /\ dropped' = dropped \cup e /\ FileLines(log') = G
    BY <1>3 DEF Drop
  <2>2. 2 \in 0..Len(W) /\ 2 + 1 = 3
    BY <1>1, <1>3, LoggingAssumption
  <2>3. V \in Seq(Seq(Nat)) /\ R \in Seq(Seq(Nat)) /\ W = V \o R
    BY <1>1, <2>2, SplitBlocks
  <2>4. InFlight' = V
    BY <1>1, <2>1, <2>3, SubSeqFull
  <2>5. /\ InOrder(V) /\ InOrder(R) /\ Below(LinesIn(V), LinesIn(R))
        /\ LinesIn(W) = LinesIn(V) \cup LinesIn(R)
    <3>1. InOrder(W)
      BY <1>1 DEF Parts, Arranged
    <3> HIDE DEF V, R, W
    <3> QED
      BY <2>3, <3>1, ConcatInOrder
  <2>6. lost \subseteq e /\ e \subseteq lost \cup {notice}
    <3>1. /\ DOMAIN R = 1..(Len(W) - 2) /\ \A b \in 1..(Len(W) - 2) : R[b] = W[b + 2]
      <4>1. \A i \in 3..Len(W) : W[i] \in Seq(Nat)
        BY <1>1, ElementOfSeq
      <4>2. 3 <= Len(W)
        BY <1>1, <1>3, LoggingAssumption
      <4> HIDE DEF W
      <4>3. Len(R) = Len(W) - 3 + 1 /\ \A i \in 1..(Len(W) - 3 + 1) : R[i] = W[3 + i - 1]
        BY <1>1, <4>1, <4>2, SubSeqProperties
      <4>4. DOMAIN R = 1..Len(R)
        BY <2>3, LenProperties
      <4> HIDE DEF R
      <4>5. Len(W) - 3 + 1 = Len(W) - 2 /\ \A i \in 1..(Len(W) - 2) : 3 + i - 1 = i + 2
        BY <1>1
      <4>6. Len(R) = Len(W) - 2 /\ \A i \in 1..(Len(W) - 2) : R[i] = W[3 + i - 1]
        BY <4>3, <4>5
      <4> QED
        BY <4>4, <4>5, <4>6, Zenon
    <3>2. \A x : x \in e <=> \E b \in 3..Len(W) : x \in Range(W[b])
      OBVIOUS
    <3>3. \A x : x \in lost <=> x # notice /\ \E b \in DOMAIN R : x \in Range(R[b])
      BY DEF LinesIn
    <3> HIDE DEF R, W, e, lost
    <3>4. \A b \in 1..(Len(W) - 2) : b + 2 \in 3..Len(W)
      BY <1>1
    <3>5. \A b \in 3..Len(W) : b - 2 \in 1..(Len(W) - 2) /\ (b - 2) + 2 = b
      BY <1>1
    <3>6. ASSUME NEW x \in lost PROVE x \in e
      BY <3>1, <3>2, <3>3, <3>4
    <3>7. ASSUME NEW x \in e PROVE x \in lost \cup {notice}
      <4>1. PICK b \in 3..Len(W) : x \in Range(W[b])
        BY <3>2
      <4>2. b - 2 \in DOMAIN R /\ x \in Range(R[b - 2])
        BY <3>1, <3>5, <4>1
      <4> QED
        BY <3>3, <4>2
    <3> QED
      BY <3>6, <3>7
  <2>7. InOrder(G) /\ LinesIn(G) = LinesIn(FileLines(log)) \cup {}
    <3> DEFINE data == <<notice>>
    <3>1. data \in Seq(Nat) /\ DOMAIN data = {1} /\ data[1] = notice /\ t \in Nat
      BY LoggingAssumption DEF notice
    <3> HIDE DEF data
    <3>2. LinesIn(<<data>>) = {} /\ InOrder(<<data>>)
      BY <3>1, LineInOne, OneInOrder
    <3>3. Below(LinesIn(FileLines(log)), LinesIn(<<data>>)) /\ InOrder(FileLines(log))
      BY <3>2, Zenon DEF Below, Parts, Arranged
    <3>4. /\ InOrder(FileLines(LogAppend(log, data, t)))
          /\ LinesIn(FileLines(LogAppend(log, data, t)))
                = LinesIn(FileLines(log)) \cup LinesIn(<<data>>)
      BY <3>1, <3>2, <3>3, LogAppendBlocks
    <3> QED
      BY <3>2, <3>4 DEF data
  <2>8. \A x \in lost : x \notin LinesIn(V)
    <3>1. \A x \in lost : x \in Nat
      BY <1>1, <2>5 DEF Parts, Arranged
    <3> QED
      BY <2>5, <3>1 DEF Below
  <2> HIDE DEF W, V, R, e, lost, G
  <2>9. Arranged(G, V, buffers, currentBuffer, count, dropped \cup e)
    <3>1. Arranged(FileLines(log), W, buffers, currentBuffer, count, dropped)
      BY <1>1 DEF Parts
    <3> DEFINE kept == {}
    <3>2. LinesIn(W) = kept \cup lost \cup LinesIn(V)
      BY <2>5 DEF lost
    <3>3. Below(kept, LinesIn(V)) /\ \A x \in lost : x \notin kept /\ x \notin LinesIn(V)
      BY <2>8 DEF Below
    <3>4. LinesIn(G) = LinesIn(FileLines(log)) \cup kept
      BY <2>7
    <3> HIDE DEF kept
    <3> QED
      BY <1>1, <2>5, <2>6, <2>7, <3>1, <3>2, <3>3, <3>4, LinesMoved, Zenon
  <2> QED
    BY <1>1, <2>1, <2>4, <2>9, Zenon DEF Parts
<1> QED
  BY <1>2, <1>3

\* A write, complete or cut short.
LEMMA PartsWrite ==
    ASSUME SpareBuffers, IsLog(log), NamesDiffer(log), Parts,
           NEW t \in 1..MaxTime, NEW n \in 0..BufferSize, Write(n, t)
    PROVE  Parts'
<1> DEFINE U == buffersToWrite
           k == Len(U)
           data == U[next]
           a == SubSeq(data, 1, n)
           b == SubSeq(data, n + 1, Len(data))
           W == SubSeq(U, next, k)
           V == SubSeq(U, next + 1, k)
           e == {data[i] : i \in (n + 1)..Len(data)}
           G == FileLines(LogAppend(log, a, t))
<1>1. /\ U \in Seq(Seq(Nat)) /\ k \in Nat /\ next \in 1..k /\ count \in Nat /\ t \in Nat
      /\ data \in Seq(Nat) /\ n \in 0..Len(data) /\ Len(data) \in Nat
  <2>1. U \in Seq(Seq(Nat)) /\ k \in Nat /\ next \in 1..k /\ count \in Nat
    BY LenProperties DEF Write, SpareBuffers
  <2>2. data \in Seq(Nat) /\ n \in 0..Len(data)
    BY <2>1, ElementOfSeq, Zenon DEF Write
  <2> QED
    BY <2>1, <2>2, LenProperties, LoggingAssumption
<1>2. /\ InFlight = W /\ InFlight' = V /\ FileLines(log') = G /\ dropped' = dropped \cup e
      /\ buffers' = buffers /\ currentBuffer' = currentBuffer /\ count' = count
  BY Zenon DEF Write, InFlight, shared
<1>3. /\ a \in Seq(Nat) /\ b \in Seq(Nat) /\ data = a \o b
  <2>1. Len(data) \in Nat /\ \A i \in 1..Len(data) : data[i] \in Nat
    BY <1>1, LenProperties, ElementOfSeq
  <2> HIDE DEF data
  <2>2. 1 \in 1 .. Len(data) + 1 /\ n \in 1 - 1 .. Len(data) /\ Len(data) \in n .. Len(data)
    BY <1>1
  <2>3. a \o b = SubSeq(data, 1, Len(data))
    BY <1>1, <2>2, ConcatAdjacentSubSeq, Zenon
  <2>4. a \in Seq(Nat) /\ b \in Seq(Nat)
    BY <1>1, <2>1, SubSeqProperties
  <2> QED
    BY <1>1, <2>3, <2>4, SubSeqFull, Zenon
<1>4. /\ <<data>> \in Seq(Seq(Nat)) /\ V \in Seq(Seq(Nat)) /\ W = <<data>> \o V
  <2>1. \A i \in 1..k : U[i] \in Seq(Nat)
    BY <1>1, ElementOfSeq
  <2> HIDE DEF U, k
  <2>2. V \in Seq(Seq(Nat))
    BY <1>1, <2>1, SubSeqProperties
  <2>3. next \in 1..Len(U) /\ k \in next..Len(U)
    BY <1>1 DEF k
  <2>4. W = <<data>> \o V
    BY <1>1, <2>3, SubSeqRecursiveFirst
  <2> QED
    BY <1>1, <2>2, <2>4
<1>5. /\ InOrder(<<data>>) /\ InOrder(V) /\ Below(LinesIn(<<data>>), LinesIn(V))
      /\ LinesIn(W) = LinesIn(<<data>>) \cup LinesIn(V)
  <2>1. InOrder(W)
    BY <1>2, Zenon DEF Parts, Arranged
  <2> DEFINE D == <<data>>
  <2> HIDE DEF D, V, W
  <2>2. D \in Seq(Seq(Nat)) /\ W = D \o V
    BY <1>4 DEF D
  <2>3. /\ InOrder(D) /\ InOrder(V) /\ Below(LinesIn(D), LinesIn(V))
        /\ LinesIn(W) = LinesIn(D) \cup LinesIn(V)
    <3>1. InOrder(D \o V)
      BY <2>1, <2>2
    <3>2. /\ InOrder(D) /\ InOrder(V) /\ Below(LinesIn(D), LinesIn(V))
          /\ LinesIn(D \o V) = LinesIn(D) \cup LinesIn(V)
      BY <1>4, <2>2, <3>1, ConcatInOrder
    <3> QED
      BY <2>2, <3>2
  <2> QED
    BY <2>3 DEF D
<1>6. /\ InOrder(<<a>>) /\ InOrder(<<b>>) /\ Below(LinesIn(<<a>>), LinesIn(<<b>>))
      /\ LinesIn(<<data>>) = LinesIn(<<a>>) \cup LinesIn(<<b>>)
  <2> HIDE DEF data, a, b
  <2> QED
    BY <1>3, <1>5, ConcatLines, Zenon
<1>7. LinesIn(<<b>>) \subseteq e /\ e \subseteq LinesIn(<<b>>) \cup {notice}
  <2>1. DOMAIN b = 1..(Len(data) - n) /\ \A i \in 1..(Len(data) - n) : b[i] = data[n + i]
    <3>1. \A i \in (n + 1)..Len(data) : data[i] \in Nat
      BY <1>1, ElementOfSeq
    <3> HIDE DEF data
    <3>2. /\ Len(b) = IF n + 1 <= Len(data) THEN Len(data) - (n + 1) + 1 ELSE 0
          /\ \A i \in 1..(Len(data) - (n + 1) + 1) : b[i] = data[n + 1 + i - 1]
      BY <1>1, <3>1, SubSeqProperties
    <3>3. DOMAIN b = 1..Len(b)
      BY <1>3, LenProperties
    <3> HIDE DEF b
    <3>4. Len(b) = Len(data) - n /\ Len(data) - (n + 1) + 1 = Len(data) - n
      BY <1>1, <3>2
    <3>5. \A i \in 1..(Len(data) - n) : n + 1 + i - 1 = n + i
      BY <1>1
    <3> QED
      BY <3>2, <3>3, <3>4, <3>5
  <2>2. \A x : x \in LinesIn(<<b>>) <=> x # notice /\ \E i \in DOMAIN b : x = b[i]
    BY LineInOne, Zenon
  <2> HIDE DEF b, data
  <2>3. \A i \in 1..(Len(data) - n) : n + i \in (n + 1)..Len(data)
    BY <1>1
  <2>4. \A i \in (n + 1)..Len(data) : i - n \in 1..(Len(data) - n) /\ n + (i - n) = i
    BY <1>1
  <2>5. \A x : x \in e <=> \E i \in (n + 1)..Len(data) : x = data[i]
    OBVIOUS
  <2> HIDE DEF e
  <2>6. ASSUME NEW x \in LinesIn(<<b>>) PROVE x \in e
    BY <2>1, <2>2, <2>3, <2>5
  <2>7. ASSUME NEW x \in e PROVE x \in LinesIn(<<b>>) \cup {notice}
    <3>1. PICK i \in (n + 1)..Len(data) : x = data[i]
      BY <2>5
    <3>2. i - n \in DOMAIN b /\ x = b[i - n]
      BY <2>1, <2>4, <3>1
    <3> QED
      BY <2>2, <3>2
  <2> QED
    BY <2>6, <2>7
<1> HIDE DEF U, k, data, a, b, W, V, e
<1>8. Arranged(FileLines(log), W, buffers, currentBuffer, count, dropped)
  BY <1>2 DEF Parts
<1>9. InOrder(G) /\ LinesIn(G) = LinesIn(FileLines(log)) \cup LinesIn(<<a>>)
  <2>1. InOrder(FileLines(log)) /\ Below(LinesIn(FileLines(log)), LinesIn(<<a>>))
    BY <1>5, <1>6, <1>8, Zenon DEF Arranged, Below
  <2> QED
    BY <1>1, <1>3, <1>6, <2>1, LogAppendBlocks, Zenon
<1> HIDE DEF G
<1>10. \A x \in LinesIn(<<b>>) : x \notin LinesIn(<<a>>) /\ x \notin LinesIn(V)
  <2>1. \A x \in LinesIn(<<b>>) : x \in Nat
    <3>1. LinesIn(W) \subseteq 1..count
      BY <1>8 DEF Arranged
    <3> QED
      BY <1>1, <1>5, <1>6, <3>1
  <2> QED
    BY <1>5, <1>6, <2>1 DEF Below
<1>11. Below(LinesIn(<<a>>), LinesIn(V))
  BY <1>5, <1>6 DEF Below
<1>12. LinesIn(W) = LinesIn(<<a>>) \cup LinesIn(<<b>>) \cup LinesIn(V)
  BY <1>5, <1>6, Zenon
<1>13. Arranged(G, V, buffers, currentBuffer, count, dropped \cup e)
  BY <1>1, <1>5, <1>7, <1>8, <1>9, <1>10, <1>11, <1>12, LinesMoved, Zenon
<1> QED
  BY <1>2, <1>13 DEF Parts

\* Every step keeps the lines where they should be.
LEMMA PartsStep ==
    ASSUME SpareBuffers, IsLog(log), NamesDiffer(log), Parts, [Next]_vars
    PROVE  Parts'
<1>1. CASE UNCHANGED <<shared, count, dropped>> /\ InFlight' = InFlight
           /\ FileLines(log)' = FileLines(log)
  BY <1>1 DEF Parts, shared
<1>2. FileLines(Flushed(log)) = FileLines(log)
  BY FlushedFiles DEF FileLines
<1>3. CASE AppendLine
  <2>1. /\ InFlight' = InFlight /\ log' = log /\ dropped' = dropped /\ count' = count + 1
        /\ count \in Nat /\ currentBuffer \in Seq(Nat) /\ buffers \in Seq(Seq(Nat))
    BY <1>3, Zenon DEF AppendLine, locals, file, InFlight, SpareBuffers
  <2>2. CASE Fits(currentBuffer)
    <3>1. currentBuffer' = Append(currentBuffer, count + 1) /\ buffers' = buffers
      BY <1>3, <2>2 DEF AppendLine
    <3>2. Arranged(FileLines(log), InFlight, buffers, Append(currentBuffer, count + 1),
                   count + 1, dropped)
      BY <2>1, LineAppended DEF Parts
    <3> QED
      BY <2>1, <3>1, <3>2 DEF Parts
  <2>3. CASE ~Fits(currentBuffer)
    <3>1. currentBuffer' = <<count + 1>> /\ buffers' = Append(buffers, currentBuffer)
      BY <1>3, <2>3 DEF AppendLine, PushCurrent
    <3>2. Arranged(FileLines(log), InFlight, Append(buffers, currentBuffer), <<count + 1>>,
                   count + 1, dropped)
      BY <2>1, LinePushed DEF Parts
    <3> QED
      BY <2>1, <3>1, <3>2 DEF Parts
  <2> QED
    BY <2>2, <2>3
<1>4. CASE FlushOutput
  BY <1>1, <1>2, <1>4 DEF FlushOutput, Flush, locals, InFlight
<1>5. CASE Start \/ Started \/ Stop \/ Joined
  <2>1. InFlight' = InFlight
    BY <1>5, Zenon DEF Start, Started, Stop, Joined, locals, InFlight, SpareBuffers
  <2> QED
    BY <1>1, <1>5, <2>1 DEF Start, Started, Stop, Joined, file
<1>6. CASE Begin
  <2>1. InFlight' = InFlight
    BY <1>6 DEF Begin, InFlight
  <2> QED
    BY <1>1, <1>6, <2>1 DEF Begin, file
<1>7. CASE Loop
  <2>1. InFlight' = InFlight
    BY <1>7 DEF Loop, InFlight
  <2> QED
    BY <1>1, <1>2, <1>7, <2>1 DEF Loop, Flush
<1>8. CASE Lock
  <2>1. CASE buffers = <<>>
    <3>1. InFlight' = InFlight
      BY <1>8, <2>1 DEF Lock, InFlight
    <3> QED
      BY <1>1, <1>8, <2>1, <3>1 DEF Lock, file
  <2>2. CASE buffers # <<>>
    BY <1>8, <2>2, PartsSwap DEF Lock, file
  <2> QED
    BY <2>1, <2>2
<1>9. CASE WaitForSeconds
  BY <1>9, PartsSwap DEF WaitForSeconds, file
<1>10. CASE Written
  <2>1. InFlight = <<>>
    <3>1. next \in Int /\ Len(buffersToWrite) \in Int /\ Len(buffersToWrite) < next /\ pc = "write"
      BY <1>10, LenProperties DEF Written, SpareBuffers
    <3> QED
      BY <3>1, SubSeqEmpty DEF InFlight
  <2>2. InFlight' = <<>>
    BY <1>10 DEF Written, InFlight
  <2> QED
    BY <1>1, <1>10, <2>1, <2>2 DEF Written, file
<1>11. CASE Recycle
  <2>1. InFlight' = InFlight
    BY <1>11 DEF Recycle, InFlight
  <2>2. FileLines(log)' = FileLines(log)
    BY <1>2, <1>11 DEF Recycle, Flush
  <2> QED
    BY <1>1, <1>11, <2>1, <2>2 DEF Recycle
<1>12. CASE Terminated \/ UNCHANGED vars
  BY <1>1, <1>12 DEF Terminated, vars, locals, file, InFlight
<1> QED
  BY <1>3, <1>4, <1>5, <1>6, <1>7, <1>8, <1>9, <1>10, <1>11, <1>12, PartsDrop, PartsWrite
     DEF Next, Backend

\* The arrangement is the order NothingLost asks for.
LEMMA PartsNothingLost ==
    ASSUME SpareBuffers, IsLog(log), Parts
    PROVE  NothingLost
<1> DEFINE F == FileLines(log)
           W == InFlight
           B == buffers
           C == <<currentBuffer>>
<1>1. F \in Seq(Seq(Nat)) /\ B \in Seq(Seq(Nat)) /\ C \in Seq(Seq(Nat))
  <2>1. currentBuffer \in Seq(Nat) /\ buffers \in Seq(Seq(Nat))
    BY DEF SpareBuffers
  <2>2. F \in Seq(Seq(Nat))
    BY FilesAsBlocks, Zenon
  <2> QED
    BY <2>1, <2>2
<1>2. W \in Seq(Seq(Nat))
  <2>1. /\ Len(buffersToWrite) \in Nat
        /\ \A i \in 1..Len(buffersToWrite) : buffersToWrite[i] \in Seq(Nat)
    BY LenProperties, ElementOfSeq DEF SpareBuffers
  <2>2. CASE pc = "write"
    BY <2>1, <2>2, SubSeqProperties DEF InFlight, SpareBuffers
  <2> QED
    BY <2>2 DEF InFlight, SpareBuffers
<1>3. Arranged(F, W, B, currentBuffer, count, dropped)
  BY DEF Parts
<1> HIDE DEF F, W, B
<1>4. /\ InOrder(F) /\ InOrder(W) /\ InOrder(B) /\ InOrder(C)
      /\ Below(LinesIn(F), LinesIn(W)) /\ Below(LinesIn(F), LinesIn(B))
      /\ Below(LinesIn(F), LinesIn(C)) /\ Below(LinesIn(W), LinesIn(B))
      /\ Below(LinesIn(W), LinesIn(C)) /\ Below(LinesIn(B), LinesIn(C))
      /\ LinesIn(F) \cup LinesIn(W) \cup LinesIn(B) \cup LinesIn(C) = (1..count) \ dropped
  BY <1>3, Zenon DEF Arranged
<1> HIDE DEF C
<1>5. /\ F \o W \in Seq(Seq(Nat)) /\ InOrder(F \o W)
      /\ LinesIn(F \o W) = LinesIn(F) \cup LinesIn(W)
  BY <1>1, <1>2, <1>4, ConcatInOrder, Zenon
<1> DEFINE X == F \o W
<1> HIDE DEF X
<1>6. Below(LinesIn(X), LinesIn(B)) /\ Below(LinesIn(X), LinesIn(C))
  BY <1>4, <1>5 DEF Below, X
<1>7. /\ X \o B \in Seq(Seq(Nat)) /\ InOrder(X \o B)
      /\ LinesIn(X \o B) = LinesIn(X) \cup LinesIn(B)
  BY <1>1, <1>4, <1>5, <1>6, ConcatInOrder, Zenon DEF X
<1> DEFINE Y == X \o B
<1> HIDE DEF Y
<1>8. Below(LinesIn(Y), LinesIn(C))
  BY <1>4, <1>6, <1>7, Zenon DEF Below, Y
<1>9. /\ InOrder(Y \o C) /\ LinesIn(Y \o C) = LinesIn(Y) \cup LinesIn(C)
  BY <1>1, <1>4, <1>7, <1>8, ConcatInOrder, Zenon DEF Y
<1>10. LinesIn(Y \o C) = (1..count) \ dropped
  BY <1>4, <1>5, <1>7, <1>9, Zenon DEF X, Y
<1> QED
  BY <1>9, <1>10 DEF NothingLost, X, Y, F, W, B, C

\* The LogFile and the buffers at the start.
LEMMA InitLog ==
    ASSUME Init
    PROVE  /\ IsLog(log) /\ NamesDiffer(log) /\ Transient(log) /\ Parts
<1>1. PICK t \in 1..MaxTime :
        log = [files |-> <<[opened |-> t, last |-> t, lines |-> <<>>]>>,
               count |-> 0, lastFlush |-> t, flushed |-> {}]
  BY Zenon DEF Init
<1>2. t \in Nat /\ <<>> \in Seq(Nat)
  BY LoggingAssumption
<1>3. [opened |-> t, last |-> t, lines |-> <<>>] \in File
  BY <1>2 DEF File
<1>4. log.files = <<[opened |-> t, last |-> t, lines |-> <<>>]>>
  BY <1>1, Zenon
<1>5. log.files \in Seq(File) /\ log.files # <<>> /\ DOMAIN log.files = {1} /\ Len(log.files) = 1
  BY <1>3, <1>4
<1>6. log.files[1].lines = <<>> /\ log.files[1].last = t /\ log.files[1].opened = t
  BY <1>4
<1>7. IsLog(log) /\ NamesDiffer(log)
  <2>1. log = [files |-> log.files, count |-> log.count, lastFlush |-> log.lastFlush,
               flushed |-> log.flushed]
    BY <1>1
  <2>2. \A i, j \in {1} : ~(i < j)
    OBVIOUS
  <2> QED
    BY <1>5, <2>1, <2>2, Zenon DEF IsLog, NamesDiffer
<1>8. Transient(log)
  BY <1>2, <1>5, <1>6 DEF Transient
<1>9. Parts
  <2>1. FileLines(log) = << <<>> >>
    BY <1>5, <1>6 DEF FileLines
  <2>2. /\ InFlight = <<>> /\ buffers = <<>> /\ currentBuffer = <<>> /\ count = 0 /\ dropped = {}
    BY Zenon DEF Init, InFlight, empty
  <2> DEFINE E == <<>>
             F == << <<>> >>
  <2>3. InOrder(E) /\ LinesIn(E) = {} /\ InOrder(F) /\ LinesIn(F) = {} /\ <<E>> = F
    BY NoBlocks
  <2> HIDE DEF E, F
  <2>4. Arranged(F, E, E, E, 0, {})
    BY <2>3 DEF Arranged, Below
  <2> QED
    BY <2>1, <2>2, <2>4 DEF Parts, E, F
<1> QED
  BY <1>7, <1>8, <1>9

\* The files and the lines: what every step keeps, with the spare buffers.
Logged == IsLog(log) /\ NamesDiffer(log) /\ Transient(log) /\ Parts

\* So it is from the start.
LEMMA LoggedAlways == Spec => [](SpareBuffers /\ Logged)
<1>1. Init => Logged
  BY InitLog DEF Logged
<1>2. SpareBuffers /\ Logged /\ [Next]_vars => Logged'
  <2> SUFFICES ASSUME SpareBuffers, Logged, [Next]_vars PROVE Logged'
    OBVIOUS
  <2>1. IsLog(log)' /\ NamesDiffer(log)'
    BY NamesStep, Zenon DEF Logged, IsLog, NamesDiffer
  <2>2. Parts'
    BY PartsStep DEF Logged
  <2>3. Transient(log')
    <3>1. CASE log' = log
      BY <3>1 DEF Logged
    <3>2. CASE log' = Flushed(log)
      <4>1. Flushed(log).files = log.files
        BY FlushedFiles DEF Logged
      <4> QED
        BY <3>2, <4>1, Zenon DEF Logged, Transient
    <3>3. ASSUME NEW t \in Nat, NEW data \in Seq(Nat), log' = LogAppend(log, data, t)
          PROVE  Transient(log')
      BY <3>3, LogAppendTransient DEF Logged
    <3> QED
      BY <3>1, <3>2, <3>3, LogCases
  <2> QED
    BY <2>1, <2>2, <2>3, Zenon DEF Logged, Transient
<1> QED
  BY <1>1, <1>2, SpareAlways, PTL DEF Spec

\* No two files of a LogFile have one name, for any size, any number of lines and
\* any clock: RollFile compares with the newest file, whose second is the largest.
THEOREM NamesAlwaysDiffer == Spec => []FileNamesDiffer
<1>1. Logged => FileNamesDiffer
  BY DEF Logged, NamesDiffer, FileNamesDiffer
<1> QED
  BY <1>1, LoggedAlways, PTL

\* Whatever the interleaving of appends, the wait, the drop of too many buffers
\* and failed writes: every line that was appended and not dropped is in the
\* files or on its way to them, once and in the order of the appends.
THEOREM NoLineIsLost == Spec => []NothingLost
<1>1. SpareBuffers /\ Logged => NothingLost
  BY PartsNothingLost DEF Logged
<1> QED
  BY <1>1, LoggedAlways, PTL

\* Whatever the clock does, a file beyond its size is rolled by the next append of
\* a later second than the one in its name.
THEOREM OversizeStaysTransient == Spec => []OversizeIsTransient
<1>1. Logged => OversizeIsTransient
  BY DEF Logged, Transient, OversizeIsTransient
<1> QED
  BY <1>1, LoggedAlways, PTL
=============================================================================
