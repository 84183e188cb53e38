--------------------------- MODULE DispatchProofs ---------------------------
(***************************************************************************)
(* The dispatcher of MediaServer gives way to the routines it feeds often  *)
(* enough: the buffers last as long as every peer has a routine.           *)
(***************************************************************************)
EXTENDS MediaProofs

\* The dispatcher has not given way to the loop.
Unyielded == running = Dispatcher \/ dpc \in {"parked", "blocked"}

\* Peers that have a routine.
Served == {p \in Peers : RoutineOf(p) # {}}

\* The packets that are a served peer's.
Waiting == Packets(packets, Served)

\* The Calls of the peers that have packets come before the dispatcher's.
Turns ==
    \A r \in Routines : routine[r] # None /\ packets[routine[r]] # <<>>
                          => Before(Queue, Call(r), Call(Dispatcher))

\* The dispatcher is resumed by one Call, behind all who have packets, when it has
\* given way; until it does, it delivers one packet per tick.
Yield ==
    /\ dpc \in {"alloc", "recv", "recvfrom", "parked", "flush", "sendto", "blocked"}
    /\ ticks \in 0..(TicksMax - 1)
    /\ Count(Queue, Call(Dispatcher)) = IF Unyielded THEN 0 ELSE 1
    /\ ~Unyielded => Turns
    /\ Unyielded => Cardinality(Waiting) <= IF dpc = "recvfrom" THEN ticks ELSE ticks + 1

\* The ticks stay below their number.
LEMMA TicksBound ==
    ASSUME Yield
    PROVE  ticks \in Nat /\ ticks + 1 <= TicksMax
<1>1. ticks \in 0..(TicksMax - 1)
  BY DEF Yield
<1>2. PICK n \in Nat : n = TicksMax
  BY MediaAssumption
<1> QED
  BY <1>1, <1>2

\* The packets of served peers are finitely many.
LEMMA WaitingFinite ==
    ASSUME Line
    PROVE  IsFiniteSet(Waiting) /\ Cardinality(Waiting) \in Nat
  BY PacketsFinite DEF Line, Waiting, Served

\* Packets that are in packets_ that do not grow, of no more peers.
LEMMA PacketsFewer ==
    ASSUME NEW f \in [Peers -> Seq(Kinds)], NEW g \in [Peers -> Seq(Kinds)],
           NEW S \in SUBSET Peers, NEW T \in SUBSET Peers,
           \A q \in T : g[q] = <<>> \/ (q \in S /\ g[q] = f[q])
    PROVE  Packets(g, T) \subseteq Packets(f, S)
<1>1. ASSUME NEW q \in T PROVE {q} \X DOMAIN g[q] \subseteq Packets(f, S)
  <2>1. CASE g[q] = <<>>
    <3>1. DOMAIN g[q] = {}
      BY <2>1
    <3> QED
      BY <3>1
  <2>2. CASE q \in S /\ g[q] = f[q]
    BY <2>2 DEF Packets
  <2> QED
    BY <1>1, <2>1, <2>2
<1> QED
  BY <1>1 DEF Packets

\* A step that leaves the dispatcher where it is.
LEMMA YieldKept ==
    ASSUME Line, Line', Yield, Unyielded' = Unyielded, UNCHANGED <<dpc, ticks>>,
           Waiting' \subseteq Waiting,
           Count(Queue', Call(Dispatcher)) = Count(Queue, Call(Dispatcher)),
           Turns => Turns'
    PROVE  Yield'
<1>1. /\ Cardinality(Waiting) \in Nat /\ Cardinality(Waiting') \in Nat
      /\ Cardinality(Waiting') <= Cardinality(Waiting)
  BY WaitingFinite, FS_Subset, FS_CardinalityType
<1>2. ticks \in Nat
  BY TicksBound
<1> QED
  BY <1>1, <1>2 DEF Yield

\* A peer's packets are taken.
LEMMA WaitingTaken ==
    ASSUME Line, Line', NEW p \in Peers, packets' = [packets EXCEPT ![p] = <<>>],
           \A q \in Peers \ {p} : RoutineOf(q)' = RoutineOf(q)
    PROVE  Waiting' \subseteq Waiting
<1>1. packets \in [Peers -> Seq(Kinds)] /\ packets' \in [Peers -> Seq(Kinds)]
      /\ Served \in SUBSET Peers /\ Served' \in SUBSET Peers
  BY DEF Line, Served
<1>2. \A q \in Served' : packets'[q] = <<>> \/ (q \in Served /\ packets'[q] = packets[q])
  BY <1>1 DEF Served
<1> QED
  BY <1>1, <1>2, PacketsFewer, Zenon DEF Waiting

\* A routine takes the packets of its peer, and with it the peer's Call.
LEMMA YieldServe ==
    ASSUME Inv, Line, Line', Yield, NEW r \in Routines, NEW p \in Peers,
           packets' = [packets EXCEPT ![p] = <<>>], UNCHANGED <<functions, dpc, ticks>>,
           \/ routine[r] = p /\ UNCHANGED routine
           \/ routine[r] = None /\ routine' = [routine EXCEPT ![r] = p],
           \/ UNCHANGED batch
           \/ batch # <<>> /\ batch' = Tail(batch) /\ Head(batch) = Call(r),
           running = Main, running' = r
    PROVE  Yield'
<1>1. batch \in Seq(Entries) /\ functions \in Seq(Entries)
      /\ routine \in [Routines -> Peers \cup {None}]
      /\ packets \in [Peers -> Seq(Kinds)] /\ r # Dispatcher /\ Main # Dispatcher
  BY Types, Ids
<1>2. /\ Count(Queue', Call(Dispatcher)) = Count(Queue, Call(Dispatcher))
      /\ \A s \in Routines \ {r} : Before(Queue, Call(s), Call(Dispatcher))
                                      => Before(Queue', Call(s), Call(Dispatcher))
  <2>1. CASE UNCHANGED batch
    BY <1>1, <2>1, QueueKept
  <2>2. CASE batch # <<>> /\ batch' = Tail(batch) /\ Head(batch) = Call(r)
    <3>1. /\ Queue \in Seq(Entries) /\ Queue # <<>> /\ Head(Queue) = Call(r)
          /\ Queue' = Tail(Queue) /\ Tail(Queue) \in Seq(Entries)
      BY <1>1, <2>2, QueuePop
    <3>2. Count(Queue', Call(Dispatcher)) = Count(Queue, Call(Dispatcher))
      <4>1. Head(Queue) # Call(Dispatcher) /\ Count(Tail(Queue), Call(Dispatcher)) \in Nat
        BY <1>1, <3>1, EntryKinds, CountType, Zenon
      <4> QED
        BY <3>1, <4>1, CountTail
    <3>3. ASSUME NEW s \in Routines \ {r}, Before(Queue, Call(s), Call(Dispatcher))
          PROVE  Before(Queue', Call(s), Call(Dispatcher))
      <4>1. Head(Queue) # Call(s)
        BY <3>1, EntryKinds
      <4> QED
        BY <3>1, <3>3, <4>1, AfterPop
    <3> QED
      BY <3>2, <3>3
  <2> QED
    BY <2>1, <2>2
<1>3. p # None /\ routine'[r] = p /\ \A s \in Routines \ {r} : routine'[s] = routine[s]
  BY <1>1, MediaAssumption
<1>4. packets'[p] = <<>> /\ \A q \in Peers \ {p} : packets'[q] = packets[q]
  BY <1>1
<1>5. ASSUME NEW q \in Peers \ {p} PROVE RoutineOf(q)' = RoutineOf(q)
  <2>1. q # None
    BY MediaAssumption
  <2> QED
    BY <1>3, <2>1 DEF RoutineOf
<1>6. ASSUME Turns, NEW s \in Routines, routine'[s] # None, packets'[routine'[s]] # <<>>
      PROVE  Before(Queue', Call(s), Call(Dispatcher))
  <2>1. s # r /\ routine[s] = routine'[s] /\ routine[s] # p /\ routine[s] \in Peers
    BY <1>1, <1>3, <1>4, <1>6
  <2>2. packets[routine[s]] # <<>>
    BY <1>4, <1>6, <2>1
  <2> QED
    BY <1>2, <1>6, <2>1, <2>2 DEF Turns
<1>7. Turns => Turns'
  BY <1>6 DEF Turns
<1>8. Waiting' \subseteq Waiting
  BY <1>5, WaitingTaken, Zenon
<1>9. Unyielded' = Unyielded
  BY <1>1 DEF Unyielded
<1> QED
  BY <1>2, <1>7, <1>8, <1>9, YieldKept

\* A peer ends with its packets.
LEMMA YieldEnd ==
    ASSUME Inv, Line, Line', Yield, NEW r \in Routines, routine[r] \in Peers,
           packets' = [packets EXCEPT ![routine[r]] = <<>>],
           routine' = [routine EXCEPT ![r] = None],
           UNCHANGED <<batch, functions, dpc, ticks>>,
           running # Dispatcher, running' = Main
    PROVE  Yield'
<1> DEFINE p == routine[r]
<1>1. batch \in Seq(Entries) /\ functions \in Seq(Entries)
      /\ routine \in [Routines -> Peers \cup {None}]
      /\ packets \in [Peers -> Seq(Kinds)] /\ p \in Peers /\ p # None /\ Main # Dispatcher
  BY Types, Ids, MediaAssumption
<1>2. Queue' = Queue
  BY <1>1, QueueKept
<1>3. packets'[p] = <<>> /\ \A q \in Peers \ {p} : packets'[q] = packets[q]
  BY <1>1
<1>4. routine'[r] = None /\ \A s \in Routines \ {r} : routine'[s] = routine[s]
  BY <1>1
<1>5. ASSUME NEW q \in Peers \ {p} PROVE RoutineOf(q)' = RoutineOf(q)
  <2>1. q # None
    BY MediaAssumption
  <2> QED
    BY <1>4, <2>1 DEF RoutineOf
<1>6. ASSUME Turns, NEW s \in Routines, routine'[s] # None, packets'[routine'[s]] # <<>>
      PROVE  Before(Queue', Call(s), Call(Dispatcher))
  <2>1. s # r /\ routine[s] = routine'[s] /\ routine[s] # p /\ routine[s] \in Peers
    BY <1>1, <1>3, <1>4, <1>6
  <2>2. packets[routine[s]] # <<>>
    BY <1>3, <1>6, <2>1
  <2> QED
    BY <1>2, <1>6, <2>1, <2>2 DEF Turns
<1>7. Turns => Turns'
  BY <1>6 DEF Turns
<1>8. Waiting' \subseteq Waiting
  <2> HIDE DEF p
  <2>1. packets' = [packets EXCEPT ![p] = <<>>]
    BY DEF p
  <2> QED
    BY <1>1, <1>5, <2>1, WaitingTaken, Zenon
<1>9. Unyielded' = Unyielded
  BY <1>1 DEF Unyielded
<1> QED
  BY <1>2, <1>7, <1>8, <1>9, YieldKept

\* The queue changes at an entry that is nobody's Call, and the packets do not.
LEMMA YieldQuiet ==
    ASSUME Inv, Line, Line', Yield, UNCHANGED <<routine, packets, dpc, ticks>>,
           Unyielded' = Unyielded,
           \/ UNCHANGED <<batch, functions>>
           \/ batch = <<>> /\ batch' = functions /\ functions' = <<>>
           \/ batch # <<>> /\ batch' = Tail(batch) /\ Head(batch) = Drain /\ UNCHANGED functions
           \/ /\ batch # <<>> /\ batch' = <<Drain>> \o Tail(batch) /\ UNCHANGED functions
              /\ \E p \in Peers : Head(batch) = Start(p)
           \/ UNCHANGED batch /\ \E p \in Peers : functions' = Append(functions, Start(p))
    PROVE  Yield'
<1> DEFINE d == Call(Dispatcher)
<1>1. batch \in Seq(Entries) /\ functions \in Seq(Entries) /\ Drain \in Entries
      /\ \A p \in Peers : Start(p) \in Entries
  BY DEF Line, Entries
<1>2. (\A r : Drain # Call(r)) /\ (\A r, p : Start(p) # Call(r))
  BY EntryKinds
<1> HIDE DEF d
<1>3. /\ Count(Queue', d) = Count(Queue, d)
      /\ \A r \in Routines : Before(Queue, Call(r), d) => Before(Queue', Call(r), d)
  <2>1. CASE \/ UNCHANGED <<batch, functions>>
             \/ batch = <<>> /\ batch' = functions /\ functions' = <<>>
    BY <1>1, <2>1, QueueKept
  <2>2. CASE batch # <<>> /\ batch' = Tail(batch) /\ Head(batch) = Drain /\ UNCHANGED functions
    <3>1. /\ Queue \in Seq(Entries) /\ Queue # <<>> /\ Head(Queue) = Drain
          /\ Queue' = Tail(Queue) /\ Tail(Queue) \in Seq(Entries)
      BY <1>1, <2>2, QueuePop
    <3>2. Head(Queue) # d /\ Count(Tail(Queue), d) \in Nat
      BY <1>2, <3>1, CountType, Zenon DEF d
    <3>3. Count(Queue', d) = Count(Queue, d)
      BY <3>1, <3>2, CountTail
    <3>4. ASSUME NEW r \in Routines, Before(Queue, Call(r), d) PROVE Before(Queue', Call(r), d)
      <4>1. Head(Queue) # Call(r)
        BY <1>2, <3>1
      <4> QED
        BY <3>1, <3>4, <4>1, AfterPop
    <3> QED
      BY <3>3, <3>4
  <2>3. ASSUME NEW p \in Peers, Head(batch) = Start(p), batch # <<>>,
               batch' = <<Drain>> \o Tail(batch), UNCHANGED functions
        PROVE  /\ Count(Queue', d) = Count(Queue, d)
               /\ \A r \in Routines : Before(Queue, Call(r), d) => Before(Queue', Call(r), d)
    <3>1. /\ Queue \in Seq(Entries) /\ Queue # <<>> /\ Head(Queue) = Start(p)
          /\ Queue' = <<Drain>> \o Tail(Queue) /\ Tail(Queue) \in Seq(Entries)
          /\ Queue' \in Seq(Entries) /\ Queue' # <<>> /\ Head(Queue') = Drain
          /\ Tail(Queue') = Tail(Queue)
      BY <1>1, <2>3, QueueSwap
    <3>2. Head(Queue) # d /\ Head(Queue') # d
      BY <1>2, <3>1 DEF d
    <3>3. Count(Queue, d) = Count(Tail(Queue), d) /\ Count(Queue', d) = Count(Tail(Queue), d)
      <4>1. Count(Tail(Queue), d) \in Nat
        BY <3>1, CountType, Zenon
      <4>2. Count(Queue, d) = Count(Tail(Queue), d)
        BY <3>1, <3>2, <4>1, CountTail
      <4>3. Count(Queue', d) = Count(Tail(Queue), d)
        <5>1. Count(Queue', d) = Count(Tail(Queue'), d) + (IF Head(Queue') = d THEN 1 ELSE 0)
          BY <3>1, CountTail, Zenon
        <5>2. Tail(Queue') = Tail(Queue) /\ Head(Queue') # d
          BY <3>1, <3>2
        <5>3. Count(Queue', d) = Count(Tail(Queue), d) + 0
          BY <5>1, <5>2, Zenon
        <5> QED
          BY <4>1, <5>3
      <4> QED
        BY <4>2, <4>3
    <3>4. ASSUME NEW r \in Routines, Before(Queue, Call(r), d) PROVE Before(Queue', Call(r), d)
      <4>1. Head(Queue) # Call(r) /\ Drain # d
        BY <1>2, <3>1 DEF d
      <4> QED
        BY <1>1, <3>1, <3>4, <4>1, AfterSwap
    <3> QED
      BY <3>3, <3>4
  <2>4. ASSUME NEW p \in Peers, functions' = Append(functions, Start(p)), UNCHANGED batch
        PROVE  /\ Count(Queue', d) = Count(Queue, d)
               /\ \A r \in Routines : Before(Queue, Call(r), d) => Before(Queue', Call(r), d)
    <3>1. Queue \in Seq(Entries) /\ Queue' = Append(Queue, Start(p)) /\ Start(p) \in Entries
      BY <1>1, <2>4, QueuePush
    <3>2. Start(p) # d /\ Count(Queue, d) \in Nat
      BY <1>2, <3>1, CountType DEF d
    <3>3. Count(Queue', d) = Count(Queue, d)
      BY <3>1, <3>2, CountAppend
    <3>4. ASSUME NEW r \in Routines, Before(Queue, Call(r), d) PROVE Before(Queue', Call(r), d)
      BY <3>1, <3>2, <3>4, AfterPush
    <3> QED
      BY <3>3, <3>4
  <2> QED
    BY <2>1, <2>2, <2>3, <2>4
<1>4. Turns => Turns'
  BY <1>3 DEF Turns, d
<1>5. Waiting' = Waiting
  BY DEF Waiting, Served, RoutineOf
<1> QED
  BY <1>3, <1>4, <1>5, YieldKept DEF d

\* The dispatcher goes on, or is resumed by the socket.
LEMMA YieldRun ==
    ASSUME Line, Yield, UNCHANGED <<routine, packets, batch, functions, ticks>>,
           Unyielded, Unyielded',
           dpc' \in {"alloc", "recv", "parked", "flush", "sendto", "blocked"}
    PROVE  Yield'
<1>1. Waiting' = Waiting /\ Queue' = Queue
  BY DEF Waiting, Served, RoutineOf, Queue
<1>2. Cardinality(Waiting) \in Nat /\ ticks \in Nat
  BY WaitingFinite, TicksBound
<1> QED
  BY <1>1, <1>2 DEF Yield

\* CheckTicks: one more tick, or the dispatcher's Call is queued behind the others.
LEMMA YieldTick ==
    ASSUME Line, Yield, TickRecv \/ TickSend
    PROVE  Yield'
<1> DEFINE d == Call(Dispatcher)
<1>1. /\ running = Dispatcher /\ UNCHANGED <<routine, packets, batch>>
      /\ dpc # "recvfrom" /\ dpc' \in {"recvfrom", "sendto"}
      /\ IF ticks + 1 >= TicksMax
         THEN ticks' = 0 /\ running' = Main /\ functions' = Append(functions, d)
         ELSE ticks' = ticks + 1 /\ UNCHANGED <<running, functions>>
  BY DEF TickRecv, TickSend, CheckTicks, Dispatching, QuietDispatch, peers, pool
<1>2. batch \in Seq(Entries) /\ functions \in Seq(Entries) /\ d \in Entries
      /\ Queue \in Seq(Entries)
  BY DEF Line, Entries, Queue
<1>3. Unyielded /\ Main # Dispatcher
  BY <1>1, Ids DEF Unyielded
<1>4. Waiting' = Waiting /\ Cardinality(Waiting) \in Nat /\ ticks \in Nat /\ TicksMax \in Nat \ {0}
  <2>1. Waiting' = Waiting
    BY <1>1 DEF Waiting, Served, RoutineOf
  <2> QED
    BY <2>1, WaitingFinite, TicksBound, MediaAssumption
<1>5. Count(Queue, d) = 0 /\ Cardinality(Waiting) <= ticks + 1
  BY <1>1, <1>3 DEF Yield
<1> HIDE DEF d
<1>6. CASE ticks + 1 >= TicksMax
  <2>1. Queue' = Append(Queue, d)
    BY <1>1, <1>2, <1>6, QueuePush
  <2>2. Count(Queue', d) = 1
    BY <1>2, <1>5, <2>1, CountAppend
  <2>3. ASSUME NEW r \in Routines, routine'[r] # None, packets'[routine'[r]] # <<>>
        PROVE  Before(Queue', Call(r), d)
    <3>1. Call(r) \in Range(Queue)
      BY <1>1, <2>3 DEF Line
    <3>2. Before(Queue, Call(r), d)
      BY <1>2, <1>5, CountZero DEF Before
    <3> QED
      BY <1>2, <2>1, <3>1, <3>2, AfterPush
  <2>4. Turns'
    BY <2>3 DEF Turns, d
  <2>5. ~Unyielded'
    BY <1>1, <1>3, <1>6 DEF Unyielded
  <2>6. ticks' \in 0..(TicksMax - 1)
    BY <1>1, <1>4, <1>6
  <2> QED
    BY <1>1, <2>2, <2>4, <2>5, <2>6 DEF Yield, d
<1>7. CASE ~(ticks + 1 >= TicksMax)
  <2>1. Queue' = Queue /\ Unyielded' /\ ticks' = ticks + 1
    BY <1>1, <1>7 DEF Queue, Unyielded
  <2>2. ticks' \in 0..(TicksMax - 1)
    BY <1>4, <1>7, <2>1
  <2>3. Cardinality(Waiting') <= ticks' /\ Cardinality(Waiting') <= ticks' + 1
    BY <1>4, <1>5, <2>1
  <2> QED
    BY <1>1, <1>5, <2>1, <2>2, <2>3 DEF Yield, d
<1> QED
  BY <1>6, <1>7

\* Its Call runs: all that had packets have run before it.
LEMMA YieldResume ==
    ASSUME Inv, Line, Line', Yield, RunDispatcher
    PROVE  Yield'
<1> DEFINE d == Call(Dispatcher)
<1>1. /\ running = Main /\ batch # <<>> /\ Head(batch) = d /\ batch' = Tail(batch)
      /\ running' = Dispatcher
      /\ UNCHANGED <<routine, packets, functions, dpc, ticks>>
  BY DEF RunDispatcher, peers, pool, dispatcher
<1> HIDE DEF d
<1>2. batch \in Seq(Entries) /\ functions \in Seq(Entries)
      /\ packets \in [Peers -> Seq(Kinds)] /\ routine \in [Routines -> Peers \cup {None}]
  BY DEF Line, Inv, Table
<1>3. /\ Queue \in Seq(Entries) /\ Queue # <<>> /\ Head(Queue) = d
      /\ Queue' = Tail(Queue) /\ Tail(Queue) \in Seq(Entries)
  BY <1>1, <1>2, QueuePop
<1>4. Count(Tail(Queue), d) \in Nat /\ Count(Queue, d) = Count(Tail(Queue), d) + 1
  BY <1>3, CountType, CountTail, Zenon
<1>5. ~Unyielded /\ Count(Queue', d) = 0
  BY <1>3, <1>4 DEF Yield, d
<1>6. ASSUME NEW r \in Routines, routine[r] # None PROVE packets[routine[r]] = <<>>
  <2> SUFFICES ASSUME packets[routine[r]] # <<>> PROVE FALSE
    OBVIOUS
  <2>1. Before(Queue, Call(r), d)
    BY <1>5, <1>6 DEF Yield, Turns, d
  <2>2. 1 \in 1..Len(Queue) /\ Queue[1] = d
    BY <1>3
  <2>3. PICK j \in 1..(1 - 1) : Queue[j] = Call(r)
    BY <2>1, <2>2 DEF Before
  <2> QED
    BY <2>3
<1>7. Waiting = {}
  <2>1. \A p \in Served : packets[p] = <<>>
    <3> TAKE p \in Served
    <3>1. PICK r \in Routines : routine[r] = p
      BY DEF Served, RoutineOf
    <3> QED
      BY <1>6, <3>1, MediaAssumption DEF Served
  <2>2. \A p \in Served : DOMAIN packets[p] = {}
    BY <2>1
  <2> QED
    BY <2>2 DEF Waiting, Packets
<1>8. Cardinality(Waiting') = 0
  BY <1>1, <1>7, FS_EmptySet, Zenon DEF Waiting, Served, RoutineOf
<1>9. Unyielded' /\ ticks' \in Nat
  BY <1>1, TicksBound DEF Unyielded
<1> QED
  BY <1>1, <1>5, <1>8, <1>9 DEF Yield, d

\* A delivery adds one packet.
LEMMA YieldDeliver ==
    ASSUME Inv, Line, Line', Yield, NEW p \in alive, NEW k \in Kinds, Deliver(p, k),
           UNCHANGED <<routine, batch, running, ticks>>,
           running = Dispatcher, dpc = "recvfrom", dpc' = "flush"
    PROVE  Yield'
<1> DEFINE d == Call(Dispatcher)
           x == <<p, Len(packets[p]) + 1>>
<1>1. /\ packets' = [packets EXCEPT ![p] = Append(@, k)]
      /\ Queue \in Seq(Entries)
      /\ RoutineOf(p) = {} => Queue' = Queue
      /\ \A r \in RoutineOf(p) : Call(r) \in Entries /\ Queue' = Append(Queue, Call(r))
  BY Delivered
<1>2. p \in Peers /\ packets \in [Peers -> Seq(Kinds)] /\ Unyielded /\ Unyielded'
  BY DEF Line, Inv, Table, Unyielded
<1>3. Count(Queue, d) = 0 /\ Cardinality(Waiting) <= ticks
  BY <1>2 DEF Yield
<1>4. Count(Queue', d) = 0
  <2> HIDE DEF d
  <2>1. CASE RoutineOf(p) = {}
    BY <1>1, <1>3, <2>1
  <2>2. ASSUME NEW r \in RoutineOf(p) PROVE Count(Queue', d) = 0
    <3>1. Call(r) # d
      BY EntryKinds, MediaAssumption DEF RoutineOf, d
    <3>2. Count(Append(Queue, Call(r)), d) = Count(Queue, d) + (IF Call(r) = d THEN 1 ELSE 0)
      <4>1. Queue \in Seq(Entries) /\ Call(r) \in Entries
        BY <1>1
      <4> QED
        BY <4>1, CountAppend
    <3>3. Count(Append(Queue, Call(r)), d) = 0
      BY <1>3, <3>1, <3>2
    <3> QED
      BY <1>1, <3>3, Zenon
  <2> QED
    BY <2>1, <2>2
<1>5. Waiting' \subseteq Waiting \cup {x}
  <2>1. Served' = Served
    BY DEF Served, RoutineOf
  <2>2. DOMAIN packets'[p] \subseteq DOMAIN packets[p] \cup {Len(packets[p]) + 1}
    <3>1. packets[p] \in Seq(Kinds) /\ packets'[p] = Append(packets[p], k)
      BY <1>1, <1>2
    <3> QED
      BY <3>1
  <2>3. \A q \in Peers \ {p} : packets'[q] = packets[q]
    BY <1>1, <1>2
  <2>4. ASSUME NEW q \in Served PROVE {q} \X DOMAIN packets'[q] \subseteq Waiting \cup {x}
    <3>1. {q} \X DOMAIN packets[q] \subseteq Waiting
      BY DEF Waiting, Packets
    <3>2. CASE q = p
      BY <2>2, <3>1, <3>2
    <3>3. CASE q # p
      BY <2>3, <3>1, <3>3 DEF Served
    <3> QED
      BY <3>2, <3>3
  <2> HIDE DEF x
  <2> QED
    BY <2>1, <2>4 DEF Waiting, Packets
<1>6. Cardinality(Waiting') \in Nat /\ Cardinality(Waiting') <= Cardinality(Waiting) + 1
  <2> HIDE DEF x
  <2>1. IsFiniteSet(Waiting) /\ Cardinality(Waiting) \in Nat
    BY WaitingFinite
  <2>2. IsFiniteSet(Waiting \cup {x}) /\ Cardinality(Waiting \cup {x}) <= Cardinality(Waiting) + 1
    <3>1. /\ IsFiniteSet(Waiting \cup {x})
          /\ Cardinality(Waiting \cup {x})
                = IF x \in Waiting THEN Cardinality(Waiting) ELSE Cardinality(Waiting) + 1
      BY <2>1, FS_AddElement
    <3> HIDE DEF x
    <3>2. PICK n \in Nat : n = Cardinality(Waiting)
      BY <2>1
    <3>3. n <= n + 1 /\ n + 1 <= n + 1
      OBVIOUS
    <3> QED
      BY <3>1, <3>2, <3>3
  <2>3. IsFiniteSet(Waiting') /\ Cardinality(Waiting') <= Cardinality(Waiting \cup {x})
    BY <1>5, <2>2, FS_Subset
  <2>4. Cardinality(Waiting') \in Nat /\ Cardinality(Waiting \cup {x}) \in Nat
    BY <2>2, <2>3, FS_CardinalityType
  <2> QED
    BY <2>1, <2>2, <2>3, <2>4
<1>7. Cardinality(Waiting') <= ticks' + 1 /\ ticks \in Nat
  <2>1. ticks \in Nat /\ Cardinality(Waiting) \in Nat
    BY WaitingFinite, TicksBound
  <2> QED
    BY <1>3, <1>6, <2>1
<1> QED
  BY <1>2, <1>4, <1>7 DEF Yield

\* Every step.
LEMMA YieldStep ==
    ASSUME Inv, Line, Line', Yield, [Next]_vars
    PROVE  Yield'
<1>0. Main # Dispatcher /\ Main \notin Routines /\ Dispatcher \notin Routines
  BY Ids
<1>1. CASE RunDispatcher
  BY <1>1, YieldResume
<1>2. ASSUME NEW r \in Routines, RunCall(r) PROVE Yield'
  <2>1. running = Main /\ batch # <<>> /\ Head(batch) = Call(r)
    BY <1>2, Zenon DEF RunCall
  <2>2. CASE /\ routine[r] # None /\ ResumeMedia(r, routine[r])
             /\ batch' = Tail(batch) /\ UNCHANGED pool
    <3>1. /\ routine[r] \in Peers /\ packets' = [packets EXCEPT ![routine[r]] = <<>>]
          /\ UNCHANGED <<functions, routine, dpc, ticks>> /\ running' = r
      BY <2>2 DEF ResumeMedia, pool, dispatcher, Inv, Table
    <3> QED
      BY <2>1, <2>2, <3>1, YieldServe, Zenon
  <2>3. CASE /\ routine[r] = None /\ tasks # <<>>
             /\ routine' = [routine EXCEPT ![r] = Head(tasks)] /\ tasks' = Tail(tasks)
             /\ ResumeMedia(r, Head(tasks)) /\ batch' = Tail(batch)
    <3>1. /\ Head(tasks) \in Peers /\ packets' = [packets EXCEPT ![Head(tasks)] = <<>>]
          /\ UNCHANGED <<functions, dpc, ticks>> /\ running' = r
      BY <2>3 DEF ResumeMedia, dispatcher, Inv, Table
    <3> QED
      BY <2>1, <2>3, <3>1, YieldServe, Zenon
  <2>4. CASE Dies("no task")
    <3>1. UNCHANGED <<routine, packets, batch, functions, dpc, ticks, running>>
      BY <2>4, Zenon DEF Dies, peers, pool, loop, dispatcher
    <3>2. Unyielded' = Unyielded
      BY <3>1 DEF Unyielded
    <3> QED
      BY <3>1, <3>2, YieldQuiet
  <2> QED
    BY <1>2, <2>2, <2>3, <2>4, Zenon DEF RunCall
<1>3. ASSUME NEW p \in Peers, RunStart(p) PROVE Yield'
  <2>1. /\ batch # <<>> /\ Head(batch) = Start(p) /\ batch' = <<Drain>> \o Tail(batch)
        /\ UNCHANGED <<routine, packets, functions, dpc, ticks, running>>
    BY <1>3 DEF RunStart, peers, dispatcher
  <2>2. Unyielded' = Unyielded
    BY <2>1 DEF Unyielded
  <2> QED
    BY <2>1, <2>2, YieldQuiet
<1>4. CASE RunDrain
  <2>1. running = Main /\ batch # <<>> /\ Head(batch) = Drain
    BY <1>4 DEF RunDrain
  <2>2. CASE tasks # <<>> /\ FreeRoutines # {}
    <3>1. /\ routine' = [routine EXCEPT ![FirstFree] = Head(tasks)]
          /\ packets' = [packets EXCEPT ![Head(tasks)] = <<>>]
          /\ UNCHANGED <<functions, batch, dpc, ticks>> /\ running' = FirstFree
      BY <1>4, <2>2 DEF RunDrain, ResumeMedia, dispatcher
    <3>2. Head(tasks) \in Peers /\ FirstFree \in Routines /\ routine[FirstFree] = None
      BY <2>2, FirstFreeIsFree DEF Inv, Table
    <3> QED
      BY <2>1, <3>1, <3>2, YieldServe, Zenon
  <2>3. CASE ~(tasks # <<>> /\ FreeRoutines # {})
    <3>1. /\ UNCHANGED <<routine, packets, functions, dpc, ticks, running>>
          /\ batch' = Tail(batch)
      BY <1>4, <2>3 DEF RunDrain, peers, pool, dispatcher
    <3>2. Unyielded' = Unyielded
      BY <3>1 DEF Unyielded
    <3> QED
      BY <2>1, <3>1, <3>2, YieldQuiet
  <2> QED
    BY <2>2, <2>3
<1>5. ASSUME NEW r \in Routines, ProcessNext(r) \/ MediaTimeout(r) PROVE Yield'
  <2>1. UNCHANGED <<dpc, ticks>> /\ running # Dispatcher
    BY <1>0, <1>5, Zenon DEF ProcessNext, MediaTimeout, AsyncSend, dispatcher, TimersRun
  <2>2. CASE EndMedia(r)
    <3>1. routine[r] \in Peers
      BY <1>5 DEF ProcessNext, MediaTimeout, Inv, Table
    <3>2. /\ packets' = [packets EXCEPT ![routine[r]] = <<>>]
          /\ routine' = [routine EXCEPT ![r] = None] /\ running' = Main
          /\ UNCHANGED <<batch, functions>>
      BY <2>2, Zenon DEF EndMedia, PeerConnectionDelete
    <3> QED
      BY <2>1, <3>1, <3>2, YieldEnd, Zenon
  <2>3. CASE UNCHANGED <<packets, pool, loop>>
    <3>1. UNCHANGED <<routine, packets, batch, functions, running>>
      BY <2>3 DEF pool, loop
    <3>2. Unyielded' = Unyielded
      BY <2>1, <3>1 DEF Unyielded
    <3> QED
      BY <2>1, <3>1, <3>2, YieldQuiet
  <2> QED
    BY <1>5, <2>2, <2>3 DEF ProcessNext, MediaTimeout
<1>6. ASSUME NEW r \in Routines, Park(r) PROVE Yield'
  <2>1. /\ UNCHANGED <<routine, packets, batch, functions, dpc, ticks>>
        /\ running = r /\ running' = Main
    BY <1>6 DEF Park, peers, pool, dispatcher
  <2>2. Unyielded' = Unyielded
    BY <1>0, <2>1 DEF Unyielded
  <2> QED
    BY <2>1, <2>2, YieldQuiet
<1>7. ASSUME NEW u \in Ufrags, NEW p \in Peers, Pub(u, p) PROVE Yield'
  <2>1. /\ UNCHANGED <<routine, packets, batch, dpc, ticks, running>>
        /\ UNCHANGED functions \/ functions' = Append(functions, Start(p))
    BY <1>7, Zenon DEF Pub, Dies, peers, pool, loop, dispatcher
  <2>2. Unyielded' = Unyielded
    BY <2>1 DEF Unyielded
  <2> QED
    BY <2>1, <2>2, YieldQuiet
<1>8. ASSUME NEW a \in Addrs, NEW k \in Kinds, NEW u \in Ufrags, RecvFrom(a, k, u)
      PROVE  Yield'
  <2>1. /\ UNCHANGED <<routine, batch, running, ticks>>
        /\ running = Dispatcher /\ dpc = "recvfrom" /\ dpc' = "flush"
    BY <1>8 DEF RecvFrom, Dispatching, pool
  <2>2. ASSUME NEW p \in alive, Deliver(p, k) PROVE Yield'
    BY <2>1, <2>2, YieldDeliver
  <2>3. CASE UNCHANGED <<packets, functions>>
    <3>1. Unyielded /\ Unyielded'
      BY <2>1 DEF Unyielded
    <3> QED
      BY <2>1, <2>3, <3>1, YieldRun
  <2> QED
    BY <1>8, <2>2, <2>3 DEF RecvFrom
<1>9. CASE TickRecv \/ TickSend
  BY <1>9, YieldTick
<1>10. CASE EndTurn
  <2>1. /\ UNCHANGED <<routine, packets, dpc, ticks, running>> /\ phase = "timers"
        /\ batch' = functions /\ functions' = <<>>
    BY <1>10 DEF EndTurn, peers, pool, dispatcher
  <2>2. batch = <<>> /\ Unyielded' = Unyielded
    BY <2>1 DEF Line, Unyielded
  <2> QED
    BY <2>1, <2>2, YieldQuiet
<1>11. CASE \/ Poll \/ PollIn \/ PollOut \/ Ended \/ UNCHANGED vars
            \/ \E p \in Peers : DtlsTimer(p) \/ PliTimer(p)
  <2>1. UNCHANGED <<routine, packets, batch, functions, dpc, ticks, running>>
    BY <1>11, Zenon DEF Poll, PollIn, PollOut, SetPhase, DtlsTimer, PliTimer, TimerOutcome,
       AsyncSend, Ended, vars, peers, pool, loop, dispatcher
  <2>2. Unyielded' = Unyielded
    BY <2>1 DEF Unyielded
  <2> QED
    BY <2>1, <2>2, YieldQuiet
<1>12. CASE Readable \/ Writable \/ RecvTimeout
  <2>1. /\ UNCHANGED <<routine, packets, batch, functions, ticks>>
        /\ dpc \in {"parked", "blocked"} /\ dpc' \in {"recv", "flush"} /\ running' = Dispatcher
    BY <1>12 DEF Readable, Writable, RecvTimeout, SetPhase, peers, pool
  <2>2. Unyielded /\ Unyielded'
    BY <2>1 DEF Unyielded
  <2> QED
    BY <2>1, <2>2, YieldRun
<1>13. CASE Alloc \/ RecvAgain \/ RecvInterrupted \/ Sendto \/ SendtoAgain \/ EndFlush
  <2>1. /\ UNCHANGED <<routine, packets, batch, functions, ticks>> /\ running = Dispatcher
        /\ dpc' \in {"alloc", "recv", "parked", "flush", "blocked"}
        /\ running' = Dispatcher \/ dpc' \in {"parked", "blocked"}
    BY <1>13, Zenon DEF Alloc, RecvAgain, RecvInterrupted, Sendto, SendtoAgain, EndFlush,
       Dispatching, Dies, QuietDispatch, peers, pool, loop, dispatcher
  <2>2. Unyielded /\ Unyielded'
    BY <2>1 DEF Unyielded
  <2> QED
    BY <2>1, <2>2, YieldRun
<1> QED
  BY <1>1, <1>2, <1>3, <1>4, <1>5, <1>6, <1>7, <1>8, <1>9, <1>10, <1>11, <1>12, <1>13
     DEF Next, LoopStep, Environment

\* Only a peer that no routine serves can use up the buffers.
LEMMA StarvedStep ==
    ASSUME BufferNum > TicksMax, Inv, Line, Held, BuffersConserved, Yield,
           BuffersLastUnlessStarved, [Next]_vars
    PROVE  BuffersLastUnlessStarved'
<1>1. CASE Alloc /\ buffers = 0
  <2>1. /\ fate' = "null buffer" /\ UNCHANGED <<alive, routine>>
        /\ running = Dispatcher /\ dpc = "alloc"
    <3>1. ~(buffers > 0)
      BY <1>1
    <3> QED
      BY <1>1, <3>1, Zenon DEF Alloc, Dies, Dispatching, peers, pool
  <2>2. held = 0 /\ ~buf
    BY <2>1, Ids, Zenon DEF Held
  <2>3. Cardinality(Packets(packets, Peers)) = BufferNum
    <3>1. PICK n \in Nat : n = Cardinality(Packets(packets, Peers))
      BY PacketsFinite DEF Line
    <3>2. BufferNum = 0 + 0 + 0 + n
      BY <1>1, <2>2, <3>1 DEF BuffersConserved
    <3> QED
      BY <3>1, <3>2
  <2>4. Cardinality(Waiting) <= ticks + 1 /\ ticks + 1 <= TicksMax /\ ticks \in Nat
    <3>1. Cardinality(Waiting) <= ticks + 1
      BY <2>1, Zenon DEF Yield, Unyielded
    <3> QED
      BY <3>1, TicksBound
  <2>5. \E p \in alive : RoutineOf(p) = {}
    <3> SUFFICES ASSUME \A p \in alive : RoutineOf(p) # {} PROVE FALSE
      OBVIOUS
    <3>1. \A q \in Peers : packets[q] = <<>> \/ (q \in Served /\ packets[q] = packets[q])
      BY DEF Line, Served
    <3>2. packets \in [Peers -> Seq(Kinds)] /\ Served \in SUBSET Peers /\ Peers \in SUBSET Peers
      BY DEF Line, Served
    <3>3. Packets(packets, Peers) \subseteq Waiting
      BY <3>1, <3>2, PacketsFewer DEF Waiting
    <3>4. Cardinality(Packets(packets, Peers)) <= Cardinality(Waiting)
          /\ Cardinality(Waiting) \in Nat
      BY <3>3, WaitingFinite, FS_Subset
    <3> QED
      <4>1. PICK w \in Nat : w = Cardinality(Waiting)
        BY <3>4, Zenon
      <4>2. BufferNum <= w /\ w <= ticks + 1
        BY <2>3, <2>4, <3>4, <4>1, Zenon
      <4> QED
        BY <2>4, <4>2, MediaAssumption
  <2> QED
    BY <2>1, <2>5, Zenon DEF BuffersLastUnlessStarved, RoutineOf
<1>2. CASE UNCHANGED vars
  BY <1>2, Zenon DEF vars, peers, pool, BuffersLastUnlessStarved, RoutineOf
<1>3. CASE Alloc /\ ~(buffers = 0)
  <2>1. fate' = fate /\ UNCHANGED <<alive, routine>>
    BY <1>3, Zenon DEF Alloc, QuietDispatch, peers, pool
  <2> QED
    BY <2>1, Zenon DEF BuffersLastUnlessStarved, RoutineOf
<1>4. CASE fate = "ok" /\ (LoopStep \/ Environment) /\ ~Alloc
  <2>1. \A n \in Nat : AsyncSend(n) => fate' \in {"ok", fate, "undefined"}
    BY DEF AsyncSend
  <2>2. fate' # "null buffer"
    BY <1>4, <2>1, Zenon DEF LoopStep, Environment, RunDispatcher, RunCall, RunStart, RunDrain,
       ResumeMedia, Poll, PollIn, PollOut, EndTurn, Readable, Writable, RecvTimeout, Pub, Dies,
       SetPhase, MediaTimeout, DtlsTimer, PliTimer, TimerOutcome, AsyncSend, ProcessNext, Park,
       TickRecv, TickSend, CheckTicks, RecvAgain, RecvInterrupted, RecvFrom, Sendto, SendtoAgain,
       EndFlush, QuietDispatch
  <2> QED
    BY <2>2, Zenon DEF BuffersLastUnlessStarved
<1> QED
  BY <1>1, <1>2, <1>3, <1>4 DEF Next, Ended

\* At the start the dispatcher's Call is queued, and no peer has packets.
LEMMA YieldInit ==
    ASSUME Init
    PROVE  Yield
<1> DEFINE d == Call(Dispatcher)
<1>1. d \in Entries /\ <<d>> \in Seq(Entries)
  BY DEF Entries
<1>2. Queue = <<d>> /\ running = Main /\ dpc = "alloc" /\ ticks = 0
      /\ routine = [r \in Routines |-> None]
  BY DEF Init, Queue
<1> HIDE DEF d
<1>3. <<d>> # <<>> /\ Head(<<d>>) = d /\ Tail(<<d>>) = <<>>
  OBVIOUS
<1>4. Count(<<>>, d) = 0
  BY FS_EmptySet DEF Count, At
<1>5. Count(<<d>>, d) = Count(Tail(<<d>>), d) + (IF Head(<<d>>) = d THEN 1 ELSE 0)
  BY <1>1, <1>3, CountTail, Zenon
<1>6. Count(Queue, d) = 1
  BY <1>2, <1>3, <1>4, <1>5
<1>7. ~Unyielded /\ Turns
  BY <1>2, Ids DEF Unyielded, Turns
<1>8. ticks \in 0..(TicksMax - 1)
  BY <1>2, MediaAssumption
<1> QED
  BY <1>2, <1>6, <1>7, <1>8 DEF Yield, d

\* With more buffers than ticks (1000 and 10 in the code) the dispatcher finds the
\* pool empty only when a published peer has no routine: before it has delivered
\* more packets than it has ticks it gives way, behind the Calls of all peers that
\* have packets, so every served peer has freed its buffers before it goes on.
THEOREM BuffersLast ==
    ASSUME BufferNum > TicksMax
    PROVE  Spec => []BuffersLastUnlessStarved
<1> DEFINE I == Inv /\ Line /\ Held /\ BuffersConserved /\ Yield /\ BuffersLastUnlessStarved
<1>1. Init => I
  <2>1. Init => BuffersLastUnlessStarved
    BY Zenon DEF Init, BuffersLastUnlessStarved
  <2> QED
    BY <2>1, InitFacts, YieldInit
<1>2. I /\ [Next]_vars => I'
  BY TableStep, LineStep, HeldStep, YieldStep, StarvedStep
<1>3. I => BuffersLastUnlessStarved
  OBVIOUS
<1> QED
  BY <1>1, <1>2, <1>3, PTL DEF Spec
=============================================================================
