---------------------------- MODULE MediaServer -----------------------------
(***************************************************************************)
(* The media side of the SFU, webrtc/pc/webrtc_server.cc: the dispatcher   *)
(* routine that reads every datagram, one HandleMedia routine per peer,    *)
(* the table connections_, the buffer pool and the messages that could not *)
(* be sent at once, on the event loop of one thread.                       *)
(*                                                                         *)
(* A turn of the loop runs the queued functions, then the socket's event,  *)
(* then the timers.  What runs, runs until it suspends: running names it.  *)
(* Functions queued during a turn run in the next one.                     *)
(***************************************************************************)
EXTENDS PeerSession, FiniteSets, Sequences, Functions

CONSTANTS Peers,        \* PeerConnection objects that exist at one time
          Ufrags,       \* ICE user names, the first keys of connections_
          Addrs,        \* remote addresses, the later keys
          Routines,     \* ids of the routines left for HandleMedia
          BufferNum,    \* kBufferNum
          TicksMax,     \* kRoutineTicks
          MaxMessages,  \* bound on send_messages_
          None, Expired \* no entry; a weak_ptr whose peer is gone

Main == 0
Dispatcher == 1

ASSUME MediaAssumption ==
    /\ Routines \subseteq Nat \ {Main, Dispatcher} /\ Routines # {} /\ IsFiniteSet(Routines)
    /\ IsFiniteSet(Peers) /\ TicksMax \in Nat \ {0}
    /\ BufferNum \in Nat /\ MaxMessages \in Nat
    /\ Ufrags \cap Addrs = {} /\ None \notin Peers \cup Ufrags \cup Addrs
    /\ Expired \notin Peers \cup {None}

VARIABLES
    connections,    \* key -> peer, Expired or None
    ufrag, addr,    \* of each peer: the key it was published under; addr_
    session,        \* of each peer
    packets,        \* of each peer: packets_
    alive,          \* peers whose shared_ptr is held
    buffers,        \* free buffers of the pool
    routine,        \* routine -> the peer its HandleMedia serves, or None
    tasks,          \* tasks_ of the routine pool
    todo, held,     \* HandleMedia's packets: left, and all that it holds
    dpc, ticks, buf,             \* DispatchDataLoop: place, ticks_now_, its buf
    send_messages, sending,      \* their number; how many the loop has passed
    last,                        \* the end the range-for computed
    functions, batch, phase, running,  \* the event loop
    fate            \* "ok", or how the process ended

dispatcher == <<dpc, ticks, buf, send_messages, sending, last>>
peers == <<ufrag, addr, session, packets, alive>>
pool == <<routine, tasks>>
loop == <<functions, batch, phase, running>>
vars == <<connections, peers, buffers, pool, todo, held, dispatcher, loop, fate>>

Keys == Ufrags \cup Addrs
Drain == <<"drain">>
Call(r) == <<"call", r>>
Start(p) == <<"start", p>>
RoutineOf(p) == {r \in Routines : routine[r] = p}
FreeRoutines == {r \in Routines : routine[r] = None}
FirstFree == CHOOSE r \in FreeRoutines : \A q \in FreeRoutines : r <= q
Flushing == dpc \in {"flush", "sendto", "blocked"}

Init ==
    /\ connections = [k \in Keys |-> None]
    /\ ufrag = [p \in Peers |-> None] /\ addr = [p \in Peers |-> None]
    /\ session = [p \in Peers |-> NewSession]
    /\ packets = [p \in Peers |-> <<>>] /\ alive = {}
    /\ buffers = BufferNum
    /\ routine = [r \in Routines |-> None] /\ tasks = <<>>
    /\ todo = <<>> /\ held = 0
    /\ dpc = "alloc" /\ ticks = 0 /\ buf = FALSE
    /\ send_messages = 0 /\ sending = 0 /\ last = 0
    /\ functions = <<>> /\ batch = <<Call(Dispatcher)>> /\ phase = "functions"
    /\ running = Main /\ fate = "ok"

Dies(how) ==
    /\ fate' = how
    /\ UNCHANGED <<connections, peers, buffers, pool, todo, held, dispatcher, loop>>

-----------------------------------------------------------------------------
(* Handlers that several actions share.                                    *)

\* WebRTCServer::AsyncSend of n datagrams: those the socket does not take are
\* queued.  A push_back while the dispatcher is suspended inside its loop over
\* send_messages_ may move the vector under the loop.
AsyncSend(n) ==
    \E k \in 0..n :
       /\ send_messages + k <= MaxMessages
       /\ send_messages' = send_messages + k
       /\ IF k > 0 /\ Flushing THEN fate' \in {"ok", "undefined"}
          ELSE UNCHANGED fate
       /\ UNCHANGED <<dpc, ticks, buf, sending, last>>

\* The last shared_ptr goes: PeerConnectionDelete erases the peer's address and
\* the object with its timers; weak_ptrs to it expire.
PeerConnectionDelete(p) ==
    /\ connections' = [k \in Keys |-> IF k = addr[p] THEN None
                                      ELSE IF connections[k] = p THEN Expired
                                      ELSE connections[k]]
    /\ alive' = alive \ {p}
    /\ ufrag' = [ufrag EXCEPT ![p] = None] /\ addr' = [addr EXCEPT ![p] = None]
    /\ session' = [session EXCEPT ![p] = NewSession]
    /\ packets' = [packets EXCEPT ![p] = <<>>]

\* HandleMedia returns: the packets' buffers go back to the pool, the peer is
\* deleted, and the routine is free.
EndMedia_LeaksPackets(r) ==
    LET p == routine[r]
    IN /\ PeerConnectionDelete(p)
       /\ buffers' = buffers + Len(packets[p])
       /\ todo' = <<>> /\ held' = 0
       /\ routine' = [routine EXCEPT ![r] = None]
       /\ running' = Main
       /\ UNCHANGED <<tasks, functions, batch, phase>>
EndMedia(r) ==
    LET p == routine[r]
    IN /\ PeerConnectionDelete(p)
       /\ buffers' = buffers + held + Len(packets[p])
       /\ todo' = <<>> /\ held' = 0
       /\ routine' = [routine EXCEPT ![r] = None]
       /\ running' = Main
       /\ UNCHANGED <<tasks, functions, batch, phase>>

\* Routine r runs HandleMedia of p, at its start or after WaitRead: AsyncRead
\* returns all the packets there are.
ResumeMedia(r, p) ==
    /\ running' = r
    /\ todo' = packets[p] /\ held' = Len(packets[p])
    /\ packets' = [packets EXCEPT ![p] = <<>>]
    /\ UNCHANGED <<connections, ufrag, addr, session, alive, buffers, dispatcher,
                   functions, phase, fate>>

-----------------------------------------------------------------------------
(* The event loop.                                                         *)

RunDispatcher ==
    /\ running = Main /\ phase = "functions" /\ batch # <<>>
    /\ Head(batch) = Call(Dispatcher)
    /\ batch' = Tail(batch) /\ running' = Dispatcher
    /\ UNCHANGED <<connections, peers, buffers, pool, todo, held, dispatcher,
                   functions, phase, fate>>

\* A queued Call finds the routine in HandleMedia, or back in the pool: then it
\* goes on in RoutineProcess, which asserts that a task is waiting.
RunCall(r) ==
    /\ running = Main /\ phase = "functions" /\ batch # <<>>
    /\ Head(batch) = Call(r)
    /\ \/ /\ routine[r] # None
          /\ ResumeMedia(r, routine[r])
          /\ batch' = Tail(batch) /\ UNCHANGED pool
       \/ /\ routine[r] = None /\ tasks # <<>>
          /\ routine' = [routine EXCEPT ![r] = Head(tasks)]
          /\ tasks' = Tail(tasks)
          /\ ResumeMedia(r, Head(tasks))
          /\ batch' = Tail(batch)
       \/ routine[r] = None /\ tasks = <<>> /\ Dies("no task")

\* RoutinePool::Start: the task is queued, and tasks run while there are
\* routines.
RunStart(p) ==
    /\ running = Main /\ phase = "functions" /\ batch # <<>>
    /\ Head(batch) = Start(p)
    /\ tasks' = Append(tasks, p)
    /\ batch' = <<Drain>> \o Tail(batch)
    /\ UNCHANGED <<connections, peers, buffers, routine, todo, held, dispatcher,
                   functions, phase, running, fate>>

RunDrain ==
    /\ running = Main /\ phase = "functions" /\ batch # <<>>
    /\ Head(batch) = Drain
    /\ IF tasks # <<>> /\ FreeRoutines # {}
       THEN LET r == FirstFree
            IN /\ routine' = [routine EXCEPT ![r] = Head(tasks)]
               /\ tasks' = Tail(tasks)
               /\ ResumeMedia(r, Head(tasks))
               /\ UNCHANGED batch
       ELSE /\ batch' = Tail(batch)
            /\ UNCHANGED <<connections, peers, buffers, pool, todo, held,
                           dispatcher, functions, phase, running, fate>>

SetPhase(p) ==
    /\ phase' = p
    /\ UNCHANGED <<connections, peers, buffers, pool, todo, held, functions, fate>>

Poll ==
    /\ running = Main /\ phase = "functions" /\ batch = <<>>
    /\ SetPhase("pollin") /\ UNCHANGED <<dispatcher, batch, running>>

\* The media socket's event, if any: its reader, then its writer, is resumed.
PollIn ==
    /\ running = Main /\ phase = "pollin"
    /\ SetPhase("pollout") /\ UNCHANGED <<dispatcher, batch, running>>
Readable ==
    /\ running = Main /\ phase = "pollin" /\ dpc = "parked"
    /\ dpc' = "recv" /\ running' = Dispatcher
    /\ SetPhase("pollout")
    /\ UNCHANGED <<ticks, buf, send_messages, sending, last, batch>>
PollOut ==
    /\ running = Main /\ phase = "pollout"
    /\ SetPhase("timers") /\ UNCHANGED <<dispatcher, batch, running>>
Writable ==
    /\ running = Main /\ phase = "pollout" /\ dpc = "blocked"
    /\ dpc' = "flush" /\ running' = Dispatcher
    /\ SetPhase("timers")
    /\ UNCHANGED <<ticks, buf, send_messages, sending, last, batch>>

\* The end of TurnWheel: what was queued is the next batch.
EndTurn ==
    /\ running = Main /\ phase = "timers"
    /\ batch' = functions /\ functions' = <<>> /\ phase' = "functions"
    /\ UNCHANGED <<connections, peers, buffers, pool, todo, held, dispatcher,
                   running, fate>>

\* HandleSignal of a "pub" request, resumed by its own socket: it asserts that
\* the key is new, and starts HandleMedia of a new peer.
Pub(u, p) ==
    /\ running = Main /\ phase = "pollin" /\ p \notin alive
    /\ \/ connections[u] # None /\ Dies("key in use")
       \/ /\ connections[u] = None
          /\ connections' = [connections EXCEPT ![u] = p]
          /\ alive' = alive \cup {p} /\ ufrag' = [ufrag EXCEPT ![p] = u]
          /\ functions' = Append(functions, Start(p))
          /\ UNCHANGED <<addr, session, packets, buffers, pool, todo, held,
                         dispatcher, batch, phase, running, fate>>

-----------------------------------------------------------------------------
(* The timers.                                                             *)

TimersRun == running = Main /\ phase = "timers"

\* HandleMedia's ten seconds without a packet: it ends, also when a packet came
\* after the wheel began to turn and its Call is queued.
MediaTimeout(r) ==
    /\ TimersRun /\ routine[r] # None
    /\ EndMedia(r) /\ UNCHANGED <<dispatcher, fate>>

\* A handler on the main routine: DTLS retransmission, or the PLI timer.
TimerOutcome(p, o) ==
    /\ session' = [session EXCEPT ![p] = o.s]
    /\ AsyncSend(o.sends)
    /\ UNCHANGED <<connections, ufrag, addr, packets, alive, buffers, pool, todo,
                   held, loop>>

DtlsTimer(p) ==
    /\ TimersRun /\ session[p].timer
    /\ \E o \in OnDtlsTimer(session[p]) : TimerOutcome(p, o)

PliTimer(p) ==
    /\ TimersRun /\ session[p].established
    /\ TimerOutcome(p, OnPliTimer(session[p]))

\* The ten seconds of AsyncRecvFrom: the loop goes on without a datagram.
RecvTimeout ==
    /\ TimersRun /\ dpc = "parked"
    /\ dpc' = "flush" /\ sending' = 0 /\ last' = send_messages
    /\ running' = Dispatcher
    /\ UNCHANGED <<connections, peers, buffers, pool, todo, held, ticks, buf,
                   send_messages, functions, batch, phase, fate>>

-----------------------------------------------------------------------------
(* HandleMedia.                                                            *)

ProcessNext(r) ==
    /\ running = r /\ todo # <<>>
    /\ \E o \in ProcessPacket(session[routine[r]], Head(todo)) :
          /\ AsyncSend(o.sends)
          /\ IF o.err THEN EndMedia(r)
             ELSE /\ session' = [session EXCEPT ![routine[r]] = o.s]
                  /\ todo' = Tail(todo)
                  /\ UNCHANGED <<connections, ufrag, addr, packets, alive,
                                 buffers, pool, held, loop>>

\* All are processed: their buffers are freed, and AsyncRead finds none.
Park(r) ==
    /\ running = r /\ todo = <<>>
    /\ buffers' = buffers + held /\ held' = 0
    /\ running' = Main
    /\ UNCHANGED <<connections, peers, pool, todo, dispatcher, functions, batch,
                   phase, fate>>

-----------------------------------------------------------------------------
(* DispatchDataLoop.                                                       *)

Dispatching(place) == running = Dispatcher /\ dpc = place
QuietDispatch ==
    UNCHANGED <<peers, pool, todo, held, batch, phase, connections, fate>>

\* AllocBuffer of an empty pool is a null pointer, which the loop uses.
Alloc ==
    /\ Dispatching("alloc")
    /\ \/ buffers = 0 /\ Dies("null buffer")
       \/ /\ buffers > 0
          /\ buffers' = buffers - 1 /\ buf' = TRUE /\ dpc' = "recv"
          /\ QuietDispatch
          /\ UNCHANGED <<ticks, send_messages, sending, last, functions, running>>

\* CheckTicks: each tenth call gives way to the loop.
CheckTicks_NeverYields(from, to) ==
    /\ Dispatching(from)
    /\ dpc' = to
    /\ QuietDispatch
    /\ UNCHANGED <<buffers, ticks, buf, send_messages, sending, last, running,
                   functions>>
CheckTicks(from, to) ==
    /\ Dispatching(from)
    /\ dpc' = to
    /\ IF ticks + 1 >= TicksMax
       THEN /\ ticks' = 0 /\ running' = Main
            /\ functions' = Append(functions, Call(Dispatcher))
       ELSE ticks' = ticks + 1 /\ UNCHANGED <<running, functions>>
    /\ QuietDispatch
    /\ UNCHANGED <<buffers, buf, send_messages, sending, last>>

TickRecv == CheckTicks("recv", "recvfrom")
TickSend == sending < last /\ CheckTicks("flush", "sendto")

RecvAgain ==
    /\ Dispatching("recvfrom")
    /\ dpc' = "parked" /\ running' = Main
    /\ QuietDispatch
    /\ UNCHANGED <<buffers, ticks, buf, send_messages, sending, last, functions>>

RecvInterrupted ==
    /\ Dispatching("recvfrom")
    /\ dpc' = "recv"
    /\ QuietDispatch
    /\ UNCHANGED <<buffers, ticks, buf, send_messages, sending, last, functions,
                   running>>

\* The datagram is the peer's now, and its HandleMedia is scheduled if it waits.
Deliver_NoSchedule(p, k) ==
    /\ packets' = [packets EXCEPT ![p] = Append(@, k)]
    /\ buf' = FALSE
    /\ UNCHANGED functions
Deliver(p, k) ==
    /\ packets' = [packets EXCEPT ![p] = Append(@, k)]
    /\ buf' = FALSE
    /\ IF RoutineOf(p) = {} THEN UNCHANGED functions
       ELSE functions' = Append(functions, Call(CHOOSE r \in RoutineOf(p) : TRUE))

\* A datagram of kind k from a, with user name u if it is STUN that parses: to
\* the peer of that address; else STUN that names a waiting peer binds it to the
\* address, also when the peer is gone; else nothing.  A failed RecvFrom ends
\* here too.
BindAddr_KeepsUfrag(u, a) ==
    connections' = [connections EXCEPT ![a] = connections[u]]
BindAddr(u, a) ==
    connections' = [connections EXCEPT ![a] = connections[u], ![u] = None]

RecvFrom(a, k, u) ==
    /\ Dispatching("recvfrom")
    /\ dpc' = "flush" /\ sending' = 0 /\ last' = send_messages
    /\ CASE connections[a] \in alive ->
              /\ Deliver(connections[a], k)
              /\ UNCHANGED <<connections, addr>>
         [] connections[a] = None /\ IsStun(k) /\ connections[u] \in alive ->
              /\ BindAddr(u, a)
              /\ addr' = [addr EXCEPT ![connections[u]] = a]
              /\ Deliver(connections[u], k)
         [] connections[a] = None /\ IsStun(k) /\ connections[u] = Expired ->
              /\ BindAddr(u, a)
              /\ UNCHANGED <<addr, packets, buf, functions>>
         [] OTHER -> UNCHANGED <<connections, addr, packets, buf, functions>>
    /\ UNCHANGED <<ufrag, session, alive, buffers, pool, todo, held, ticks,
                   send_messages, batch, phase, running, fate>>

\* AsyncSendto of one queued message: sent or failed; or the socket is full.
Sendto ==
    /\ Dispatching("sendto")
    /\ dpc' = "flush" /\ sending' = sending + 1
    /\ QuietDispatch
    /\ UNCHANGED <<buffers, ticks, buf, send_messages, last, functions, running>>

SendtoAgain ==
    /\ Dispatching("sendto")
    /\ dpc' = "blocked" /\ running' = Main
    /\ QuietDispatch
    /\ UNCHANGED <<buffers, ticks, buf, send_messages, sending, last, functions>>

\* The end of the iteration: clear(), and buf goes back to the pool.
EndFlush ==
    /\ Dispatching("flush") /\ sending = last
    /\ send_messages' = IF last = 0 THEN send_messages ELSE 0
    /\ sending' = 0 /\ last' = 0
    /\ buffers' = IF buf THEN buffers + 1 ELSE buffers
    /\ buf' = FALSE /\ dpc' = "alloc"
    /\ QuietDispatch
    /\ UNCHANGED <<ticks, functions, running>>

-----------------------------------------------------------------------------
Ended == fate # "ok" /\ UNCHANGED vars

\* What the loop does by itself, once it runs.
LoopStep ==
    \/ RunDispatcher \/ RunDrain \/ \E p \in Peers : RunStart(p)
    \/ \E r \in Routines : RunCall(r) \/ ProcessNext(r) \/ Park(r)
    \/ Poll \/ PollIn \/ PollOut \/ EndTurn
    \/ Alloc \/ TickRecv \/ TickSend \/ RecvAgain \/ RecvInterrupted
    \/ \E a \in Addrs, k \in Kinds, u \in Ufrags : RecvFrom(a, k, u)
    \/ Sendto \/ SendtoAgain \/ EndFlush

Environment ==
    \/ Readable \/ Writable \/ RecvTimeout
    \/ \E u \in Ufrags, p \in Peers : Pub(u, p)
    \/ \E r \in Routines : MediaTimeout(r)
    \/ \E p \in Peers : DtlsTimer(p) \/ PliTimer(p)

Next == (fate = "ok" /\ (LoopStep \/ Environment)) \/ Ended

Spec == Init /\ [][Next]_vars

-----------------------------------------------------------------------------
(* Properties.                                                             *)

\* The packets in the packets_ of some peers, each by its peer and its place.
Packets(queues, S) == UNION {{p} \X DOMAIN queues[p] : p \in S}

\* What the loop will run, in this order, and where something is in a sequence.
Queue == batch \o functions
At(seq, e) == {i \in DOMAIN seq : seq[i] = e}

\* Every buffer of the pool is in one place: free, the dispatcher's, in the
\* packets_ of a peer, or in the batch a HandleMedia holds.  The unique_ptrs give
\* each back exactly once on every path, errors and timeouts included.
BuffersConserved ==
    BufferNum = buffers + held + (IF buf THEN 1 ELSE 0)
                + Cardinality(Packets(packets, Peers))

\* A live peer is found under exactly one key: its user name until the first STUN
\* request, its address from then on.  No order of publishing, binding and ending
\* of peers takes its entry away or gives it a second one.  This does not say that
\* its packets arrive: an entry that an ended peer left under its user name is moved
\* by a later STUN request to that address, and takes the packets that come from it.
PeerReachable ==
    \A p \in alive : {k \in Keys : connections[k] = p}
                        = {IF addr[p] = None THEN ufrag[p] ELSE addr[p]}

\* A live peer is served by one routine, or it waits: its start is queued, or its
\* task is.  Once it is served, packets in packets_ always have a Call on its way,
\* so that none is left there until the timeout.
PeerServed ==
    \A p \in alive :
       /\ Cardinality(RoutineOf(p)) + Cardinality(At(tasks, p))
          + Cardinality(At(Queue, Start(p))) = 1
       /\ \A r \in RoutineOf(p) : packets[p] # <<>> => Call(r) \in Range(Queue)

\* While a DTLS flight waits for its answer, the timer that retransmits it is in the
\* wheel: through packets that race it, and through its own callback, which starts it
\* again with twice the time.  One path leaves it out: when the wheel runs it before
\* OpenSSL's timeout has passed, HandleTimeout does nothing (dtls_transport.cc:350),
\* and no retransmission follows unless a packet of the peer starts the timer; this
\* is what early marks.  Once the handshake is done, no such timer is in the wheel.
RetransmitArmed ==
    \A p \in alive :
       /\ session[p].dtls = "CONNECTING" /\ session[p].flight > 0
             => session[p].timer \/ session[p].early
       /\ session[p].done => ~session[p].timer

\* The dispatcher runs out of buffers, and uses a null one, only when a published
\* peer waits for a routine of the pool: nothing takes its packets, and no timeout
\* ends it.
BuffersLastUnlessStarved ==
    fate = "null buffer" => \E p \in alive : RoutineOf(p) = {}
=============================================================================
