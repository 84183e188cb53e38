------------------------------ MODULE Runtime ------------------------------
(***************************************************************************)
(* The coroutine runtime of kernel/runtime: one thread runs                *)
(* EventLoop::Start on its main routine and resumes pooled routines, which *)
(* give the thread back only where they call Routine::Return.              *)
(*                                                                         *)
(* The main routine's stack is `phase' (the part of the loop's body it is  *)
(* in), `starting' (whether it is inside the while loop of                 *)
(* RoutinePool::Start) and `scheduling' (the park whose AsyncPark::Schedule*)
(* it is in).  A routine's stack is `pc', `func' (the task RoutineProcess  *)
(* took) and `op' (the stream operation the task is in).  A task is any    *)
(* sequence of Do, stream reads and writes, with or without a timeout, and *)
(* notifications of a condition park.                                      *)
(*                                                                         *)
(* The kernel's sockets are external: `ready' is what a system call would  *)
(* find now, `edge' the descriptors on epoll's edge-triggered ready list.  *)
(* Timers are ideal here (an armed timer may expire in any TurnWheel);     *)
(* module TimeWheel has the wheel itself.                                  *)
(***************************************************************************)
EXTENDS Naturals, Sequences, FiniteSets

CONSTANTS PoolSize,       \* number of pooled routines (kRoutinePoolSize)
          Tasks,          \* the closures given to Do
          Parks,          \* the AsyncParks
          Conds,          \* parks without a descriptor (PeerConnection's)
          TicksMax,       \* ticks_max_ of every routine (kRoutineTicks)
          EpollEventSize, \* initial size of events_ (kEpollEventSize)
          MaxFunctions,   \* bound: notifications stop at this many callbacks
          None            \* no task, no operation, no park

Routines == 1..PoolSize
nullptr == 0
Dirs == {"read", "write"}
Ops == [dir : Dirs, park : Parks, wait : {"forever", "ms"}]
Start(t) == [fn |-> "Start", task |-> t]
CallOf(r) == [fn |-> "Call", routine |-> r]
Callbacks == {Start(t) : t \in Tasks} \cup {CallOf(r) : r \in Routines}

ASSUME ConstantsAssumption ==
    /\ PoolSize \in Nat
    /\ TicksMax \in Nat \ {0}
    /\ EpollEventSize \in Nat \ {0}
    /\ MaxFunctions \in Nat
    /\ Conds \subseteq Parks
    /\ None \notin Tasks \cup Parks \cup Ops

VARIABLES
    free_list, active_list, tasks,       \* RoutinePool
    functions, batch, phase, starting,   \* EventLoop and its Start()
    events, scheduling, maxevents,       \* what epoll_wait returned
    current, pc, func, op, ticks_now,    \* Routine
    slot,                                \* read_routine_, write_routine_
    armed, timeout, due,                 \* the routines' timers
    ready, edge                          \* external: sockets and epoll

poolVars == <<free_list, active_list, tasks>>
loopVars == <<functions, batch, phase, starting>>
epollVars == <<events, scheduling, maxevents>>
routineVars == <<pc, func, op, ticks_now>>
timerVars == <<armed, timeout, due>>
ioVars == <<ready, edge>>
vars == <<poolVars, loopVars, epollVars, current, routineVars, slot,
          timerVars, ioVars>>

\* The tasks given to Do and not finished yet: a closure is given again only
\* once its last run is over.
StartsIn(s) == {t \in Tasks : \E i \in DOMAIN s : s[i] = Start(t)}
Outstanding == {tasks[i] : i \in DOMAIN tasks} \cup StartsIn(batch)
               \cup StartsIn(functions) \cup {func[r] : r \in Routines}

Init ==
    /\ free_list = Routines /\ active_list = {} /\ tasks = <<>>
    /\ functions = <<>> /\ batch = <<>>
    /\ phase = "setup" /\ starting = FALSE
    /\ events = [p \in Parks |-> {}] /\ scheduling = None
    /\ maxevents = EpollEventSize
    /\ current = nullptr
    /\ pc = [r \in Routines |-> "pool"]
    /\ func = [r \in Routines |-> None]
    /\ op = [r \in Routines |-> None]
    /\ ticks_now = [r \in Routines |-> 0]
    /\ slot = [d \in Dirs |-> [p \in Parks |-> nullptr]]
    /\ armed = {} /\ timeout = {} /\ due = {}
    /\ ready = [d \in Dirs |-> IF d = "write" THEN Parks \ Conds ELSE {}]
    /\ edge = Parks \ Conds

-----------------------------------------------------------------------------
(* The main routine.                                                       *)

Main == current = nullptr /\ ~starting

\* RoutinePool::Start, up to its loop.
PoolStart(t) ==
    /\ tasks' = Append(tasks, t)
    /\ starting' = TRUE

\* The condition of the loop of RoutinePool::Start.
MoreToStart_TasksUnchecked == free_list # {}
MoreToStart == tasks # <<>> /\ free_list # {}

\* The loop of RoutinePool::Start: resume the free routine of lowest id while
\* there is a task and a free routine.
PoolLoop ==
    /\ current = nullptr /\ starting
    /\ \/ /\ MoreToStart
          /\ \E r \in free_list : /\ \A q \in free_list : r <= q
                                  /\ current' = r
          /\ UNCHANGED starting
       \/ /\ ~MoreToStart
          /\ starting' = FALSE
          /\ UNCHANGED current
    /\ UNCHANGED <<poolVars, functions, batch, phase, epollVars, routineVars,
                   slot, timerVars, ioVars>>

\* Do called on the main routine, before EventLoop::Start: RunInLoop runs the
\* callback at once.
DoInMain(t) ==
    /\ Main /\ phase = "setup"
    /\ t \notin Outstanding
    /\ PoolStart(t)
    /\ UNCHANGED <<free_list, active_list, functions, batch, phase, epollVars,
                   current, routineVars, slot, timerVars, ioVars>>

\* functions = std::move(functions_).
MoveFunctions ==
    /\ batch' = functions /\ functions' = <<>>

\* The top of EventLoop::Start's loop (and its first entry).
TakeFunctions ==
    /\ Main /\ phase \in {"setup", "timers"} /\ due \cap armed = {}
    /\ MoveFunctions
    /\ phase' = "functions"
    /\ due' = {}
    /\ UNCHANGED <<poolVars, starting, epollVars, current, routineVars, slot,
                   armed, timeout, ioVars>>

\* One iteration of `for (auto& func : functions) func();'.
RunFunction ==
    /\ Main /\ phase = "functions" /\ batch # <<>>
    /\ batch' = Tail(batch)
    /\ \/ \E t \in Tasks :
             /\ Head(batch) = Start(t)
             /\ PoolStart(t)
             /\ UNCHANGED current
       \/ \E r \in Routines :
             /\ Head(batch) = CallOf(r)
             /\ current' = r
             /\ UNCHANGED <<tasks, starting>>
    /\ UNCHANGED <<free_list, active_list, functions, phase, epollVars,
                   routineVars, slot, timerVars, ioVars>>

\* epoll_wait: the descriptors on the ready list that still have a condition
\* to report, at most events_.size() of them; it never blocks for longer than
\* a millisecond.  A full array is doubled.
EpollWait ==
    LET bits(p) == {d \in Dirs : p \in ready[d]}
        pending == {p \in edge : bits(p) # {}}
    IN  /\ Main /\ phase = "functions" /\ batch = <<>>
        /\ \E S \in SUBSET pending :
              /\ S = pending \/ Cardinality(S) = maxevents
              /\ Cardinality(S) <= maxevents
              /\ events' = [p \in Parks |-> IF p \in S THEN bits(p) ELSE {}]
              /\ edge' = pending \ S
              /\ maxevents' = IF Cardinality(S) = maxevents
                              THEN maxevents * 2 ELSE maxevents
        /\ phase' = "events"
        /\ UNCHANGED <<poolVars, functions, batch, starting, scheduling,
                       current, routineVars, slot, timerVars, ready>>

\* RunRoutineInLoop on the main routine: resume what the slot holds, if
\* anything (nullptr leaves the thread with the main routine).
Wake_AlwaysReader(d, p) == current' = slot["read"][p]
Wake(d, p) == current' = slot[d][p]

\* AsyncPark::Schedule for the next event, to the end of its first if.
ScheduleRead(p) ==
    /\ Main /\ phase = "events" /\ scheduling = None /\ events[p] # {}
    /\ scheduling' = p
    /\ IF "read" \in events[p] THEN Wake("read", p) ELSE UNCHANGED current
    /\ UNCHANGED <<poolVars, loopVars, events, maxevents, routineVars, slot,
                   timerVars, ioVars>>

\* The second if of AsyncPark::Schedule, run once the reader gave the thread
\* back: the write slot is read then.
ScheduleWrite(p) ==
    /\ Main /\ phase = "events" /\ scheduling = p
    /\ scheduling' = None
    /\ events' = [events EXCEPT ![p] = {}]
    /\ IF "write" \in events[p] THEN Wake("write", p) ELSE UNCHANGED current
    /\ UNCHANGED <<poolVars, loopVars, maxevents, routineVars, slot,
                   timerVars, ioVars>>

\* TurnWheel after the last event: time has passed, and some of the armed
\* timers have expired.
TurnWheel ==
    /\ Main /\ phase = "events" /\ \A p \in Parks : events[p] = {}
    /\ phase' = "timers"
    /\ due' \in SUBSET armed
    /\ UNCHANGED <<poolVars, functions, batch, starting, epollVars, current,
                   routineVars, slot, armed, timeout, ioVars>>

\* The wheel unlinks an expired timer and runs Routine::OnTimer.
OnTimer(r) ==
    /\ Main /\ phase = "timers" /\ r \in due \cap armed
    /\ due' = due \ {r}
    /\ armed' = armed \ {r}
    /\ timeout' = timeout \cup {r}
    /\ current' = r
    /\ UNCHANGED <<poolVars, loopVars, epollVars, routineVars, slot, ioVars>>

-----------------------------------------------------------------------------
(* The routine that has the thread.                                        *)

At(r, label) == current = r /\ pc[r] = label
Goto(r, label) == pc' = [pc EXCEPT ![r] = label]
EndOp(r) == /\ Goto(r, "user")
            /\ op' = [op EXCEPT ![r] = None]

\* Routine::Return: the thread goes back to the main routine.
Return == current' = nullptr

\* The task at the front is taken, and the routine moves between the lists.
PopTask_NotRemoved == UNCHANGED tasks
PopTask == tasks' = Tail(tasks)
ToActive(r) == /\ active_list' = active_list \cup {r}
               /\ free_list' = free_list \ {r}
ToFree_NotErased(r) == /\ free_list' = free_list \cup {r}
                       /\ UNCHANGED active_list
ToFree(r) == /\ free_list' = free_list \cup {r}
             /\ active_list' = active_list \ {r}

\* The head of RoutinePool::RoutineProcess's loop: three assertions, then a
\* task is taken.
RoutineProcess(r) ==
    /\ At(r, "pool")
    /\ IF r \in free_list /\ r \notin active_list /\ tasks # <<>>
       THEN /\ func' = [func EXCEPT ![r] = Head(tasks)]
            /\ PopTask
            /\ ToActive(r)
            /\ Goto(r, "user")
            /\ UNCHANGED phase
       ELSE /\ phase' = "aborted"
            /\ UNCHANGED <<poolVars, func, pc>>
    /\ UNCHANGED <<functions, batch, starting, epollVars, current, op,
                   ticks_now, slot, timerVars, ioVars>>

\* The task returns: the rest of RoutineProcess's loop, up to Return.
FuncDone(r) ==
    /\ At(r, "user")
    /\ func' = [func EXCEPT ![r] = None]
    /\ ToFree(r)
    /\ Goto(r, "pool")
    /\ Return
    /\ UNCHANGED <<tasks, loopVars, epollVars, op, ticks_now, slot, timerVars,
                   ioVars>>

\* EventLoop::Do called by a task: RunInLoop queues the callback.
Do(r, t) ==
    /\ At(r, "user")
    /\ t \notin Outstanding
    /\ functions' = Append(functions, Start(t))
    /\ UNCHANGED <<poolVars, batch, phase, starting, epollVars, current,
                   routineVars, slot, timerVars, ioVars>>

\* The task calls AsyncRead or AsyncWrite of a stream it shares with nobody in
\* that direction (every caller in the repository does).  PeerConnection's
\* AsyncRead only reads, with a timeout, and does not count ticks.
BeginOp(r, o) ==
    /\ At(r, "user")
    /\ \A q \in Routines \ {r} :
          op[q] # None => ~(op[q].dir = o.dir /\ op[q].park = o.park)
    /\ o.park \in Conds => o.dir = "read" /\ o.wait = "ms"
    /\ op' = [op EXCEPT ![r] = o]
    /\ Goto(r, IF o.park \in Conds THEN "try" ELSE "check")
    /\ UNCHANGED <<poolVars, loopVars, epollVars, current, func, ticks_now,
                   slot, timerVars, ioVars>>

\* Routine::Tick: counts, and says whether the count reached ticks_max_.
Tick(r) ==
    LET n == ticks_now[r] + 1
    IN  ticks_now' = [ticks_now EXCEPT ![r] = IF n >= TicksMax THEN 0 ELSE n]

\* What CheckTicks does when the count is reached: a callback that resumes the
\* routine is queued, and the thread given back.
Yield_NotReturning(r) == UNCHANGED <<functions, current>>
Yield(r) == /\ functions' = Append(functions, CallOf(r))
            /\ Return

\* AsyncPark::CheckTicks: every ticks_max_-th operation yields.
CheckTicks(r) ==
    /\ At(r, "check")
    /\ Goto(r, "try")
    /\ Tick(r)
    /\ IF ticks_now'[r] = 0 THEN Yield(r) ELSE UNCHANGED <<functions, current>>
    /\ UNCHANGED <<poolVars, batch, phase, starting, epollVars, func, op, slot,
                   timerVars, ioVars>>

\* The system call succeeds or fails for good, leaving the socket ready or not;
\* a short write and EINTR go round the loop again.
SysCall(r) ==
    /\ At(r, "try")
    /\ op[r].park \in ready[op[r].dir]
    /\ LET d == op[r].dir
           p == op[r].park
       IN  \/ /\ \/ UNCHANGED ready /\ p \notin Conds
                 \/ ready' = [ready EXCEPT ![d] = @ \ {p}]
              /\ EndOp(r)
           \/ /\ d = "write"
              /\ \/ UNCHANGED ready
                 \/ ready' = [ready EXCEPT ![d] = @ \ {p}]
              /\ Goto(r, "check") /\ UNCHANGED op
    /\ UNCHANGED <<poolVars, loopVars, epollVars, current, func, ticks_now,
                   slot, timerVars, edge>>

Interrupted(r) ==
    /\ At(r, "try") /\ op[r].park \notin Conds
    /\ Goto(r, "check")
    /\ UNCHANGED <<poolVars, loopVars, epollVars, current, func, op, ticks_now,
                   slot, timerVars, ioVars>>

\* The system call returns EAGAIN.
WouldBlock_Assumed(r) == TRUE
WouldBlock(r) == op[r].park \notin ready[op[r].dir]

\* Routine::Return(ms, timeout) before and after it gives the thread back.
TimerStart_NotStarted(r) == timeout' = timeout \ {r} /\ UNCHANGED armed
TimerStart(r) == /\ timeout' = timeout \ {r}
                 /\ armed' = armed \cup {r}
TimerStop_NotStopped(r) == UNCHANGED armed
TimerStop(r) == armed' = armed \ {r}

\* EAGAIN: WaitRead or WatiWrite, with or without a timeout, up to the point
\* where the thread is given back.
Wait(r) ==
    /\ At(r, "try")
    /\ WouldBlock(r)
    /\ slot' = [slot EXCEPT ![op[r].dir][op[r].park] = r]
    /\ IF op[r].wait = "ms" THEN TimerStart(r) ELSE UNCHANGED <<armed, timeout>>
    /\ Goto(r, "wait")
    /\ Return
    /\ UNCHANGED <<poolVars, loopVars, epollVars, func, op, ticks_now, due,
                   ioVars>>

\* WaitRead and WatiWrite forget the routine once it is back.
ClearSlot_Kept(d, p) == UNCHANGED slot
ClearSlot(d, p) == slot' = [slot EXCEPT ![d][p] = nullptr]

\* The rest of WaitRead or WatiWrite after the routine is resumed, and what the
\* operation does with the timeout flag.  PeerConnection::AsyncRead returns the
\* packets there are, whatever woke it.
Resume(r) ==
    LET d == op[r].dir
        p == op[r].park
    IN  /\ At(r, "wait")
        /\ ClearSlot(d, p)
        /\ TimerStop(r)
        /\ IF p \in Conds \/ (op[r].wait = "ms" /\ r \in timeout)
           THEN EndOp(r)
           ELSE Goto(r, "check") /\ UNCHANGED op
        /\ ready' = IF p \in Conds THEN [ready EXCEPT ![d] = @ \ {p}]
                                   ELSE ready
        /\ UNCHANGED <<poolVars, loopVars, epollVars, current, func, ticks_now,
                       timeout, due, edge>>

\* AsyncPark::ScheduleRead called by a task: outside the main routine the
\* callback that resumes the waiting routine is queued.
ScheduleReadInTask_Dropped(p) == UNCHANGED functions
ScheduleReadInTask(p) ==
    IF slot["read"][p] # nullptr
    THEN functions' = Append(functions, CallOf(slot["read"][p]))
    ELSE UNCHANGED functions

\* A task delivers a packet to a PeerConnection: packets_ grows, and the routine
\* that reads them is scheduled.
Notify(r, p) ==
    /\ At(r, "user") /\ p \in Conds
    /\ Len(functions) < MaxFunctions
    /\ ready' = [ready EXCEPT !["read"] = @ \cup {p}]
    /\ ScheduleReadInTask(p)
    /\ UNCHANGED <<poolVars, batch, phase, starting, epollVars, current,
                   routineVars, slot, timerVars, edge>>

-----------------------------------------------------------------------------
(* External: the peer sends data or closes, and reads what was sent; each  *)
(* puts the descriptor on epoll's ready list.                              *)

SocketReady(d, p) ==
    /\ p \notin Conds
    /\ d = "write" => p \notin ready[d]
    /\ ready' = [ready EXCEPT ![d] = @ \cup {p}]
    /\ edge' = edge \cup {p}
    /\ UNCHANGED <<poolVars, loopVars, epollVars, current, routineVars, slot,
                   timerVars>>

-----------------------------------------------------------------------------

MainStep ==
    \/ PoolLoop \/ TakeFunctions \/ RunFunction \/ EpollWait \/ TurnWheel
    \/ \E t \in Tasks : DoInMain(t)
    \/ \E p \in Parks : ScheduleRead(p) \/ ScheduleWrite(p)
    \/ \E r \in Routines : OnTimer(r)

SocketStep(r) ==
    \/ RoutineProcess(r) \/ FuncDone(r) \/ CheckTicks(r) \/ SysCall(r)
    \/ Interrupted(r) \/ Wait(r) \/ Resume(r)
    \/ \E t \in Tasks : Do(r, t)
    \/ \E o \in Ops : BeginOp(r, o)

RoutineStep(r) == SocketStep(r) \/ \E p \in Parks : Notify(r, p)

Thread == MainStep \/ \E r \in Routines : RoutineStep(r)
Socket == \E d \in Dirs, p \in Parks : SocketReady(d, p)

Next == Thread \/ Socket

Spec == Init /\ [][Next]_vars

\* Programs whose tasks notify no park, as all but the media server's are.
SocketThread == MainStep \/ \E r \in Routines : SocketStep(r)
SocketNext == SocketThread \/ Socket
SocketSpec == Init /\ [][SocketNext]_vars
-----------------------------------------------------------------------------
(* Fairness.  The thread runs for as long as it has a step to take.  Time  *)
(* passes: a timer that is armed at one turn of the loop after another     *)
(* expires.                                                                *)

Expire(r) == TurnWheel /\ r \in due'

FairSpec == SocketSpec /\ WF_vars(SocketThread)
TimePasses == \A r \in Routines : SF_vars(Expire(r))

-----------------------------------------------------------------------------
(* Properties.                                                             *)

Suspended(r, label) == pc[r] = label /\ current # r
QueuedIn(s, r) == {i \in DOMAIN s : s[i] = CallOf(r)}

\* Every variable has the type the code declares.
TypeOK ==
    /\ free_list \subseteq Routines /\ active_list \subseteq Routines
    /\ tasks \in Seq(Tasks)
    /\ functions \in Seq(Callbacks) /\ batch \in Seq(Callbacks)
    /\ phase \in {"setup", "functions", "events", "timers", "aborted"}
    /\ starting \in BOOLEAN
    /\ events \in [Parks -> SUBSET Dirs]
    /\ scheduling \in Parks \cup {None}
    /\ maxevents \in Nat
    /\ current \in Routines \cup {nullptr}
    /\ pc \in [Routines -> {"pool", "user", "check", "try", "wait"}]
    /\ func \in [Routines -> Tasks \cup {None}]
    /\ op \in [Routines -> Ops \cup {None}]
    /\ ticks_now \in [Routines -> 0..(TicksMax - 1)]
    /\ slot \in [Dirs -> [Parks -> Routines \cup {nullptr}]]
    /\ armed \subseteq Routines /\ timeout \subseteq Routines
    /\ due \subseteq Routines
    /\ ready \in [Dirs -> SUBSET Parks]
    /\ edge \subseteq Parks

\* The pool's lists and the routines' stacks agree, however calls, timers and
\* events interleave: a routine is in exactly one of free_list_ and active_list_,
\* and it is in the free one exactly when it is parked at the Return of
\* RoutineProcess with no task.
PoolConsistent ==
    /\ active_list = Routines \ free_list
    /\ \A r \in Routines : /\ r \in free_list <=> pc[r] = "pool"
                           /\ r \in free_list <=> func[r] = None

\* The assertions at the head of RoutineProcess hold: nothing but the loop of
\* RoutinePool::Start resumes a free routine.
AssertionsHold == phase # "aborted"

\* A suspended routine has exactly one thing that will resume it: the callback
\* CheckTicks queued, or the slot of the park it waits on (and of no other).
\* A routine that is not suspended there has none, so no wakeup is left over to
\* resume it somewhere else.
OneWakeup ==
    \A r \in Routines :
       /\ Suspended(r, "try") =>
             \E i \in DOMAIN (batch \o functions) :
                QueuedIn(batch \o functions, r) = {i}
       /\ ~Suspended(r, "try") => QueuedIn(batch \o functions, r) = {}
       /\ \A d \in Dirs, p \in Parks :
             slot[d][p] = r <=>
                pc[r] = "wait" /\ op[r].dir = d /\ op[r].park = p

\* Edge-triggered polling loses no wakeup: while a routine waits for a socket
\* that is ready, an event for it is on epoll's list or among those the loop has
\* still to schedule; while it waits for packets that have come, a callback that
\* resumes it is queued.
NoLostWakeup ==
    \A r \in Routines :
       Suspended(r, "wait") /\ op[r].park \in ready[op[r].dir] =>
          \/ op[r].park \in edge
          \/ /\ op[r].dir \in events[op[r].park]
             /\ op[r].dir = "read" => scheduling # op[r].park
          \/ /\ op[r].park \in Conds
             /\ QueuedIn(batch \o functions, r) # {}

\* A routine's timer is armed exactly while the routine is suspended in a wait
\* with a timeout, and timeout_ is set in such a wait only by that wait's own
\* timer: a flag or a timer of an earlier wait is never seen by a later one.
TimerBelongsToWait ==
    \A r \in Routines :
       /\ r \in armed => pc[r] = "wait" /\ op[r].wait = "ms"
       /\ Suspended(r, "wait") /\ op[r].wait = "ms" =>
             r \in armed /\ r \notin timeout

\* The loop keeps turning: whatever the tasks do, it comes back to epoll_wait
\* and to its queue of callbacks for ever (what CheckTicks is for).
LoopTurns ==
    [](phase # "setup" => <>(phase = "events") /\ <>(phase = "functions"))

\* Once the loop runs, a routine waiting on a socket that has become ready is
\* resumed, although epoll reports the edge only once.
ReadyIsResumed ==
    \A r \in Routines :
       (phase # "setup" /\ pc[r] = "wait" /\ op[r].park \in ready[op[r].dir])
          ~> (pc[r] # "wait")

\* Once the loop runs, and if time passes, a wait with a timeout ends even if
\* nothing happens on its socket.
TimedWaitEnds ==
    TimePasses =>
       \A r \in Routines :
          (phase # "setup" /\ pc[r] = "wait" /\ op[r].wait = "ms")
             ~> (pc[r] # "wait")
-----------------------------------------------------------------------------
(* What Do and the pool promise together: module TaskService.              *)

\* The tasks of the Start callbacks in s, in order.
StartOf(c) == IF c.fn = "Start" THEN <<c.task>> ELSE <<>>
StartSeq(s) ==
    LET starts[n \in 0..Len(s)] ==
           IF n = 0 THEN <<>> ELSE starts[n - 1] \o StartOf(s[n])
    IN  starts[Len(s)]

Service == INSTANCE TaskService WITH
    Capacity <- PoolSize,
    queue <- tasks \o StartSeq(batch) \o StartSeq(functions),
    running <- {func[r] : r \in Routines} \ {None},
    open <- phase # "setup"

\* Do and the routine pool implement the task service: the tasks in tasks_ and
\* in the two callback lists are one queue, served in order, each task once per
\* Do, by at most as many routines as the pool has.
ImplementsService == Service!Spec
=============================================================================
