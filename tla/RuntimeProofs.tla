--------------------------- MODULE RuntimeProofs ---------------------------
(***************************************************************************)
(* Invariants of Runtime, proved for every number of routines, tasks,      *)
(* parks and ticks: the types, the pool, and what resumes a suspended      *)
(* routine.  The chain of the last: the operations of two routines never   *)
(* share a park and a direction (OpsInv), so a slot holds the routine that *)
(* waits there and no other (SlotInv); with what the main routine's place  *)
(* in its loop says of the events and of the batch (LoopInv), no wakeup is *)
(* lost.  Where no task notifies a park, every queued callback belongs to  *)
(* the one routine that yielded (OneWakeup), so that the assertions of     *)
(* RoutineProcess hold.                                                    *)
(***************************************************************************)
EXTENDS Runtime, SequenceTheorems, TLAPS

\* Every component of the state keeps the type the code declares.
LEMMA InitTypeOK == Init => TypeOK
<1> SUFFICES ASSUME Init PROVE TypeOK
    OBVIOUS
<1> USE DEF Init
<1>1. ticks_now \in [Routines -> 0..(TicksMax - 1)] /\ maxevents \in Nat
    BY ConstantsAssumption
<1>2. tasks \in Seq(Tasks) /\ functions \in Seq(Callbacks)
      /\ batch \in Seq(Callbacks)
    OBVIOUS
<1>3. slot \in [Dirs -> [Parks -> Routines \cup {nullptr}]]
    OBVIOUS
<1>4. ready \in [Dirs -> SUBSET Parks] /\ events \in [Parks -> SUBSET Dirs]
    OBVIOUS
<1> QED
    BY <1>1, <1>2, <1>3, <1>4, Zenon DEF TypeOK

\* Every step keeps the types.
LEMMA NextTypeOK == TypeOK /\ [Next]_vars => TypeOK'
<1> USE DEF poolVars, loopVars, epollVars, routineVars, timerVars, ioVars
<1> SUFFICES ASSUME TypeOK, [Next]_vars PROVE TypeOK'
    OBVIOUS
<1> USE DEF TypeOK
<1>1. CASE PoolLoop
    BY <1>1, Zenon DEF PoolLoop
<1>2. CASE TakeFunctions
    BY <1>2 DEF TakeFunctions, MoveFunctions
<1>3. CASE RunFunction
    <2>1. batch' \in Seq(Callbacks)
        BY <1>3 DEF RunFunction
    <2>2. tasks' \in Seq(Tasks)
        <3>1. tasks' = tasks \/ \E t \in Tasks : tasks' = Append(tasks, t)
            BY <1>3, Zenon DEF RunFunction, PoolStart
        <3>2. tasks \in Seq(Tasks)
            OBVIOUS
        <3> HIDE DEF TypeOK
        <3> QED
            BY <3>1, <3>2, AppendProperties
    <2>4. starting' \in BOOLEAN
        BY <1>3, Zenon DEF RunFunction, PoolStart
    <2>3. current' \in Routines \cup {nullptr}
        BY <1>3 DEF RunFunction
    <2> QED
        BY <1>3, <2>1, <2>2, <2>3, <2>4 DEF RunFunction
<1>4. CASE EpollWait
    <2>1. events' \in [Parks -> SUBSET Dirs] /\ edge' \subseteq Parks
        BY <1>4 DEF EpollWait
    <2>2. maxevents' \in Nat
        BY <1>4 DEF EpollWait
    <2> QED
        BY <1>4, <2>1, <2>2 DEF EpollWait
<1>5. CASE TurnWheel
    BY <1>5 DEF TurnWheel
<1>6. ASSUME NEW t \in Tasks, DoInMain(t) PROVE TypeOK'
    BY <1>6 DEF DoInMain, PoolStart
<1>7. ASSUME NEW p \in Parks, ScheduleRead(p) PROVE TypeOK'
    BY <1>7 DEF ScheduleRead, Wake, Dirs
<1>8. ASSUME NEW p \in Parks, ScheduleWrite(p) PROVE TypeOK'
    BY <1>8 DEF ScheduleWrite, Wake, Dirs
<1>9. ASSUME NEW r \in Routines, OnTimer(r) PROVE TypeOK'
    BY <1>9 DEF OnTimer
<1>10. ASSUME NEW r \in Routines, RoutineProcess(r) PROVE TypeOK'
    <2>1. tasks' \in Seq(Tasks) /\ func' \in [Routines -> Tasks \cup {None}]
        <3>1. \/ tasks' = tasks /\ func' = func
              \/ /\ tasks # <<>>
                 /\ tasks' = Tail(tasks)
                 /\ func' = [func EXCEPT ![r] = Head(tasks)]
            BY <1>10, Zenon DEF RoutineProcess, PopTask
        <3>2. tasks \in Seq(Tasks) /\ func \in [Routines -> Tasks \cup {None}]
            OBVIOUS
        <3> HIDE DEF TypeOK
        <3> QED
            BY <3>1, <3>2, HeadTailProperties
    <2>2. pc' \in [Routines -> {"pool", "user", "check", "try", "wait"}]
        BY <1>10 DEF RoutineProcess, Goto
    <2> QED
        BY <1>10, <2>1, <2>2 DEF RoutineProcess, ToActive
<1>11. ASSUME NEW r \in Routines, FuncDone(r) PROVE TypeOK'
    BY <1>11 DEF FuncDone, ToFree, Goto, Return
<1>12. ASSUME NEW r \in Routines, CheckTicks(r) PROVE TypeOK'
    <2>1. CallOf(r) \in Callbacks
        BY DEF Callbacks
    <2>2. ticks_now' \in [Routines -> 0..(TicksMax - 1)]
        BY <1>12, ConstantsAssumption DEF CheckTicks, Tick
    <2>3. functions' \in Seq(Callbacks)
        <3>1. functions' = functions \/ functions' = Append(functions, CallOf(r))
            BY <1>12, Zenon DEF CheckTicks, Yield
        <3>2. functions \in Seq(Callbacks)
            OBVIOUS
        <3> HIDE DEF TypeOK
        <3> QED
            BY <2>1, <3>1, <3>2, AppendProperties
    <2> QED
        BY <1>12, <2>2, <2>3, Zenon DEF CheckTicks, Yield, Return, Goto
<1>13. ASSUME NEW r \in Routines, SysCall(r) PROVE TypeOK'
    <2>1. ready' \in [Dirs -> SUBSET Parks]
        <3>1. \/ ready' = ready
              \/ ready' = [ready EXCEPT ![op[r].dir] = @ \ {op[r].park}]
            BY <1>13, Zenon DEF SysCall
        <3>2. ready \in [Dirs -> SUBSET Parks]
            OBVIOUS
        <3> HIDE DEF TypeOK
        <3> QED
            BY <3>1, <3>2, Zenon
    <2>2. op' \in [Routines -> Ops \cup {None}]
        BY <1>13, Zenon DEF SysCall, EndOp
    <2>3. pc' \in [Routines -> {"pool", "user", "check", "try", "wait"}]
        BY <1>13, Zenon DEF SysCall, EndOp, Goto
    <2> QED
        BY <1>13, <2>1, <2>2, <2>3 DEF SysCall
<1>14. ASSUME NEW r \in Routines, Interrupted(r) PROVE TypeOK'
    BY <1>14 DEF Interrupted, Goto
<1>15. ASSUME NEW r \in Routines, Wait(r) PROVE TypeOK'
    <2>1. slot' \in [Dirs -> [Parks -> Routines \cup {nullptr}]]
        BY <1>15, Zenon DEF Wait
    <2> QED
        BY <1>15, <2>1 DEF Wait, TimerStart, Goto, Return
<1>16. ASSUME NEW r \in Routines, Resume(r) PROVE TypeOK'
    <2>1. slot' \in [Dirs -> [Parks -> Routines \cup {nullptr}]]
        BY <1>16, Zenon DEF Resume, ClearSlot
    <2>2. ready' \in [Dirs -> SUBSET Parks]
        BY <1>16, Zenon DEF Resume
    <2>3. op' \in [Routines -> Ops \cup {None}]
        BY <1>16 DEF Resume, EndOp
    <2>4. pc' \in [Routines -> {"pool", "user", "check", "try", "wait"}]
        BY <1>16, Zenon DEF Resume, EndOp, Goto
    <2> QED
        BY <1>16, <2>1, <2>2, <2>3, <2>4 DEF Resume, TimerStop
<1>17. ASSUME NEW r \in Routines, NEW t \in Tasks, Do(r, t) PROVE TypeOK'
    <2>1. Start(t) \in Callbacks
        BY DEF Callbacks
    <2> QED
        BY <1>17, <2>1 DEF Do
<1>18. ASSUME NEW r \in Routines, NEW o \in Ops, BeginOp(r, o) PROVE TypeOK'
    BY <1>18 DEF BeginOp, Goto
<1>19. ASSUME NEW r \in Routines, NEW p \in Parks, Notify(r, p) PROVE TypeOK'
    <2>1. functions' \in Seq(Callbacks)
        <3>1. slot["read"][p] # nullptr => slot["read"][p] \in Routines
            BY DEF Dirs
        <3>2. slot["read"][p] # nullptr => CallOf(slot["read"][p]) \in Callbacks
            BY <3>1 DEF Callbacks
        <3>3. \/ functions' = functions
              \/ /\ slot["read"][p] # nullptr
                 /\ functions' = Append(functions, CallOf(slot["read"][p]))
            BY <1>19, Zenon DEF Notify, ScheduleReadInTask
        <3>4. functions \in Seq(Callbacks)
            OBVIOUS
        <3> HIDE DEF TypeOK
        <3> QED
            BY <3>2, <3>3, <3>4, AppendProperties
    <2> QED
        BY <1>19, <2>1, Zenon DEF Notify
<1>20. ASSUME NEW d \in Dirs, NEW p \in Parks, SocketReady(d, p) PROVE TypeOK'
    BY <1>20 DEF SocketReady
<1>21. CASE UNCHANGED vars
    BY <1>21 DEF vars
<1> QED
    BY <1>1, <1>2, <1>3, <1>4, <1>5, <1>6, <1>7, <1>8, <1>9, <1>10, <1>11,
       <1>12, <1>13, <1>14, <1>15, <1>16, <1>17, <1>18, <1>19, <1>20, <1>21, Zenon
       DEF Next, Thread, Socket, MainStep, RoutineStep, SocketStep

\* In every behaviour the state has its type: in particular events never name a
\* routine that does not exist, and ticks_now_ stays below ticks_max_.
THEOREM TypeCorrect == Spec => []TypeOK
BY InitTypeOK, NextTypeOK, PTL DEF Spec

-----------------------------------------------------------------------------
(* The pool.  PoolConsistent is inductive relative to TypeOK.              *)

\* At the start every routine is free.
LEMMA InitPool == Init => PoolConsistent
BY DEF Init, PoolConsistent

\* A step that leaves the lists alone, and a routine outside the pool there,
\* keeps them consistent.
LEMMA PoolFrame ==
    ASSUME TypeOK, PoolConsistent,
           UNCHANGED <<free_list, active_list, func>>,
           \A r \in Routines : pc'[r] = "pool" <=> pc[r] = "pool"
    PROVE  PoolConsistent'
BY DEF PoolConsistent

\* Every step keeps a routine on exactly one of the two lists.
LEMMA NextPool == TypeOK /\ PoolConsistent /\ [Next]_vars => PoolConsistent'
<1> SUFFICES ASSUME TypeOK, PoolConsistent, [Next]_vars PROVE PoolConsistent'
    OBVIOUS
<1> USE DEF poolVars, loopVars, epollVars, routineVars, timerVars, ioVars
<1>0. pc \in [Routines -> {"pool", "user", "check", "try", "wait"}]
    BY DEF TypeOK
<1>1. CASE MainStep
    <2>1. UNCHANGED <<free_list, active_list, func, pc>>
        BY <1>1, Zenon
           DEF MainStep, PoolLoop, TakeFunctions, RunFunction, EpollWait,
               TurnWheel, DoInMain, ScheduleRead, ScheduleWrite, OnTimer
    <2> QED
        BY <2>1, PoolFrame
<1>2. ASSUME NEW r \in Routines, RoutineProcess(r) PROVE PoolConsistent'
    <2>1. CASE r \in free_list /\ r \notin active_list /\ tasks # <<>>
        <3>1. Head(tasks) \in Tasks
            BY <2>1, HeadTailProperties DEF TypeOK
        <3>2. Head(tasks) # None
            BY <3>1, ConstantsAssumption
        <3>3. func \in [Routines -> Tasks \cup {None}]
            BY DEF TypeOK
        <3> QED
            BY <1>0, <1>2, <2>1, <3>2, <3>3
               DEF RoutineProcess, PoolConsistent, ToActive, Goto
    <2>2. CASE ~(r \in free_list /\ r \notin active_list /\ tasks # <<>>)
        BY <1>2, <2>2, PoolFrame DEF RoutineProcess
    <2> QED
        BY <2>1, <2>2
<1>3. ASSUME NEW r \in Routines, FuncDone(r) PROVE PoolConsistent'
    <2>1. func \in [Routines -> Tasks \cup {None}]
        BY DEF TypeOK
    <2> QED
        BY <1>0, <1>3, <2>1
           DEF FuncDone, PoolConsistent, ToFree, Goto, At
<1>4. ASSUME NEW r \in Routines, CheckTicks(r) PROVE PoolConsistent'
    BY <1>0, <1>4, PoolFrame DEF CheckTicks, At, Goto
<1>5. ASSUME NEW r \in Routines, SysCall(r) PROVE PoolConsistent'
    <2>1. UNCHANGED <<free_list, active_list, func>> /\ pc[r] = "try"
        BY <1>5 DEF SysCall, At
    <2>2. pc' = [pc EXCEPT ![r] = "user"] \/ pc' = [pc EXCEPT ![r] = "check"]
        BY <1>5, Zenon DEF SysCall, EndOp, Goto
    <2> QED
        BY <1>0, <2>1, <2>2, PoolFrame
<1>6. ASSUME NEW r \in Routines, Interrupted(r) PROVE PoolConsistent'
    BY <1>0, <1>6, PoolFrame DEF Interrupted, At, Goto
<1>7. ASSUME NEW r \in Routines, Wait(r) PROVE PoolConsistent'
    BY <1>0, <1>7, PoolFrame DEF Wait, At, Goto
<1>8. ASSUME NEW r \in Routines, Resume(r) PROVE PoolConsistent'
    <2>1. UNCHANGED <<free_list, active_list, func>> /\ pc[r] = "wait"
        BY <1>8 DEF Resume, At
    <2>2. pc' = [pc EXCEPT ![r] = "user"] \/ pc' = [pc EXCEPT ![r] = "check"]
        BY <1>8, Zenon DEF Resume, EndOp, Goto
    <2> QED
        BY <1>0, <2>1, <2>2, PoolFrame
<1>9. ASSUME NEW r \in Routines, NEW t \in Tasks, Do(r, t)
      PROVE  PoolConsistent'
    BY <1>9, PoolFrame DEF Do
<1>10. ASSUME NEW r \in Routines, NEW o \in Ops, BeginOp(r, o)
       PROVE  PoolConsistent'
    BY <1>0, <1>10, PoolFrame DEF BeginOp, At, Goto
<1>11. ASSUME NEW r \in Routines, NEW p \in Parks, Notify(r, p)
       PROVE  PoolConsistent'
    BY <1>11, PoolFrame DEF Notify
<1>12. CASE Socket
    BY <1>12, PoolFrame DEF Socket, SocketReady
<1>13. CASE UNCHANGED vars
    BY <1>13, PoolFrame DEF vars
<1> QED
    BY <1>1, <1>2, <1>3, <1>4, <1>5, <1>6, <1>7, <1>8, <1>9, <1>10, <1>11,
       <1>12, <1>13 DEF Next, Thread, RoutineStep, SocketStep

\* However calls, timers and events interleave, a routine is in exactly one of
\* free_list_ and active_list_, and in the free one exactly when it is parked in
\* RoutineProcess without a task.
THEOREM PoolIsConsistent == Spec => []PoolConsistent
<1>1. Init => TypeOK /\ PoolConsistent
    BY InitTypeOK, InitPool
<1>2. TypeOK /\ PoolConsistent /\ [Next]_vars => (TypeOK /\ PoolConsistent)'
    BY NextTypeOK, NextPool
<1> QED
    BY <1>1, <1>2, PTL DEF Spec

-----------------------------------------------------------------------------
(* Wakeups.                                                                *)

\* The labels a routine has inside an operation.
InOp == {"check", "try", "wait"}

\* A routine has an operation exactly while it is inside one, and no two
\* routines are in operations on the same park and direction.
OpsInv ==
    /\ \A r \in Routines : op[r] # None <=> pc[r] \in InOp
    /\ \A r, q \in Routines :
          r # q /\ op[r] # None /\ op[q] # None =>
             ~(op[q].dir = op[r].dir /\ op[q].park = op[r].park)

\* A slot holds the routine that waits there, and a waiting routine is in its
\* slot.
SlotInv ==
    \A r \in Routines, d \in Dirs, p \in Parks :
       slot[d][p] = r <=> pc[r] = "wait" /\ op[r].dir = d /\ op[r].park = p

\* Between two epoll_waits the events are all scheduled, and the batch is empty
\* outside the loop that runs it.
LoopInv ==
    /\ phase \in {"setup", "functions", "timers"} =>
          scheduling = None /\ \A p \in Parks : events[p] = {}
    /\ scheduling # None => events[scheduling] # {}
    /\ phase \in {"setup", "events", "timers"} => batch = <<>>

\* A routine that waits is in the slot it waits on.
LEMMA SlotOfWaiter ==
    ASSUME SlotInv, NEW r \in Routines, NEW d \in Dirs, NEW p \in Parks,
           pc[r] = "wait", op[r].dir = d, op[r].park = p
    PROVE  slot[d][p] = r
BY DEF SlotInv

Wakeup == TypeOK /\ PoolConsistent /\ OpsInv /\ SlotInv /\ LoopInv

-----------------------------------------------------------------------------
(* What the actions do to the variables these invariants read.             *)

\* The type of what an operation reads of its routine.
LEMMA OpType ==
    ASSUME TypeOK, OpsInv, NEW r \in Routines, pc[r] \in InOp
    PROVE  op[r] \in Ops /\ op[r].dir \in Dirs /\ op[r].park \in Parks
<1>1. op[r] \in Ops
    BY DEF TypeOK, OpsInv
<1> QED
    BY <1>1 DEF Ops

\* The loop touches no routine's own state.
LEMMA MainStepFrame == MainStep => UNCHANGED <<pc, func, op, slot>>
BY Zenon DEF MainStep, PoolLoop, TakeFunctions, RunFunction, EpollWait,
             TurnWheel, DoInMain, ScheduleRead, ScheduleWrite, OnTimer,
             poolVars, loopVars, epollVars, routineVars, timerVars, ioVars

\* The main routine steps only when it has the thread.
LEMMA MainHasThread == MainStep => current = nullptr
BY Zenon DEF MainStep, PoolLoop, TakeFunctions, RunFunction, EpollWait,
             TurnWheel, DoInMain, ScheduleRead, ScheduleWrite, OnTimer, Main

\* What a routine's step may do to its place and its operation.
Moves(r) ==
    \/ UNCHANGED <<pc, op>>
    \/ pc[r] = "pool" /\ pc' = [pc EXCEPT ![r] = "user"] /\ op' = op
    \/ pc[r] = "user" /\ pc' = [pc EXCEPT ![r] = "pool"] /\ op' = op
    \/ /\ pc[r] = "user"
       /\ \E o \in Ops, l \in {"check", "try"} :
             /\ \A q \in Routines \ {r} :
                   op[q] # None => ~(op[q].dir = o.dir /\ op[q].park = o.park)
             /\ op' = [op EXCEPT ![r] = o]
             /\ pc' = [pc EXCEPT ![r] = l]
    \/ /\ pc[r] \in InOp /\ op' = op
       /\ \E l \in InOp : pc' = [pc EXCEPT ![r] = l]
    \/ /\ pc[r] \in InOp /\ op' = [op EXCEPT ![r] = None]
       /\ pc' = [pc EXCEPT ![r] = "user"]

\* What one step of a routine can do to its place, call and slots.
LEMMA RoutineMoves ==
    ASSUME NEW r \in Routines, RoutineStep(r)
    PROVE  Moves(r)
<1> USE DEF poolVars, loopVars, epollVars, routineVars, timerVars, ioVars, InOp,
            At, Goto
<1>1. CASE RoutineProcess(r)
    BY <1>1 DEF RoutineProcess, Moves
<1>2. CASE FuncDone(r)
    BY <1>2 DEF FuncDone, Moves
<1>3. CASE CheckTicks(r)
    BY <1>3 DEF CheckTicks, Moves
<1>4. CASE SysCall(r)
    BY <1>4 DEF SysCall, EndOp, Moves
<1>5. CASE Interrupted(r)
    BY <1>5 DEF Interrupted, Moves
<1>6. CASE Wait(r)
    BY <1>6 DEF Wait, Moves
<1>7. CASE Resume(r)
    BY <1>7 DEF Resume, EndOp, Moves
<1>8. ASSUME NEW t \in Tasks, Do(r, t) PROVE Moves(r)
    BY <1>8 DEF Do, Moves
<1>9. ASSUME NEW o \in Ops, BeginOp(r, o) PROVE Moves(r)
    BY <1>9, Zenon DEF BeginOp, Moves
<1>10. ASSUME NEW p \in Parks, Notify(r, p) PROVE Moves(r)
    BY <1>10 DEF Notify, Moves
<1> QED
    BY <1>1, <1>2, <1>3, <1>4, <1>5, <1>6, <1>7, <1>8, <1>9, <1>10
       DEF RoutineStep, SocketStep

\* A routine's step leaves a well formed call behind.
LEMMA MovesKeepOps ==
    ASSUME TypeOK, OpsInv, NEW r \in Routines, Moves(r)
    PROVE  OpsInv'
<1>0. /\ pc \in [Routines -> {"pool", "user", "check", "try", "wait"}]
      /\ op \in [Routines -> Ops \cup {None}]
    BY DEF TypeOK
<1>1. CASE UNCHANGED <<pc, op>>
    BY <1>1 DEF OpsInv
<1>2. CASE op' = op /\ (pc[r] \in InOp <=> pc'[r] \in InOp)
           /\ \E l : pc' = [pc EXCEPT ![r] = l]
    BY <1>0, <1>2 DEF OpsInv
<1>3. CASE /\ pc[r] = "user"
           /\ \E o \in Ops, l \in {"check", "try"} :
                 /\ \A q \in Routines \ {r} : op[q] # None =>
                       ~(op[q].dir = o.dir /\ op[q].park = o.park)
                 /\ op' = [op EXCEPT ![r] = o]
                 /\ pc' = [pc EXCEPT ![r] = l]
    <2>1. PICK o \in Ops, l \in {"check", "try"} :
             /\ \A q \in Routines \ {r} : op[q] # None =>
                   ~(op[q].dir = o.dir /\ op[q].park = o.park)
             /\ op' = [op EXCEPT ![r] = o]
             /\ pc' = [pc EXCEPT ![r] = l]
        BY <1>3, Zenon
    <2>2. o # None
        BY ConstantsAssumption
    <2> QED
        BY <1>0, <2>1, <2>2 DEF OpsInv, InOp
<1>4. CASE /\ pc[r] \in InOp /\ op' = [op EXCEPT ![r] = None]
           /\ pc' = [pc EXCEPT ![r] = "user"]
    BY <1>0, <1>4 DEF OpsInv, InOp
<1> QED
    BY <1>0, <1>1, <1>2, <1>3, <1>4 DEF Moves, InOp

\* Every step keeps the calls well formed.
LEMMA NextOps == TypeOK /\ OpsInv /\ [Next]_vars => OpsInv'
<1> SUFFICES ASSUME TypeOK, OpsInv, [Next]_vars PROVE OpsInv'
    OBVIOUS
<1>1. CASE MainStep
    BY <1>1, MainStepFrame DEF OpsInv
<1>2. ASSUME NEW r \in Routines, RoutineStep(r) PROVE OpsInv'
    BY <1>2, RoutineMoves, MovesKeepOps
<1>3. CASE Socket
    BY <1>3 DEF Socket, SocketReady, OpsInv, routineVars
<1>4. CASE UNCHANGED vars
    BY <1>4 DEF vars, OpsInv, routineVars
<1> QED
    BY <1>1, <1>2, <1>3, <1>4 DEF Next, Thread

-----------------------------------------------------------------------------
(* The slots.                                                              *)

\* Only Wait and Resume touch a slot or bring a routine in or out of "wait".
LEMMA RoutineSlots ==
    ASSUME TypeOK, NEW r \in Routines, RoutineStep(r), ~Wait(r), ~Resume(r)
    PROVE  /\ UNCHANGED <<slot, armed, timeout, due>>
           /\ pc[r] # "wait" /\ pc'[r] # "wait"
           /\ \A q \in Routines \ {r} : pc'[q] = pc[q] /\ op'[q] = op[q]
<1> USE DEF poolVars, loopVars, epollVars, routineVars, timerVars, ioVars,
            At, Goto
<1>0. /\ pc \in [Routines -> {"pool", "user", "check", "try", "wait"}]
      /\ op \in [Routines -> Ops \cup {None}]
    BY DEF TypeOK
<1>1. CASE RoutineProcess(r)
    BY <1>0, <1>1 DEF RoutineProcess
<1>2. CASE FuncDone(r)
    BY <1>0, <1>2 DEF FuncDone
<1>3. CASE CheckTicks(r)
    BY <1>0, <1>3 DEF CheckTicks
<1>4. CASE SysCall(r)
    BY <1>0, <1>4 DEF SysCall, EndOp
<1>5. CASE Interrupted(r)
    BY <1>0, <1>5 DEF Interrupted
<1>6. ASSUME NEW t \in Tasks, Do(r, t)
      PROVE  UNCHANGED <<slot, armed, timeout, due, pc, op>> /\ pc[r] = "user"
    BY <1>6 DEF Do
<1>7. ASSUME NEW o \in Ops, BeginOp(r, o)
      PROVE  /\ UNCHANGED <<slot, armed, timeout, due>>
             /\ pc[r] # "wait" /\ pc'[r] # "wait"
             /\ \A q \in Routines \ {r} : pc'[q] = pc[q] /\ op'[q] = op[q]
    BY <1>0, <1>7 DEF BeginOp
<1>8. ASSUME NEW p \in Parks, Notify(r, p)
      PROVE  UNCHANGED <<slot, armed, timeout, due, pc, op>> /\ pc[r] = "user"
    BY <1>8 DEF Notify
<1> QED
    BY <1>1, <1>2, <1>3, <1>4, <1>5, <1>6, <1>7, <1>8, Zenon DEF RoutineStep, SocketStep

\* Every step keeps a waiter registered where it waits.
LEMMA NextSlots ==
    TypeOK /\ OpsInv /\ SlotInv /\ [Next]_vars => SlotInv'
<1> SUFFICES ASSUME TypeOK, OpsInv, SlotInv, [Next]_vars PROVE SlotInv'
    OBVIOUS
<1>0. /\ pc \in [Routines -> {"pool", "user", "check", "try", "wait"}]
      /\ op \in [Routines -> Ops \cup {None}]
      /\ slot \in [Dirs -> [Parks -> Routines \cup {nullptr}]]
    BY DEF TypeOK
<1>1. CASE MainStep
    BY <1>1, MainStepFrame DEF SlotInv
<1>2. ASSUME NEW r \in Routines, Wait(r) PROVE SlotInv'
    <2>1. /\ pc[r] = "try" /\ pc' = [pc EXCEPT ![r] = "wait"] /\ op' = op
          /\ slot' = [slot EXCEPT ![op[r].dir][op[r].park] = r]
        BY <1>2 DEF Wait, At, Goto
    <2>2. op[r].dir \in Dirs /\ op[r].park \in Parks /\ op[r] # None
        BY <2>1, OpType DEF InOp, OpsInv
    <2>3. SUFFICES ASSUME NEW q \in Routines, NEW d \in Dirs, NEW p \in Parks
                   PROVE  slot'[d][p] = q <=>
                             pc'[q] = "wait" /\ op'[q].dir = d /\ op'[q].park = p
        BY Zenon DEF SlotInv
    <2>4. slot'[d][p] = IF d = op[r].dir /\ p = op[r].park THEN r
                                                            ELSE slot[d][p]
        BY <1>0, <2>1, <2>2
    <2>5. CASE q = r
        BY <1>0, <2>1, <2>4, <2>5 DEF SlotInv
    <2>6. CASE q # r
        <3>1. pc[q] = "wait" => op[q] # None
            BY DEF OpsInv, InOp
        <3>2. pc[q] = "wait" => ~(op[q].dir = op[r].dir /\ op[q].park = op[r].park)
            BY <2>2, <2>6, <3>1 DEF OpsInv
        <3> QED
            BY <1>0, <2>1, <2>4, <2>6, <3>2 DEF SlotInv
    <2> QED
        BY <2>5, <2>6
<1>3. ASSUME NEW r \in Routines, Resume(r) PROVE SlotInv'
    <2>1. /\ pc[r] = "wait"
          /\ slot' = [slot EXCEPT ![op[r].dir][op[r].park] = nullptr]
        BY <1>3 DEF Resume, At, ClearSlot
    <2>2. /\ pc' = [pc EXCEPT ![r] = "user"] \/ pc' = [pc EXCEPT ![r] = "check"]
          /\ op' = op \/ op' = [op EXCEPT ![r] = None]
        BY <1>3, Zenon DEF Resume, EndOp, Goto
    <2>3. op[r].dir \in Dirs /\ op[r].park \in Parks /\ op[r] # None
        BY <2>1, OpType DEF InOp, OpsInv
    <2>4. SUFFICES ASSUME NEW q \in Routines, NEW d \in Dirs, NEW p \in Parks
                   PROVE  slot'[d][p] = q <=>
                             pc'[q] = "wait" /\ op'[q].dir = d /\ op'[q].park = p
        BY DEF SlotInv
    <2>5. slot'[d][p] = IF d = op[r].dir /\ p = op[r].park THEN nullptr
                                                            ELSE slot[d][p]
        BY <1>0, <2>1, <2>3
    <2>6. q # nullptr
        BY DEF Routines, nullptr
    <2>7. CASE q = r
        BY <1>0, <2>1, <2>2, <2>5, <2>6, <2>7 DEF SlotInv
    <2>8. CASE q # r
        <3>1. pc[q] = "wait" => op[q] # None
            BY DEF OpsInv, InOp
        <3>2. pc[q] = "wait" => ~(op[q].dir = op[r].dir /\ op[q].park = op[r].park)
            BY <2>3, <2>8, <3>1 DEF OpsInv
        <3>3. pc'[q] = pc[q] /\ op'[q] = op[q]
            BY <1>0, <2>2, <2>8
        <3>4. slot[d][p] = q <=> pc[q] = "wait" /\ op[q].dir = d /\ op[q].park = p
            BY DEF SlotInv
        <3>5. CASE d = op[r].dir /\ p = op[r].park
            <4>1. slot'[d][p] = nullptr
                BY <2>5, <3>5
            <4> QED
                BY <2>6, <3>2, <3>3, <3>5, <4>1, Zenon
        <3>6. CASE ~(d = op[r].dir /\ p = op[r].park)
            <4>1. slot'[d][p] = slot[d][p]
                BY <2>5, <3>6
            <4> QED
                BY <3>3, <3>4, <4>1
        <3> QED
            BY <3>5, <3>6, Zenon
    <2> QED
        BY <2>7, <2>8, Zenon
<1>4. ASSUME NEW r \in Routines, RoutineStep(r), ~Wait(r), ~Resume(r)
      PROVE  SlotInv'
    <2>1. /\ slot' = slot
          /\ pc[r] # "wait" /\ pc'[r] # "wait"
          /\ \A q \in Routines \ {r} : pc'[q] = pc[q] /\ op'[q] = op[q]
        BY <1>4, RoutineSlots
    <2> QED
        BY <2>1 DEF SlotInv
<1>5. CASE Socket
    BY <1>5 DEF Socket, SocketReady, SlotInv, routineVars
<1>6. CASE UNCHANGED vars
    BY <1>6 DEF vars, SlotInv, routineVars
<1> QED
    BY <1>1, <1>2, <1>3, <1>4, <1>5, <1>6 DEF Next, Thread

-----------------------------------------------------------------------------
(* The timers.                                                             *)

\* Only the routine that has the thread takes a step.
LEMMA RoutineHasThread ==
    ASSUME NEW r \in Routines, RoutineStep(r)
    PROVE  current = r
BY Zenon DEF RoutineStep, SocketStep, RoutineProcess, FuncDone, CheckTicks, SysCall,
             Interrupted, Wait, Resume, Do, BeginOp, Notify, At

\* A routine is never the null pointer.
LEMMA RoutineIsNotNull == \A r \in Routines : r # nullptr
BY DEF Routines, nullptr

\* The loop's only step that touches a wait's timer is the timer's own.
LEMMA MainStepTimers ==
    MainStep => UNCHANGED <<armed, timeout>> \/ \E r \in Routines : OnTimer(r)
BY Zenon DEF MainStep, PoolLoop, TakeFunctions, RunFunction, EpollWait,
             TurnWheel, DoInMain, ScheduleRead, ScheduleWrite,
             poolVars, loopVars, epollVars, routineVars, timerVars, ioVars

\* Every step keeps a timer armed only while its wait lasts.
LEMMA NextTimers ==
    TypeOK /\ TimerBelongsToWait /\ [Next]_vars => TimerBelongsToWait'
<1> SUFFICES ASSUME TypeOK, TimerBelongsToWait, [Next]_vars
             PROVE  TimerBelongsToWait'
    OBVIOUS
<1>0. /\ pc \in [Routines -> {"pool", "user", "check", "try", "wait"}]
      /\ op \in [Routines -> Ops \cup {None}]
    BY DEF TypeOK
<1>1. CASE MainStep
    <2>1. current = nullptr /\ UNCHANGED <<pc, op>>
        BY <1>1, MainHasThread, MainStepFrame
    <2>2. CASE UNCHANGED <<armed, timeout>>
        BY <2>1, <2>2, RoutineIsNotNull DEF TimerBelongsToWait, Suspended
    <2>3. ASSUME NEW r \in Routines, OnTimer(r) PROVE TimerBelongsToWait'
        BY <2>1, <2>3, RoutineIsNotNull
           DEF TimerBelongsToWait, Suspended, OnTimer
    <2> QED
        BY <1>1, <2>2, <2>3, MainStepTimers
<1>2. ASSUME NEW r \in Routines, Wait(r) PROVE TimerBelongsToWait'
    <2>1. /\ current = r /\ pc[r] = "try" /\ current' = nullptr
          /\ pc' = [pc EXCEPT ![r] = "wait"] /\ op' = op
        BY <1>2 DEF Wait, At, Goto, Return
    <2>2. IF op[r].wait = "ms"
          THEN timeout' = timeout \ {r} /\ armed' = armed \cup {r}
          ELSE UNCHANGED <<armed, timeout>>
        BY <1>2 DEF Wait, TimerStart
    <2> QED
        BY <1>0, <2>1, <2>2 DEF TimerBelongsToWait, Suspended
<1>3. ASSUME NEW r \in Routines, Resume(r) PROVE TimerBelongsToWait'
    <2>1. /\ current = r /\ pc[r] = "wait" /\ current' = current
          /\ armed' = armed \ {r} /\ timeout' = timeout
        BY <1>3 DEF Resume, At, TimerStop
    <2>2. /\ pc' = [pc EXCEPT ![r] = "user"] \/ pc' = [pc EXCEPT ![r] = "check"]
          /\ op' = op \/ op' = [op EXCEPT ![r] = None]
        BY <1>3, Zenon DEF Resume, EndOp, Goto
    <2>3. \A q \in Routines \ {r} : pc'[q] = pc[q] /\ op'[q] = op[q]
        BY <1>0, <2>2
    <2>4. pc'[r] # "wait"
        BY <1>0, <2>2
    <2> QED
        BY <2>1, <2>3, <2>4 DEF TimerBelongsToWait, Suspended
<1>4. ASSUME NEW r \in Routines, RoutineStep(r), ~Wait(r), ~Resume(r)
      PROVE  TimerBelongsToWait'
    <2>1. /\ UNCHANGED <<armed, timeout>>
          /\ pc[r] # "wait" /\ pc'[r] # "wait"
          /\ \A q \in Routines \ {r} : pc'[q] = pc[q] /\ op'[q] = op[q]
        BY <1>4, RoutineSlots
    <2>2. current = r
        BY <1>4, RoutineHasThread
    <2> QED
        BY <2>1, <2>2 DEF TimerBelongsToWait, Suspended
<1>5. CASE Socket
    BY <1>5 DEF Socket, SocketReady, TimerBelongsToWait, Suspended,
                routineVars, timerVars
<1>6. CASE UNCHANGED vars
    BY <1>6 DEF vars, TimerBelongsToWait, Suspended, routineVars, timerVars
<1> QED
    BY <1>1, <1>2, <1>3, <1>4, <1>5, <1>6 DEF Next, Thread

\* Routine::Return(ms): a timer is armed exactly while its routine is suspended
\* in a wait with a timeout, and a timeout flag is never seen by another wait
\* than the one whose timer set it.
THEOREM TimersBelongToWaits == Spec => []TimerBelongsToWait
<1>1. Init => TypeOK /\ TimerBelongsToWait
    BY InitTypeOK DEF Init, TimerBelongsToWait, Suspended
<1>2. TypeOK /\ TimerBelongsToWait /\ [Next]_vars
         => (TypeOK /\ TimerBelongsToWait)'
    BY NextTypeOK, NextTimers
<1> QED
    BY <1>1, <1>2, PTL DEF Spec

-----------------------------------------------------------------------------
(* The callbacks.  The batch that is running and functions_ behave as one  *)
(* queue.                                                                  *)

\* Taking the first callback off the batch takes it off the whole queue.
LEMMA QueueTail ==
    ASSUME NEW b \in Seq(Callbacks), NEW f \in Seq(Callbacks), b # <<>>
    PROVE  /\ Tail(b) \o f = Tail(b \o f)
           /\ b \o f \in Seq(Callbacks) /\ b \o f # <<>>
           /\ Head(b \o f) = Head(b)
OBVIOUS

\* A callback queued in functions_ is last of the whole queue.
LEMMA QueueAppend ==
    ASSUME NEW b \in Seq(Callbacks), NEW f \in Seq(Callbacks),
           NEW c \in Callbacks
    PROVE  b \o Append(f, c) = Append(b \o f, c)
OBVIOUS

\* Taking the first callback shifts the others by one.
LEMMA QueuedTail ==
    ASSUME NEW q \in Seq(Callbacks), q # <<>>, NEW r
    PROVE  /\ Head(q) # CallOf(r) /\ QueuedIn(q, r) # {}
                 => QueuedIn(Tail(q), r) # {}
           /\ QueuedIn(q, r) = {} => QueuedIn(Tail(q), r) = {}
           /\ \A i \in DOMAIN q : QueuedIn(q, r) = {i} =>
                 IF Head(q) = CallOf(r)
                 THEN QueuedIn(Tail(q), r) = {}
                 ELSE \E j \in DOMAIN Tail(q) : QueuedIn(Tail(q), r) = {j}
<1>1. /\ Len(Tail(q)) = Len(q) - 1 /\ Len(q) \in Nat \ {0}
      /\ DOMAIN q = 1..Len(q) /\ DOMAIN Tail(q) = 1..(Len(q) - 1)
      /\ \A i \in 1..(Len(q) - 1) : Tail(q)[i] = q[i + 1]
      /\ Head(q) = q[1]
    OBVIOUS
<1>2. \A i \in DOMAIN q : i # 1 => i - 1 \in DOMAIN Tail(q)
                                   /\ Tail(q)[i - 1] = q[i]
    BY <1>1
<1>3. \A j \in DOMAIN Tail(q) : j + 1 \in DOMAIN q /\ Tail(q)[j] = q[j + 1]
    BY <1>1
<1>4. ASSUME Head(q) # CallOf(r), QueuedIn(q, r) # {}
      PROVE  QueuedIn(Tail(q), r) # {}
    <2>1. PICK i \in DOMAIN q : q[i] = CallOf(r)
        BY <1>4 DEF QueuedIn
    <2>2. i - 1 \in DOMAIN Tail(q) /\ Tail(q)[i - 1] = CallOf(r)
        BY <1>1, <1>2, <1>4, <2>1
    <2> QED
        BY <2>2 DEF QueuedIn
<1>5. QueuedIn(q, r) = {} => QueuedIn(Tail(q), r) = {}
    BY <1>3 DEF QueuedIn
<1>6. ASSUME NEW i \in DOMAIN q, QueuedIn(q, r) = {i}
      PROVE  IF Head(q) = CallOf(r)
             THEN QueuedIn(Tail(q), r) = {}
             ELSE \E j \in DOMAIN Tail(q) : QueuedIn(Tail(q), r) = {j}
    <2>1. CASE Head(q) = CallOf(r)
        <3>1. i = 1
            BY <1>1, <1>6, <2>1 DEF QueuedIn
        <3>2. \A j \in DOMAIN Tail(q) : j + 1 # 1
            BY <1>1
        <3>3. QueuedIn(Tail(q), r) = {}
            BY <1>3, <1>6, <3>1, <3>2 DEF QueuedIn
        <3> QED
            BY <2>1, <3>3
    <2>2. CASE Head(q) # CallOf(r)
        <3>1. i # 1 /\ q[i] = CallOf(r)
            BY <1>1, <1>6, <2>2 DEF QueuedIn
        <3>2. i - 1 \in DOMAIN Tail(q) /\ Tail(q)[i - 1] = CallOf(r)
            BY <1>2, <3>1
        <3>3. \A j \in DOMAIN Tail(q) : Tail(q)[j] = CallOf(r) => j = i - 1
            BY <1>1, <1>3, <1>6 DEF QueuedIn
        <3>4. QueuedIn(Tail(q), r) = {i - 1}
            BY <3>2, <3>3 DEF QueuedIn
        <3> QED
            BY <2>2, <3>2, <3>4
    <2> QED
        BY <2>1, <2>2
<1> QED
    BY <1>4, <1>5, <1>6

\* A callback that is queued adds one place for its routine, and for no other.
LEMMA QueuedAppend ==
    ASSUME NEW q \in Seq(Callbacks), NEW c \in Callbacks, NEW r
    PROVE  /\ c # CallOf(r) => /\ QueuedIn(Append(q, c), r) = QueuedIn(q, r)
                               /\ DOMAIN q \subseteq DOMAIN Append(q, c)
           /\ c = CallOf(r) =>
                 /\ QueuedIn(Append(q, c), r) = QueuedIn(q, r) \cup {Len(q) + 1}
                 /\ Len(q) + 1 \in DOMAIN Append(q, c)
<1>1. /\ Len(q) \in Nat /\ DOMAIN q = 1..Len(q)
      /\ DOMAIN Append(q, c) = 1..(Len(q) + 1)
      /\ \A i \in 1..Len(q) : Append(q, c)[i] = q[i]
      /\ Append(q, c)[Len(q) + 1] = c
    OBVIOUS
<1>2. DOMAIN Append(q, c) = DOMAIN q \cup {Len(q) + 1}
    BY <1>1
<1>3. ASSUME c # CallOf(r) PROVE QueuedIn(Append(q, c), r) = QueuedIn(q, r)
    BY <1>1, <1>2, <1>3 DEF QueuedIn
<1>4. ASSUME c = CallOf(r)
      PROVE  QueuedIn(Append(q, c), r) = QueuedIn(q, r) \cup {Len(q) + 1}
    BY <1>1, <1>2, <1>4, Zenon DEF QueuedIn
<1> QED
    BY <1>2, <1>3, <1>4

\* A queued callback takes no place away.
LEMMA QueuedGrows ==
    ASSUME NEW q \in Seq(Callbacks), NEW c \in Callbacks, NEW r
    PROVE  QueuedIn(q, r) \subseteq QueuedIn(Append(q, c), r)
<1>1. /\ DOMAIN q \subseteq DOMAIN Append(q, c)
      /\ \A i \in DOMAIN q : Append(q, c)[i] = q[i]
    OBVIOUS
<1> QED
    BY <1>1 DEF QueuedIn

\* A routine's callback that is queued is at the end of the queue.
LEMMA QueuedLast ==
    ASSUME NEW q \in Seq(Callbacks), NEW r, CallOf(r) \in Callbacks
    PROVE  Len(q) + 1 \in QueuedIn(Append(q, CallOf(r)), r)
<1>1. PICK c \in Callbacks : c = CallOf(r)
    OBVIOUS
<1>2. Len(q) + 1 \in DOMAIN Append(q, c) /\ Append(q, c)[Len(q) + 1] = c
    OBVIOUS
<1> QED
    BY <1>1, <1>2 DEF QueuedIn

\* Callbacks of two routines differ, and none is a Start.
LEMMA CallsDiffer ==
    /\ \A r, q : CallOf(r) = CallOf(q) => r = q
    /\ \A r, t : CallOf(r) # Start(t)
BY Zenon DEF CallOf, Start

-----------------------------------------------------------------------------
(* The main routine's place in its loop.                                   *)

\* A routine touches none of the loop's own state.
LEMMA RoutineLoopFrame ==
    ASSUME NEW r \in Routines, RoutineStep(r)
    PROVE  /\ UNCHANGED <<batch, events, scheduling, maxevents, edge>>
           /\ phase' = phase \/ phase' = "aborted"
BY Zenon DEF RoutineStep, SocketStep, RoutineProcess, FuncDone, CheckTicks, SysCall,
             Interrupted, Wait, Resume, Do, BeginOp, Notify,
             poolVars, loopVars, epollVars, routineVars, timerVars, ioVars

\* Every step keeps the loop's place and its batch in agreement.
LEMMA NextLoop == TypeOK /\ LoopInv /\ [Next]_vars => LoopInv'
<1> SUFFICES ASSUME TypeOK, LoopInv, [Next]_vars PROVE LoopInv'
    OBVIOUS
<1> USE DEF poolVars, loopVars, epollVars, LoopInv
<1>0. events \in [Parks -> SUBSET Dirs] /\ None \notin Parks
    BY ConstantsAssumption DEF TypeOK
<1>1. CASE PoolLoop
    BY <1>1, Zenon DEF PoolLoop
<1>2. CASE TakeFunctions
    BY <1>2 DEF TakeFunctions
<1>3. CASE RunFunction
    BY <1>3 DEF RunFunction
<1>4. CASE EpollWait
    <2>1. phase = "functions" /\ batch' = <<>> /\ phase' = "events"
          /\ scheduling' = scheduling
        BY <1>4, Zenon DEF EpollWait
    <2> QED
        BY <2>1
<1>5. CASE TurnWheel
    <2>1. \A p \in Parks : events'[p] = {}
        BY <1>5 DEF TurnWheel
    <2>2. scheduling' = None
        BY <1>5 DEF TurnWheel, TypeOK
    <2> QED
        BY <1>5, <2>1, <2>2 DEF TurnWheel
<1>6. ASSUME NEW t \in Tasks, DoInMain(t) PROVE LoopInv'
    BY <1>6, Zenon DEF DoInMain
<1>7. ASSUME NEW p \in Parks, ScheduleRead(p) PROVE LoopInv'
    BY <1>0, <1>7 DEF ScheduleRead
<1>8. ASSUME NEW p \in Parks, ScheduleWrite(p) PROVE LoopInv'
    BY <1>0, <1>8 DEF ScheduleWrite
<1>9. ASSUME NEW r \in Routines, OnTimer(r) PROVE LoopInv'
    BY <1>9 DEF OnTimer
<1>10. ASSUME NEW r \in Routines, RoutineStep(r) PROVE LoopInv'
    BY <1>10, RoutineLoopFrame
<1>11. CASE Socket
    BY <1>11 DEF Socket, SocketReady
<1>12. CASE UNCHANGED vars
    BY <1>12 DEF vars
<1> QED
    BY <1>1, <1>2, <1>3, <1>4, <1>5, <1>6, <1>7, <1>8, <1>9, <1>10, <1>11,
       <1>12, Zenon DEF Next, Thread, MainStep

-----------------------------------------------------------------------------
(* No wakeup is lost.                                                      *)

\* What will resume routine r, waiting for a park that is ready.
Covered(r) ==
    \/ op[r].park \in edge
    \/ /\ op[r].dir \in events[op[r].park]
       /\ op[r].dir = "read" => scheduling # op[r].park
    \/ /\ op[r].park \in Conds
       /\ QueuedIn(batch \o functions, r) # {}

MustWake(r) == Suspended(r, "wait") /\ op[r].park \in ready[op[r].dir]

\* NoLostWakeup, routine by routine.
LEMMA NoLostWakeupDef ==
    NoLostWakeup <=> \A r \in Routines : MustWake(r) => Covered(r)
BY DEF NoLostWakeup, MustWake, Covered

\* The callbacks a routine's step queues come after those there are.
LEMMA RoutineQueues ==
    ASSUME TypeOK, NEW r \in Routines, RoutineStep(r)
    PROVE  functions' = functions
           \/ \E c \in Callbacks : functions' = Append(functions, c)
<1> USE DEF poolVars, loopVars, epollVars, routineVars, timerVars, ioVars
<1>1. CASE CheckTicks(r)
    <2>1. functions' = functions \/ functions' = Append(functions, CallOf(r))
        BY <1>1, Zenon DEF CheckTicks, Yield
    <2> QED
        BY <2>1 DEF Callbacks
<1>2. ASSUME NEW t \in Tasks, Do(r, t)
      PROVE  \E c \in Callbacks : functions' = Append(functions, c)
    BY <1>2 DEF Do, Callbacks
<1>3. ASSUME NEW p \in Parks, Notify(r, p)
      PROVE  functions' = functions
             \/ \E c \in Callbacks : functions' = Append(functions, c)
    <2>1. CASE slot["read"][p] # nullptr
        <3>1. slot["read"][p] \in Routines
            BY <2>1 DEF TypeOK, Dirs
        <3>2. CallOf(slot["read"][p]) \in Callbacks
            BY <3>1 DEF Callbacks
        <3>3. functions' = Append(functions, CallOf(slot["read"][p]))
            BY <1>3, <2>1 DEF Notify, ScheduleReadInTask
        <3> QED
            BY <3>2, <3>3
    <2>2. CASE slot["read"][p] = nullptr
        BY <1>3, <2>2 DEF Notify, ScheduleReadInTask
    <2> QED
        BY <2>1, <2>2
<1>4. CASE \/ RoutineProcess(r) \/ FuncDone(r) \/ SysCall(r) \/ Interrupted(r)
           \/ Wait(r) \/ Resume(r) \/ \E o \in Ops : BeginOp(r, o)
    BY <1>4, Zenon DEF RoutineProcess, FuncDone, SysCall, Interrupted, Wait,
                       Resume, BeginOp
<1> QED
    BY <1>1, <1>2, <1>3, <1>4 DEF RoutineStep, SocketStep

\* A step of one routine leaves another where it is, and only a notification
\* makes a park ready.
LEMMA RoutineOthers ==
    ASSUME TypeOK, NEW r \in Routines, RoutineStep(r)
    PROVE  /\ \A q \in Routines \ {r} : pc'[q] = pc[q] /\ op'[q] = op[q]
           /\ pc'[r] = "wait" => Wait(r)
           /\ (\A d \in Dirs : ready'[d] \subseteq ready[d])
              \/ \E p \in Parks : Notify(r, p)
<1>0. /\ pc \in [Routines -> {"pool", "user", "check", "try", "wait"}]
      /\ op \in [Routines -> Ops \cup {None}]
      /\ ready \in [Dirs -> SUBSET Parks]
    BY DEF TypeOK
<1>1. CASE Wait(r)
    BY <1>0, <1>1 DEF Wait, Goto, routineVars, ioVars
<1>2. CASE Resume(r)
    <2>1. /\ pc' = [pc EXCEPT ![r] = "user"] \/ pc' = [pc EXCEPT ![r] = "check"]
          /\ op' = op \/ op' = [op EXCEPT ![r] = None]
        BY <1>2, Zenon DEF Resume, EndOp, Goto
    <2>2. \/ ready' = ready
          \/ ready' = [ready EXCEPT ![op[r].dir] = @ \ {op[r].park}]
        BY <1>2, Zenon DEF Resume
    <2> QED
        BY <1>0, <2>1, <2>2
<1>3. CASE ~Wait(r) /\ ~Resume(r)
    <2>1. /\ pc'[r] # "wait"
          /\ \A q \in Routines \ {r} : pc'[q] = pc[q] /\ op'[q] = op[q]
        BY <1>3, RoutineSlots, Zenon
    <2>2. \/ ready' = ready
          \/ ready' = [ready EXCEPT ![op[r].dir] = @ \ {op[r].park}]
          \/ \E p \in Parks : Notify(r, p)
        BY <1>3, Zenon DEF RoutineStep, SocketStep, RoutineProcess, FuncDone, CheckTicks,
               SysCall, Interrupted, Do, BeginOp, ioVars
    <2> QED
        BY <1>0, <2>1, <2>2, Zenon
<1> QED
    BY <1>1, <1>2, <1>3, Zenon

\* The loop makes nothing ready by itself.
LEMMA MainStepReady == MainStep => UNCHANGED ready
BY Zenon DEF MainStep, PoolLoop, TakeFunctions, RunFunction, EpollWait,
             TurnWheel, DoInMain, ScheduleRead, ScheduleWrite, OnTimer, ioVars

\* A step of the main routine: an event leaves edge and events only to resume
\* its routine, and so does a callback its queue.
LEMMA MainKeepsCovered ==
    ASSUME Wakeup, MainStep, NEW q \in Routines,
           MustWake(q), Covered(q), current' # q
    PROVE  Covered(q)'
<1> DEFINE d == op[q].dir
           p == op[q].park
<1>0. /\ d \in Dirs /\ p \in Parks /\ op' = op /\ slot[d][p] = q
      /\ p \in ready[d]
    <2>1. pc[q] = "wait"
        BY DEF MustWake, Suspended
    <2>2. d \in Dirs /\ p \in Parks
        BY <2>1, OpType DEF Wakeup, InOp
    <2>3. slot[d][p] = q
        <3>1. \A e \in Dirs, k \in Parks :
                 pc[q] = "wait" /\ op[q].dir = e /\ op[q].park = k => slot[e][k] = q
            BY Zenon DEF Wakeup, SlotInv
        <3> QED
            BY <2>1, <2>2, <3>1, SMTT(10)
    <2> QED
        BY <2>2, <2>3, MainStepFrame, Zenon DEF MustWake
<1>1. /\ batch \in Seq(Callbacks) /\ functions \in Seq(Callbacks)
      /\ events \in [Parks -> SUBSET Dirs] /\ None \notin Parks
    BY ConstantsAssumption DEF Wakeup, TypeOK
<1> HIDE DEF d, p
<1> USE DEF poolVars, loopVars, epollVars, ioVars
<1>2. Covered(q)' <=> \/ p \in edge'
                      \/ d \in events'[p] /\ (d = "read" => scheduling' # p)
                      \/ p \in Conds /\ QueuedIn(batch' \o functions', q) # {}
    BY <1>0, Zenon DEF Covered, QueuedIn, d, p
<1>3. Covered(q) <=> \/ p \in edge
                     \/ d \in events[p] /\ (d = "read" => scheduling # p)
                     \/ p \in Conds /\ QueuedIn(batch \o functions, q) # {}
    BY Zenon DEF Covered, d, p
<1>4. CASE UNCHANGED <<edge, events, scheduling, batch, functions>>
    BY <1>2, <1>3, <1>4, Zenon
<1>5. CASE TakeFunctions
    <2>1. batch = <<>> /\ batch' = functions /\ functions' = <<>>
        BY <1>5, Zenon DEF TakeFunctions, MoveFunctions, Wakeup, LoopInv
    <2>2. batch' \o functions' = batch \o functions
        BY <1>1, <2>1, ConcatEmptySeq
    <2>3. UNCHANGED <<edge, events, scheduling>>
        BY <1>5 DEF TakeFunctions
    <2> QED
        BY <1>2, <1>3, <2>2, <2>3, Zenon
<1>6. CASE RunFunction
    <2>1. /\ UNCHANGED <<edge, events, scheduling, functions>>
          /\ batch # <<>> /\ batch' = Tail(batch)
        BY <1>6 DEF RunFunction
    <2>2. Head(batch) # CallOf(q)
        <3>1. \/ \E t \in Tasks : Head(batch) = Start(t)
              \/ \E r \in Routines : Head(batch) = CallOf(r) /\ current' = r
            BY <1>6, Zenon DEF RunFunction
        <3> QED
            BY <3>1, CallsDiffer
    <2>3. QueuedIn(batch \o functions, q) # {}
             => QueuedIn(batch' \o functions', q) # {}
        <3>1. /\ batch' \o functions' = Tail(batch \o functions)
              /\ batch \o functions \in Seq(Callbacks)
              /\ batch \o functions # <<>>
              /\ Head(batch \o functions) = Head(batch)
            BY <1>1, <2>1, QueueTail
        <3> QED
            BY <2>2, <3>1, QueuedTail, Zenon
    <2> QED
        BY <1>2, <1>3, <2>1, <2>3, Zenon
<1>7. CASE EpollWait
    <2>1. \A x \in Parks : events[x] = {}
        BY <1>7 DEF EpollWait, Wakeup, LoopInv
    <2>2. UNCHANGED <<batch, functions, scheduling>> /\ scheduling = None
        BY <1>7 DEF EpollWait, Wakeup, LoopInv
    <2>3. CASE p \in edge
        <3> DEFINE bits(x) == {e \in Dirs : x \in ready[e]}
                   pending == {x \in edge : bits(x) # {}}
        <3>1. PICK S \in SUBSET pending :
                 /\ events' = [x \in Parks |-> IF x \in S THEN bits(x) ELSE {}]
                 /\ edge' = pending \ S
            BY <1>7, Zenon DEF EpollWait
        <3>2. d \in bits(p)
            BY <1>0
        <3>3. p \in pending
            BY <2>3, <3>2
        <3>4. p \in edge' \/ d \in events'[p]
            BY <1>0, <3>1, <3>2, <3>3, Zenon
        <3> QED
            BY <1>0, <1>1, <1>2, <2>2, <3>4, Zenon
    <2>4. CASE p \notin edge
        BY <1>0, <1>2, <1>3, <2>1, <2>2, <2>4, Zenon
    <2> QED
        BY <2>3, <2>4
<1>8. ASSUME NEW x \in Parks, ScheduleRead(x) PROVE Covered(q)'
    <2>1. /\ UNCHANGED <<edge, events, batch, functions>>
          /\ scheduling = None /\ scheduling' = x
          /\ "read" \in events[x] => current' = slot["read"][x]
        BY <1>8, Zenon DEF ScheduleRead, Wake
    <2>2. ~(d = "read" /\ p = x /\ d \in events[p])
        BY <1>0, <2>1
    <2> QED
        BY <1>2, <1>3, <2>1, <2>2, Zenon
<1>9. ASSUME NEW x \in Parks, ScheduleWrite(x) PROVE Covered(q)'
    <2>1. /\ UNCHANGED <<edge, batch, functions>>
          /\ scheduling = x /\ scheduling' = None
          /\ events' = [events EXCEPT ![x] = {}]
          /\ "write" \in events[x] => current' = slot["write"][x]
        BY <1>9, Zenon DEF ScheduleWrite, Wake
    <2>2. p = x => ~(d \in events[p] /\ (d = "read" => scheduling # p))
        BY <1>0, <2>1, Zenon DEF Dirs
    <2> QED
        BY <1>0, <1>1, <1>2, <1>3, <2>1, <2>2, Zenon
<1>10. CASE \/ PoolLoop \/ TurnWheel \/ \E t \in Tasks : DoInMain(t)
            \/ \E r \in Routines : OnTimer(r)
    <2>1. UNCHANGED <<edge, events, scheduling, batch, functions>>
        BY <1>10, Zenon DEF PoolLoop, TurnWheel, DoInMain, OnTimer
    <2> QED
        BY <1>4, <2>1
<1> QED
    BY <1>5, <1>6, <1>7, <1>8, <1>9, <1>10 DEF MainStep

\* A step of another routine: it may only add to what will resume q.
LEMMA RoutineKeepsCovered ==
    ASSUME Wakeup, NEW r \in Routines, RoutineStep(r),
           NEW q \in Routines \ {r}, MustWake(q)', MustWake(q) => Covered(q)
    PROVE  Covered(q)'
<1>1. /\ batch \in Seq(Callbacks) /\ functions \in Seq(Callbacks)
    BY DEF Wakeup, TypeOK
<1>2. current = r /\ pc'[q] = pc[q] /\ op'[q] = op[q]
    BY RoutineHasThread, RoutineOthers, Zenon DEF Wakeup
<1>3. pc[q] = "wait" /\ op[q].park \in ready'[op[q].dir]
    BY <1>2, Zenon DEF MustWake, Suspended
<1>4. op[q].dir \in Dirs /\ op[q].park \in Parks
    BY <1>3, OpType, Zenon DEF Wakeup, InOp
<1>5. UNCHANGED <<batch, events, scheduling, edge>>
    BY RoutineLoopFrame
<1>6. QueuedIn(batch \o functions, q) # {}
         => QueuedIn(batch' \o functions', q) # {}
    <2>1. CASE functions' = functions
        BY <1>5, <2>1
    <2>2. ASSUME NEW c \in Callbacks, functions' = Append(functions, c)
          PROVE  QueuedIn(batch \o functions, q)
                    \subseteq QueuedIn(batch' \o functions', q)
        <3>1. /\ batch' \o functions' = Append(batch \o functions, c)
              /\ batch \o functions \in Seq(Callbacks)
            BY <1>1, <1>5, <2>2, QueueAppend, ConcatProperties, Zenon
        <3> DEFINE queue == batch \o functions
        <3> HIDE DEF queue
        <3>2. QueuedIn(queue, q) \subseteq QueuedIn(Append(queue, c), q)
            <4>1. queue \in Seq(Callbacks)
                BY <3>1 DEF queue
            <4> QED
                BY <2>2, <4>1, QueuedGrows
        <3> QED
            BY <3>1, <3>2, Zenon DEF queue
    <2> QED
        BY <2>1, <2>2, RoutineQueues DEF Wakeup
<1>7. CASE MustWake(q)
    BY <1>2, <1>5, <1>6, <1>7, Zenon DEF Covered
<1>8. CASE ~MustWake(q)
    <2>1. op[q].park \notin ready[op[q].dir]
        BY <1>2, <1>3, <1>8, Zenon DEF MustWake, Suspended
    <2>2. PICK p \in Parks : Notify(r, p)
        BY <1>3, <1>4, <2>1, RoutineOthers, Zenon DEF Wakeup
    <2>3. op[q].dir = "read" /\ op[q].park = p /\ p \in Conds
        BY <1>3, <1>4, <2>1, <2>2 DEF Notify, Wakeup, TypeOK
    <2>4. slot["read"][p] = q
        <3>1. q \in Routines /\ "read" \in Dirs /\ pc[q] = "wait"
            BY <1>3, <1>4, Zenon DEF Dirs
        <3>2. SlotInv
            BY Zenon DEF Wakeup
        <3>3. PICK d \in Dirs : d = "read"
            BY <3>1
        <3>4. slot[d][p] = q
            BY <2>3, <3>1, <3>2, <3>3, SlotOfWaiter, Zenon
        <3> QED
            BY <3>3, <3>4
    <2>5. functions' = Append(functions, CallOf(q))
        BY <2>2, <2>4, RoutineIsNotNull DEF Notify, ScheduleReadInTask
    <2>6. CallOf(q) \in Callbacks
        BY DEF Callbacks
    <2>7. QueuedIn(batch' \o functions', q) # {}
        <3>1. /\ batch' \o functions' = Append(batch \o functions, CallOf(q))
              /\ batch \o functions \in Seq(Callbacks)
            BY <1>1, <1>5, <2>5, <2>6, QueueAppend, ConcatProperties, Zenon
        <3>2. Len(batch \o functions) + 1
                 \in QueuedIn(Append(batch \o functions, CallOf(q)), q)
            BY <2>6, <3>1, QueuedLast, Zenon
        <3> QED
            BY <3>1, <3>2, Zenon
    <2> QED
        BY <1>2, <2>3, <2>7, Zenon DEF Covered
<1> QED
    BY <1>7, <1>8

\* Every step keeps a waiter that must wake covered by a pending wakeup.
LEMMA NextNoLostWakeup ==
    Wakeup /\ NoLostWakeup /\ [Next]_vars => NoLostWakeup'
<1> SUFFICES ASSUME Wakeup, NoLostWakeup, [Next]_vars,
                    NEW q \in Routines, MustWake(q)'
             PROVE  Covered(q)'
    BY Zenon DEF NoLostWakeup, MustWake, Covered
<1>0. MustWake(q) => Covered(q)
    BY NoLostWakeupDef
<1>1. CASE MainStep
    <2>1. current = nullptr /\ UNCHANGED <<pc, op, ready>>
        BY <1>1, MainHasThread, MainStepFrame, MainStepReady
    <2>2. MustWake(q) /\ current' # q
        BY <2>1, RoutineIsNotNull DEF MustWake, Suspended
    <2> QED
        BY <1>0, <1>1, <2>2, MainKeepsCovered
<1>2. ASSUME NEW r \in Routines, RoutineStep(r) PROVE Covered(q)'
    <2>1. CASE q # r
        BY <1>0, <1>2, <2>1, RoutineKeepsCovered
    <2>2. CASE q = r
        <3>1. Wait(r)
            BY <1>2, <2>2, RoutineOthers, Zenon DEF MustWake, Suspended, Wakeup
        <3>2. op[r].park \notin ready[op[r].dir] /\ UNCHANGED <<op, ready>>
            BY <3>1 DEF Wait, WouldBlock, ioVars
        <3> QED
            BY <2>2, <3>2 DEF MustWake
    <2> QED
        BY <2>1, <2>2
<1>3. ASSUME NEW d \in Dirs, NEW p \in Parks, SocketReady(d, p)
      PROVE  Covered(q)'
    <2>1. /\ UNCHANGED <<current, pc, op, events, scheduling, batch, functions>>
          /\ edge' = edge \cup {p}
          /\ ready' = [ready EXCEPT ![d] = @ \cup {p}]
        BY <1>3 DEF SocketReady, loopVars, epollVars, routineVars
    <2>2. CASE op[q].park = p
        BY <2>1, <2>2, Zenon DEF Covered
    <2>3. CASE op[q].park # p
        <3>1. ready \in [Dirs -> SUBSET Parks]
            BY DEF Wakeup, TypeOK
        <3>2. pc[q] = "wait" /\ op[q].park \in ready'[op[q].dir]
            BY <2>1, Zenon DEF MustWake, Suspended
        <3>3. op[q].dir \in Dirs
            BY <3>2, OpType DEF Wakeup, InOp
        <3>4. MustWake(q)
            BY <2>1, <2>3, <3>1, <3>2, <3>3, Zenon DEF MustWake, Suspended
        <3> QED
            BY <1>0, <2>1, <3>4, Zenon DEF Covered
    <2> QED
        BY <2>2, <2>3
<1>4. CASE UNCHANGED vars
    <2>1. UNCHANGED <<current, pc, op, events, scheduling, batch, functions,
                      edge, ready>>
        BY <1>4 DEF vars, loopVars, epollVars, routineVars, ioVars
    <2> QED
        BY <1>0, <2>1, Zenon DEF MustWake, Suspended, Covered
<1> QED
    BY <1>1, <1>2, <1>3, <1>4 DEF Next, Thread, Socket

\* At the start nobody waits.
LEMMA InitWakeup == Init => Wakeup /\ NoLostWakeup
<1> SUFFICES ASSUME Init PROVE Wakeup /\ NoLostWakeup
    OBVIOUS
<1>1. OpsInv /\ SlotInv /\ LoopInv
    BY RoutineIsNotNull DEF Init, OpsInv, SlotInv, LoopInv, InOp
<1>2. NoLostWakeup
    BY DEF Init, NoLostWakeup, Suspended
<1> QED
    BY <1>1, <1>2, InitTypeOK, InitPool DEF Wakeup

\* Every step keeps the invariants that the wakeups rest on.
LEMMA NextWakeup == Wakeup /\ [Next]_vars => Wakeup'
BY NextTypeOK, NextPool, NextOps, NextSlots, NextLoop DEF Wakeup

\* Edge-triggered polling and notifications lose no wakeup: whatever a routine
\* waits for, once it is there an event or a callback that resumes the routine
\* is on its way, with any number of routines, sockets and notifications.
THEOREM NoWakeupIsLost == Spec => []NoLostWakeup
<1>1. Init => Wakeup /\ NoLostWakeup
    BY InitWakeup
<1>2. Wakeup /\ NoLostWakeup /\ [Next]_vars => (Wakeup /\ NoLostWakeup)'
    BY NextWakeup, NextNoLostWakeup
<1> QED
    BY <1>1, <1>2, PTL DEF Spec

-----------------------------------------------------------------------------
(* One wakeup, and the assertions of RoutineProcess, where no task         *)
(* notifies a park.                                                        *)

\* The callback that resumes r after it yielded is queued once, and none else.
OneCall(r) ==
    /\ Suspended(r, "try") => \E i \in DOMAIN (batch \o functions) :
                                 QueuedIn(batch \o functions, r) = {i}
    /\ ~Suspended(r, "try") => QueuedIn(batch \o functions, r) = {}

\* The pool resumes a free routine only when there is a task for it.
PoolHasTask ==
    \A r \in Routines : current = r /\ pc[r] = "pool" => tasks # <<>>

Strong ==
    /\ Wakeup /\ TimerBelongsToWait
    /\ \A r \in Routines : OneCall(r)
    /\ PoolHasTask /\ AssertionsHold

\* One queued call per yielded routine, and none besides, is OneWakeup.
LEMMA OneWakeupDef == SlotInv /\ (\A r \in Routines : OneCall(r)) => OneWakeup
BY Zenon DEF SlotInv, OneCall, OneWakeup

\* Apart from the callbacks, the main routine resumes only routines the pool
\* starts and routines that wait.
LEMMA MainResumes ==
    ASSUME Strong, MainStep, ~RunFunction, NEW q \in Routines, current' = q
    PROVE  pc[q] = "wait" \/ (pc[q] = "pool" /\ tasks' = tasks /\ tasks # <<>>)
<1>0. current = nullptr /\ q # nullptr
    BY MainHasThread, RoutineIsNotNull
<1> USE DEF poolVars, loopVars, epollVars, routineVars, timerVars, ioVars
<1>1. CASE PoolLoop
    <2>1. q \in free_list /\ tasks # <<>> /\ tasks' = tasks
        BY <1>0, <1>1, Zenon DEF PoolLoop, MoreToStart
    <2> QED
        BY <2>1 DEF Strong, Wakeup, PoolConsistent
<1>2. CASE TakeFunctions \/ EpollWait \/ TurnWheel \/ \E t \in Tasks : DoInMain(t)
    <2>1. current' = current
        BY <1>2, Zenon DEF TakeFunctions, EpollWait, TurnWheel, DoInMain
    <2> QED
        BY <1>0, <2>1
<1>3. ASSUME NEW p \in Parks, ScheduleRead(p) \/ ScheduleWrite(p)
      PROVE  pc[q] = "wait"
    <2>1. \E d \in Dirs : slot[d][p] = q
        BY <1>0, <1>3, Zenon DEF ScheduleRead, ScheduleWrite, Wake, Dirs
    <2> QED
        BY <2>1 DEF Strong, Wakeup, SlotInv
<1>4. ASSUME NEW r \in Routines, OnTimer(r) PROVE pc[q] = "wait"
    BY <1>4, Zenon DEF OnTimer, Strong, TimerBelongsToWait
<1> QED
    BY <1>1, <1>2, <1>3, <1>4 DEF MainStep

\* Of the loop's steps only RunFunction takes a callback off the queue.
LEMMA MainStepQueue ==
    ASSUME Strong, MainStep, ~RunFunction
    PROVE  batch' \o functions' = batch \o functions
<1>1. batch \in Seq(Callbacks) /\ functions \in Seq(Callbacks)
    BY DEF Strong, Wakeup, TypeOK
<1>2. CASE TakeFunctions
    <2>1. batch = <<>> /\ batch' = functions /\ functions' = <<>>
        BY <1>2, Zenon DEF TakeFunctions, MoveFunctions, Strong, Wakeup, LoopInv
    <2> QED
        BY <1>1, <2>1, ConcatEmptySeq
<1>3. CASE ~TakeFunctions
    <2>1. UNCHANGED <<batch, functions>>
        BY <1>3, Zenon DEF MainStep, PoolLoop, EpollWait, TurnWheel, DoInMain,
               ScheduleRead, ScheduleWrite, OnTimer, loopVars
    <2> QED
        BY <2>1
<1> QED
    BY <1>2, <1>3

\* The loop keeps one queued call per yielded routine.
LEMMA MainKeepsOneCall ==
    ASSUME Strong, MainStep, NEW q \in Routines
    PROVE  OneCall(q)'
<1>0. /\ current = nullptr /\ q # nullptr /\ pc' = pc
      /\ batch \in Seq(Callbacks) /\ functions \in Seq(Callbacks)
    BY MainHasThread, RoutineIsNotNull, MainStepFrame DEF Strong, Wakeup, TypeOK
<1>1. OneCall(q)
    BY DEF Strong
<1>2. CASE ~RunFunction
    <2>1. Suspended(q, "try")' <=> Suspended(q, "try")
        BY <1>0, <1>2, MainResumes, Zenon DEF Suspended
    <2>2. batch' \o functions' = batch \o functions
        BY <1>2, MainStepQueue
    <2> QED
        BY <1>1, <2>1, <2>2, Zenon DEF OneCall
<1>3. CASE RunFunction
    <2> DEFINE queue == batch \o functions
    <2>1. /\ batch' \o functions' = Tail(queue) /\ Head(queue) = Head(batch)
          /\ queue \in Seq(Callbacks) /\ queue # <<>>
        <3>1. batch # <<>> /\ batch' = Tail(batch) /\ functions' = functions
            BY <1>3 DEF RunFunction
        <3> QED
            BY <1>0, <3>1, QueueTail
    <2>2. IF Head(queue) = CallOf(q) THEN current' = q ELSE current' # q
        <3>1. \/ \E t \in Tasks : Head(batch) = Start(t) /\ current' = current
              \/ \E r \in Routines : Head(batch) = CallOf(r) /\ current' = r
            BY <1>3, Zenon DEF RunFunction
        <3> QED
            BY <1>0, <2>1, <3>1, CallsDiffer
    <2>3. OneCall(q) <=>
             /\ pc[q] = "try" => \E i \in DOMAIN queue : QueuedIn(queue, q) = {i}
             /\ pc[q] # "try" => QueuedIn(queue, q) = {}
        BY <1>0 DEF OneCall, Suspended
    <2>4. OneCall(q)' <=>
             /\ Suspended(q, "try")' =>
                   \E i \in DOMAIN Tail(queue) : QueuedIn(Tail(queue), q) = {i}
             /\ ~Suspended(q, "try")' => QueuedIn(Tail(queue), q) = {}
        BY <2>1, Zenon DEF OneCall, QueuedIn
    <2> HIDE DEF queue
    <2>5. CASE pc[q] = "try"
        <3>1. PICK i \in DOMAIN queue : QueuedIn(queue, q) = {i}
            BY <1>1, <2>3, <2>5
        <3>2. IF Head(queue) = CallOf(q)
              THEN QueuedIn(Tail(queue), q) = {}
              ELSE \E j \in DOMAIN Tail(queue) : QueuedIn(Tail(queue), q) = {j}
            BY <2>1, <3>1, QueuedTail, Zenon
        <3> QED
            BY <1>0, <2>2, <2>4, <2>5, <3>2, Zenon DEF Suspended
    <2>6. CASE pc[q] # "try"
        <3>1. QueuedIn(Tail(queue), q) = {}
            BY <1>1, <2>1, <2>3, <2>6, QueuedTail, Zenon
        <3> QED
            BY <1>0, <2>4, <2>6, <3>1 DEF Suspended
    <2> QED
        BY <2>5, <2>6
<1> QED
    BY <1>2, <1>3

\* A routine's step queues its own callback and gives the thread back, or does
\* neither.
LEMMA RoutineYields ==
    ASSUME TypeOK, Conds = {}, NEW r \in Routines, RoutineStep(r)
    PROVE  /\ current' = r \/ current' = nullptr
           /\ \/ /\ functions' = Append(functions, CallOf(r))
                 /\ current' = nullptr /\ pc'[r] = "try"
              \/ /\ \/ functions' = functions
                    \/ \E t \in Tasks : functions' = Append(functions, Start(t))
                 /\ current' = r \/ pc'[r] # "try"
<1> USE DEF poolVars, loopVars, epollVars, routineVars, timerVars, ioVars
<1>0. /\ pc \in [Routines -> {"pool", "user", "check", "try", "wait"}]
      /\ current = r
    BY RoutineHasThread DEF TypeOK
<1>1. CASE CheckTicks(r)
    <2>1. /\ pc' = [pc EXCEPT ![r] = "try"]
          /\ \/ functions' = functions /\ current' = current
             \/ functions' = Append(functions, CallOf(r)) /\ current' = nullptr
        BY <1>1, Zenon DEF CheckTicks, Yield, Return, Goto
    <2> QED
        BY <1>0, <2>1
<1>2. CASE FuncDone(r) \/ Wait(r)
    BY <1>0, <1>2 DEF FuncDone, Wait, Return, Goto
<1>3. CASE \E t \in Tasks : Do(r, t)
    BY <1>0, <1>3, Zenon DEF Do
<1>4. CASE \/ RoutineProcess(r) \/ SysCall(r) \/ Interrupted(r) \/ Resume(r)
           \/ \E o \in Ops : BeginOp(r, o)
    BY <1>0, <1>4, Zenon DEF RoutineProcess, SysCall, Interrupted, Resume,
                             BeginOp
<1>5. CASE \E p \in Parks : Notify(r, p)
    BY <1>5 DEF Notify
<1> QED
    BY <1>1, <1>2, <1>3, <1>4, <1>5, Zenon DEF RoutineStep, SocketStep

\* A routine that yields queues one call, and wakes nobody twice.
LEMMA RoutineKeepsOneCall ==
    ASSUME Strong, Conds = {}, NEW r \in Routines, RoutineStep(r),
           NEW q \in Routines
    PROVE  OneCall(q)'
<1> DEFINE queue == batch \o functions
<1>0. /\ TypeOK /\ current = r /\ q # nullptr /\ batch' = batch
      /\ batch \in Seq(Callbacks) /\ functions \in Seq(Callbacks)
      /\ queue \in Seq(Callbacks)
    BY RoutineHasThread, RoutineIsNotNull, RoutineLoopFrame, ConcatProperties, Zenon
       DEF Strong, Wakeup, TypeOK
<1>1. /\ Suspended(q, "try") =>
             \E i \in DOMAIN queue : QueuedIn(queue, q) = {i}
      /\ ~Suspended(q, "try") => QueuedIn(queue, q) = {}
    BY Zenon DEF Strong, OneCall
<1>2. q # r => (Suspended(q, "try")' <=> Suspended(q, "try"))
    BY <1>0, RoutineOthers, RoutineYields, Zenon DEF Suspended
<1>3. q = r => QueuedIn(queue, q) = {}
    BY <1>0, <1>1 DEF Suspended
<1>4. CASE /\ functions' = Append(functions, CallOf(r))
           /\ current' = nullptr /\ pc'[r] = "try"
    <2>1. CallOf(r) \in Callbacks
        BY DEF Callbacks
    <2>2. batch' \o functions' = Append(queue, CallOf(r))
        BY <1>0, <1>4, <2>1, QueueAppend
    <2> HIDE DEF queue
    <2>3. CASE q = r
        <3>1. /\ QueuedIn(Append(queue, CallOf(r)), r) = {Len(queue) + 1}
              /\ Len(queue) + 1 \in DOMAIN Append(queue, CallOf(r))
            <4>1. /\ QueuedIn(Append(queue, CallOf(r)), r)
                        = QueuedIn(queue, r) \cup {Len(queue) + 1}
                  /\ Len(queue) + 1 \in DOMAIN Append(queue, CallOf(r))
                BY <1>0, <2>1, QueuedAppend, Zenon
            <4> QED
                BY <1>3, <2>3, <4>1, Zenon
        <3>2. Suspended(q, "try")'
            BY <1>0, <1>4, <2>3 DEF Suspended
        <3> QED
            BY <2>2, <2>3, <3>1, <3>2, Zenon DEF OneCall, QueuedIn
    <2>4. CASE q # r
        <3>1. CallOf(r) # CallOf(q)
            BY <2>4, CallsDiffer
        <3>2. /\ QueuedIn(Append(queue, CallOf(r)), q) = QueuedIn(queue, q)
              /\ DOMAIN queue \subseteq DOMAIN Append(queue, CallOf(r))
            BY <1>0, <2>1, <3>1, QueuedAppend, Zenon
        <3> QED
            BY <1>1, <1>2, <2>2, <2>4, <3>2, Zenon DEF OneCall, QueuedIn
    <2> QED
        BY <2>3, <2>4
<1>5. CASE /\ \/ functions' = functions
              \/ \E t \in Tasks : functions' = Append(functions, Start(t))
           /\ current' = r \/ pc'[r] # "try"
    <2>1. Suspended(q, "try")' <=> Suspended(q, "try")
        BY <1>0, <1>2, <1>5, Zenon DEF Suspended
    <2>2. CASE functions' = functions
        BY <1>0, <1>1, <2>1, <2>2, Zenon DEF OneCall
    <2>3. ASSUME NEW t \in Tasks, functions' = Append(functions, Start(t))
          PROVE  OneCall(q)'
        <3>1. Start(t) \in Callbacks /\ Start(t) # CallOf(q)
            BY CallsDiffer DEF Callbacks
        <3>2. batch' \o functions' = Append(queue, Start(t))
            BY <1>0, <2>3, <3>1, QueueAppend
        <3> HIDE DEF queue
        <3>3. /\ QueuedIn(Append(queue, Start(t)), q) = QueuedIn(queue, q)
              /\ DOMAIN queue \subseteq DOMAIN Append(queue, Start(t))
            BY <1>0, <3>1, QueuedAppend, Zenon
        <3> QED
            BY <1>1, <2>1, <3>2, <3>3, Zenon DEF OneCall, QueuedIn
    <2> QED
        BY <1>5, <2>2, <2>3
<1> QED
    BY <1>0, <1>4, <1>5, RoutineYields, Zenon

\* The loop resumes a free routine only when a task is queued.
LEMMA MainKeepsPool ==
    ASSUME Strong, MainStep
    PROVE  PoolHasTask' /\ AssertionsHold'
<1>0. current = nullptr /\ pc' = pc
    BY MainHasThread, MainStepFrame
<1>1. ASSUME NEW q \in Routines, current' = q, pc'[q] = "pool"
      PROVE  tasks' # <<>>
    <2>1. CASE ~RunFunction
        BY <1>0, <1>1, <2>1, MainResumes
    <2>2. CASE RunFunction
        <3>0. /\ batch \in Seq(Callbacks) /\ functions \in Seq(Callbacks)
              /\ batch # <<>> /\ q # nullptr
            BY <2>2, RoutineIsNotNull, Zenon DEF RunFunction, Strong, Wakeup, TypeOK
        <3>1. Head(batch) = CallOf(q)
            BY <1>0, <1>1, <2>2, <3>0, Zenon DEF RunFunction
        <3>2. Head(batch \o functions) = CallOf(q)
              /\ batch \o functions \in Seq(Callbacks) /\ batch \o functions # <<>>
            BY <3>0, <3>1, QueueTail
        <3>3. QueuedIn(batch \o functions, q) # {}
            <4> DEFINE queue == batch \o functions
            <4> HIDE DEF queue
            <4>1. queue \in Seq(Callbacks) /\ queue # <<>> /\ Head(queue) = CallOf(q)
                BY <3>2 DEF queue
            <4>2. 1 \in DOMAIN queue /\ queue[1] = CallOf(q)
                BY <4>1
            <4> QED
                BY <4>2, Zenon DEF QueuedIn, queue
        <3>4. pc[q] = "try"
            BY <3>3 DEF Strong, OneCall, Suspended
        <3> QED
            BY <1>0, <1>1, <3>4
    <2> QED
        BY <2>1, <2>2
<1>2. phase' # "aborted"
    <2>1. \/ phase' = phase \/ phase' = "functions" \/ phase' = "events"
          \/ phase' = "timers"
        BY Zenon DEF MainStep, PoolLoop, TakeFunctions, RunFunction, EpollWait,
                     TurnWheel, DoInMain, ScheduleRead, ScheduleWrite, OnTimer,
                     loopVars
    <2> QED
        BY <2>1 DEF Strong, AssertionsHold
<1> QED
    BY <1>1, <1>2 DEF PoolHasTask, AssertionsHold

\* A routine takes a task for itself only, and trips no assertion.
LEMMA RoutineKeepsPool ==
    ASSUME Strong, Conds = {}, NEW r \in Routines, RoutineStep(r)
    PROVE  PoolHasTask' /\ AssertionsHold'
<1> USE DEF poolVars, loopVars, epollVars, routineVars, timerVars, ioVars
<1>0. /\ pc \in [Routines -> {"pool", "user", "check", "try", "wait"}]
      /\ current = r /\ (current' = r \/ current' = nullptr)
    BY RoutineHasThread, RoutineYields, Zenon DEF Strong, Wakeup, TypeOK
<1> SUFFICES /\ current' = r => pc'[r] # "pool"
             /\ phase' = phase
    BY <1>0, RoutineIsNotNull DEF PoolHasTask, AssertionsHold, Strong
<1>1. CASE RoutineProcess(r)
    <2>1. pc[r] = "pool"
        BY <1>1 DEF RoutineProcess, At
    <2>2. r \in free_list /\ r \notin active_list /\ tasks # <<>>
        BY <1>0, <2>1 DEF Strong, Wakeup, PoolConsistent, PoolHasTask
    <2> QED
        BY <1>0, <1>1, <2>2 DEF RoutineProcess, Goto
<1>2. CASE FuncDone(r)
    BY <1>2, RoutineIsNotNull DEF FuncDone, Return
<1>3. CASE CheckTicks(r)
    BY <1>0, <1>3 DEF CheckTicks, Goto
<1>4. CASE SysCall(r)
    <2>1. pc' = [pc EXCEPT ![r] = "user"] \/ pc' = [pc EXCEPT ![r] = "check"]
        BY <1>4, Zenon DEF SysCall, EndOp, Goto
    <2> QED
        BY <1>0, <1>4, <2>1, Zenon DEF SysCall
<1>5. CASE Interrupted(r)
    BY <1>0, <1>5 DEF Interrupted, Goto
<1>6. CASE Wait(r)
    BY <1>0, <1>6 DEF Wait, Goto
<1>7. CASE Resume(r)
    <2>1. pc' = [pc EXCEPT ![r] = "user"] \/ pc' = [pc EXCEPT ![r] = "check"]
        BY <1>7, Zenon DEF Resume, EndOp, Goto
    <2> QED
        BY <1>0, <1>7, <2>1, Zenon DEF Resume
<1>8. ASSUME NEW t \in Tasks, Do(r, t)
      PROVE  pc'[r] # "pool" /\ phase' = phase
    BY <1>8 DEF Do, At
<1>9. ASSUME NEW o \in Ops, BeginOp(r, o)
      PROVE  pc'[r] # "pool" /\ phase' = phase
    BY <1>0, <1>9, Zenon DEF BeginOp, Goto
<1>10. ASSUME NEW p \in Parks, Notify(r, p)
       PROVE  pc'[r] # "pool" /\ phase' = phase
    BY <1>10 DEF Notify
<1> QED
    BY <1>1, <1>2, <1>3, <1>4, <1>5, <1>6, <1>7, <1>8, <1>9, <1>10
       DEF RoutineStep, SocketStep

\* Every step keeps the invariant when there are no conditions.
LEMMA NextStrong == Conds = {} /\ Strong /\ [Next]_vars => Strong'
<1> SUFFICES ASSUME Conds = {}, Strong, [Next]_vars PROVE Strong'
    OBVIOUS
<1>0. Wakeup' /\ TimerBelongsToWait'
    BY NextWakeup, NextTimers DEF Strong, Wakeup
<1>1. CASE MainStep
    BY <1>0, <1>1, MainKeepsOneCall, MainKeepsPool DEF Strong
<1>2. ASSUME NEW r \in Routines, RoutineStep(r) PROVE Strong'
    BY <1>0, <1>2, RoutineKeepsOneCall, RoutineKeepsPool DEF Strong
<1>3. CASE Socket \/ UNCHANGED vars
    <2>1. UNCHANGED <<tasks, functions, batch, phase, current, pc>>
        BY <1>3, Zenon DEF Socket, SocketReady, vars, poolVars, loopVars,
                           routineVars
    <2>2. \A r \in Routines : OneCall(r)'
        BY <2>1 DEF Strong, OneCall, Suspended
    <2>3. PoolHasTask' /\ AssertionsHold'
        BY <2>1 DEF Strong, PoolHasTask, AssertionsHold
    <2> QED
        BY <1>0, <2>2, <2>3 DEF Strong
<1> QED
    BY <1>1, <1>2, <1>3 DEF Next, Thread

\* At the start nothing is queued and nobody waits.
LEMMA InitStrong == Init => Strong
<1> SUFFICES ASSUME Init PROVE Strong
    OBVIOUS
<1>1. TimerBelongsToWait /\ PoolHasTask /\ AssertionsHold
    BY RoutineIsNotNull
       DEF Init, TimerBelongsToWait, Suspended, PoolHasTask, AssertionsHold
<1>2. batch \o functions = <<>>
    BY DEF Init
<1>3. \A r \in Routines : OneCall(r)
    <2>1. \A r \in Routines : QueuedIn(batch \o functions, r) = {}
        BY <1>2 DEF QueuedIn
    <2>2. \A r \in Routines : pc[r] # "try"
        BY DEF Init
    <2> QED
        BY <2>1, <2>2 DEF OneCall, Suspended
<1> QED
    BY <1>1, <1>3, InitWakeup DEF Strong

\* Without conditions the invariant always holds.
LEMMA StrongHolds == ASSUME Conds = {} PROVE Spec => []Strong
<1>1. Strong /\ [Next]_vars => Strong'
    BY NextStrong
<1> QED
    BY <1>1, InitStrong, PTL DEF Spec

\* In a program whose tasks wait only for descriptors, a suspended routine has
\* exactly one thing that will resume it, and a running one none.
THEOREM OneWakeupHolds == ASSUME Conds = {} PROVE Spec => []OneWakeup
<1>1. Strong => OneWakeup
    BY OneWakeupDef DEF Strong, Wakeup
<1> QED
    BY <1>1, StrongHolds, PTL

\* In such a program the assertions at the head of RoutineProcess never fail,
\* with any number of routines, tasks and sockets.
THEOREM AssertionsNeverFail == ASSUME Conds = {} PROVE Spec => []AssertionsHold
<1>1. Strong => AssertionsHold
    BY DEF Strong
<1> QED
    BY <1>1, StrongHolds, PTL
=============================================================================
