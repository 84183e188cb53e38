----------------------------- MODULE TimeWheel -----------------------------
(***************************************************************************)
(* The hierarchical time wheel of kernel/time and the timers linked in it. *)
(* A slot of the wheel is the sequence of the timers linked behind its     *)
(* head; WheelNum is 4 and WheelSize 256 in the code.                      *)
(*                                                                         *)
(* Timers are started and stopped by routines between two turns and by the *)
(* callbacks TurnWheel runs.  The clock is read by Timer::Start and at the *)
(* head of TurnWheel, so it needs to advance only where those happen.      *)
(***************************************************************************)
EXTENDS Integers, Sequences, Functions

CONSTANTS WheelNum,   \* kWheelNum
          WheelSize,  \* kWheelSize, the base of the wheel
          Timers,     \* the timers
          Delays,     \* what Start is called with
          Periods,    \* what callbacks return
          StartTimes, \* when the loop may be created
          MaxNow,     \* bound: the clock stops here
          MaxLag      \* bound: how far the clock runs ahead of the wheel

ASSUME WheelAssumption ==
    /\ WheelNum \in Nat \ {0, 1}
    /\ WheelSize \in Nat \ {0, 1}
    /\ Delays \subseteq Nat /\ Periods \subseteq Nat /\ StartTimes \subseteq Nat
    /\ MaxNow \in Nat /\ MaxLag \in Nat

VARIABLES now,         \* Timestamp::Now().ms()
          last_ms,     \* last_ms_
          time_wheel,  \* time_wheel_
          expiration,  \* expiration_ of every timer
          pc,          \* where TurnWheel is
          target,      \* its local `now'
          wheel_index, \* its local `j'
          firing       \* the timer whose callback runs

vars == <<now, last_ms, time_wheel, expiration, pc, target, wheel_index, firing>>

Wheels == 0..(WheelNum - 1)
Slots == Wheels \X (0..(WheelSize - 1))
nullptr == <<-1, -1>>
Linked(t) == \E s \in Slots : t \in Range(time_wheel[s])

-----------------------------------------------------------------------------
(* The wheel's helpers.                                                    *)

\* WheelSize to the power of i, the shifts of the code.
Power(i) ==
    LET power[n \in 0..i] == IF n = 0 THEN 1 ELSE WheelSize * power[n - 1]
    IN  power[i]
MaxTime(i) == Power(i + 1)
CalcTime(ms, i) == (ms \div Power(i)) % WheelSize

\* FindHead: the slot for an expiration, nullptr if it is past or too far.
First(fits) == CHOOSE i \in fits : \A j \in fits : i <= j
FindHead_TooFine(ms, last) ==
    LET diff == ms - last
        fits == {i \in Wheels : diff <= MaxTime(i)}
    IN  IF diff < 0 \/ fits = {} THEN nullptr
        ELSE <<First(fits), CalcTime(ms, First(fits))>>
FindHead(ms, last) ==
    LET diff == ms - last
        fits == {i \in Wheels : diff < MaxTime(i)}
    IN  IF diff < 0 \/ fits = {} THEN nullptr
        ELSE <<First(fits), CalcTime(ms, First(fits))>>

\* The list without its i-th timer, whose neighbours are linked.
Unlink(list, i) == SubSeq(list, 1, i - 1) \o SubSeq(list, i + 1, Len(list))

DelTimer(t) ==
    [s \in Slots |->
        IF t \in Range(time_wheel[s])
        THEN Unlink(time_wheel[s], CHOOSE i \in DOMAIN time_wheel[s] :
                                      time_wheel[s][i] = t)
        ELSE time_wheel[s]]

\* AddTimer of a timer that expires at ms: at the front of its slot.
AddTimer_StillLinked(t, ms) ==
    LET head == FindHead(ms, last_ms)
    IN  IF head = nullptr THEN time_wheel
        ELSE [time_wheel EXCEPT ![head] = <<t>> \o @]
AddTimer(t, ms) ==
    LET head == FindHead(ms, last_ms)
    IN  IF head = nullptr THEN DelTimer(t)
        ELSE [DelTimer(t) EXCEPT ![head] = <<t>> \o @]

-----------------------------------------------------------------------------
Init ==
    /\ now \in StartTimes /\ last_ms = now
    /\ time_wheel = [s \in Slots |-> <<>>]
    /\ expiration = [t \in Timers |-> 0]
    /\ pc = "idle" /\ target = 0 /\ wheel_index = 0
    /\ firing \in Timers

\* Code outside the wheel runs: routines between turns, or a callback.
Outside == pc \in {"idle", "callback"}

Clock ==
    /\ Outside /\ now < MaxNow /\ now < last_ms + MaxLag
    /\ now' = now + 1
    /\ UNCHANGED <<last_ms, time_wheel, expiration, pc, target, wheel_index,
                   firing>>

Start(t, ms) ==
    /\ Outside
    /\ expiration' = [expiration EXCEPT ![t] = now + ms]
    /\ time_wheel' = AddTimer(t, now + ms)
    /\ UNCHANGED <<now, last_ms, pc, target, wheel_index, firing>>

Stop(t) ==
    /\ Outside
    /\ time_wheel' = DelTimer(t)
    /\ UNCHANGED <<now, last_ms, expiration, pc, target, wheel_index, firing>>

\* TurnWheel reads the clock.
TurnWheel ==
    /\ pc = "idle"
    /\ target' = now
    /\ pc' = "tick"
    /\ UNCHANGED <<now, last_ms, time_wheel, expiration, wheel_index, firing>>

\* The head of its loop: one millisecond, and on a new round of wheel 0 the
\* timers of a coarser slot come down.
Tick ==
    /\ pc = "tick"
    /\ IF last_ms < target
       THEN /\ last_ms' = last_ms + 1
            /\ pc' = IF CalcTime(last_ms', 0) = 0 THEN "cascade" ELSE "slot"
            /\ wheel_index' = 1
       ELSE pc' = "idle" /\ UNCHANGED <<last_ms, wheel_index>>
    /\ UNCHANGED <<now, time_wheel, expiration, target, firing>>

\* MoveTimerList: the list goes, whole, behind the slot of its first timer.
MoveTimerList_Dropped(s, head) == time_wheel' = [time_wheel EXCEPT ![s] = <<>>]
MoveTimerList(s, head) ==
    time_wheel' = [[time_wheel EXCEPT ![s] = <<>>]
                      EXCEPT ![head] = @ \o time_wheel[s]]

\* The slot of a coarser wheel that comes down: its index is that of wheel 1
\* for each of them.
MovedIndex_Previous == CalcTime(last_ms - 1, 1)
MovedIndex_Following == CalcTime(last_ms + WheelSize, 1)
MovedIndex == CalcTime(last_ms, 1)

\* One iteration of the loop over the coarser wheels.
Cascade ==
    /\ pc = "cascade"
    /\ LET moved_index == MovedIndex
           s == <<wheel_index, moved_index>>
           head == FindHead(expiration[Head(time_wheel[s])], last_ms)
       IN  IF time_wheel[s] # <<>> /\ head = nullptr
           THEN pc' = "aborted" /\ UNCHANGED <<time_wheel, wheel_index>>
           ELSE /\ IF time_wheel[s] = <<>> THEN UNCHANGED time_wheel
                                           ELSE MoveTimerList(s, head)
                /\ IF moved_index # 0 \/ wheel_index = WheelNum - 1
                   THEN pc' = "slot" /\ UNCHANGED wheel_index
                   ELSE wheel_index' = wheel_index + 1 /\ UNCHANGED pc
    /\ UNCHANGED <<now, last_ms, expiration, target, firing>>

\* The loop over the timers of the current slot of wheel 0.
Run ==
    /\ pc = "slot"
    /\ LET s == <<0, CalcTime(last_ms, 0)>>
       IN  IF time_wheel[s] = <<>>
           THEN pc' = "tick" /\ UNCHANGED <<time_wheel, firing>>
           ELSE /\ firing' = Head(time_wheel[s])
                /\ time_wheel' = [time_wheel EXCEPT ![s] = Tail(@)]
                /\ pc' = "callback"
    /\ UNCHANGED <<now, last_ms, expiration, target, wheel_index>>

\* The callback returns next_ms; a positive one links the timer again.
Return(next_ms) ==
    /\ pc = "callback"
    /\ pc' = "slot"
    /\ IF next_ms > 0
       THEN /\ expiration' = [expiration EXCEPT ![firing] = @ + next_ms]
            /\ time_wheel' = AddTimer(firing, expiration'[firing])
       ELSE UNCHANGED <<expiration, time_wheel>>
    /\ UNCHANGED <<now, last_ms, target, wheel_index, firing>>

Next ==
    \/ Clock \/ TurnWheel \/ Tick \/ Cascade \/ Run
    \/ \E t \in Timers : Stop(t) \/ \E ms \in Delays : Start(t, ms)
    \/ \E ms \in Periods : Return(ms)

Spec == Init /\ [][Next]_vars

-----------------------------------------------------------------------------
(* Properties.                                                             *)

\* Every variable has its type, and a timer is linked at most once, in one slot.
TypeOK ==
    /\ now \in Nat /\ last_ms \in Nat /\ target \in Nat /\ last_ms <= now
    /\ time_wheel \in [Slots -> Seq(Timers)]
    /\ \A r, s \in Slots : \A i \in DOMAIN time_wheel[r], j \in DOMAIN time_wheel[s] :
          time_wheel[r][i] = time_wheel[s][j] => r = s /\ i = j
    /\ expiration \in [Timers -> Nat]
    /\ pc \in {"idle", "tick", "cascade", "slot", "callback", "aborted"}
    /\ wheel_index \in Wheels
    /\ firing \in Timers

\* The assertion of MoveTimerList holds: the first timer of a list that comes
\* down has not expired, although timers before it may have been stopped.
MoveAssertion == pc # "aborted"

\* A timer runs within one round of wheel 0 of its expiration, before or after:
\* a list that comes down goes to the slot of its first timer, and a timer
\* started for the current millisecond waits for the next round.
RunsNear ==
    [][\A t \in Timers : Run /\ pc' = "callback" /\ firing' = t =>
          /\ expiration[t] - WheelSize < last_ms
          /\ last_ms <= expiration[t] + WheelSize]_vars

\* A linked timer is never left behind: the wheel reaches it at most one round
\* of wheel 0 after its expiration.
NotOverdue ==
    \A t \in Timers : Linked(t) => last_ms <= expiration[t] + WheelSize

\* A timer that is started is linked, and it stays linked until it is stopped
\* or runs: no list that comes down loses one.
StaysLinked ==
    [][\A t \in Timers :
          /\ (\E ms \in Delays : Start(t, ms)) => Linked(t)'
          /\ Linked(t) /\ ~Linked(t)' =>
                Stop(t) \/ (Run /\ pc' = "callback" /\ firing' = t)]_vars
=============================================================================
