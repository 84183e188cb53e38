---------------------------- MODULE TaskService ----------------------------
(***************************************************************************)
(* What EventLoop::Do and the routine pool promise together: a queue of    *)
(* tasks served in order by at most Capacity servers.  Every task that is  *)
(* begun was submitted, is begun once per submission, and ends before it   *)
(* is submitted again.  Once the service is open, tasks are begun in the   *)
(* order of their submission; before, a submission may overtake others.    *)
(***************************************************************************)
EXTENDS Naturals, Sequences, FiniteSets

CONSTANTS Tasks, Capacity

VARIABLES queue,    \* submitted and not begun, in the order they will begin
          running,  \* begun and not ended
          open      \* whether the service is open

Queued == {queue[i] : i \in DOMAIN queue}

Init == queue = <<>> /\ running = {} /\ open = FALSE

Submit(t) ==
    /\ t \notin Queued \cup running
    /\ \E i \in 0..Len(queue) :
          /\ open => i = Len(queue)
          /\ queue' = SubSeq(queue, 1, i) \o <<t>>
                         \o SubSeq(queue, i + 1, Len(queue))
    /\ UNCHANGED <<running, open>>

Begin ==
    /\ queue # <<>> /\ Cardinality(running) < Capacity
    /\ running' = running \cup {Head(queue)}
    /\ queue' = Tail(queue)
    /\ UNCHANGED open

End(t) ==
    /\ t \in running
    /\ running' = running \ {t}
    /\ UNCHANGED <<queue, open>>

Open == ~open /\ open' = TRUE /\ UNCHANGED <<queue, running>>

Next == Begin \/ Open \/ \E t \in Tasks : Submit(t) \/ End(t)

Spec == Init /\ [][Next]_<<queue, running, open>>
=============================================================================
