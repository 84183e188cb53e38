---------------------------- MODULE ServiceProofs ----------------------------
(***************************************************************************)
(* Do and the pool implement TaskService: each step of the loop and of its *)
(* routines is a step of the abstract service, or changes nothing it sees. *)
(***************************************************************************)
EXTENDS RuntimeProofs, FiniteSetTheorems

-----------------------------------------------------------------------------
(* The task service.  Three facts about the lists of callbacks, each by    *)
(* induction on the list: what StartSeq makes of an appended callback, of  *)
(* a first one, and which tasks it yields.                                 *)

\* A callback is a Start of a task or a Call, and not both.
LEMMA CallbackKinds ==
    ASSUME NEW c \in Callbacks
    PROVE  \/ c.fn = "Start" /\ c.task \in Tasks /\ c = Start(c.task)
           \/ c.fn = "Call" /\ \E r \in Routines : c = CallOf(r)
BY DEF Callbacks, Start, CallOf

\* A callback stands for one task, or for none.
LEMMA StartOfType == ASSUME NEW c \in Callbacks PROVE StartOf(c) \in Seq(Tasks)
BY CallbackKinds DEF StartOf

\* Induction on a list of callbacks from its end, for a set of good lists.
LEMMA ListInduction ==
    ASSUME NEW G, <<>> \in G,
           \A s \in Seq(Callbacks), c \in Callbacks : s \in G => Append(s, c) \in G
    PROVE  \A s \in Seq(Callbacks) : s \in G
<1> DEFINE Bad == {n \in Nat : \E s \in Seq(Callbacks) : Len(s) = n /\ s \notin G}
           R == OpToRel(<, Nat)
<1>1. IsWellFoundedOn(R, Nat)
    BY NatLessThanWellFounded, Zenon
<1>2. \A x, y \in Nat : <<x, y>> \in R <=> x < y
    BY DEF OpToRel
<1> HIDE DEF R
<1>0. ASSUME NEW s \in Seq(Callbacks), s \notin G PROVE Len(s) \in Bad
    <2>1. Len(s) \in Nat
        OBVIOUS
    <2> QED
        BY <1>0, <2>1
<1>3. Bad \in SUBSET Nat
    OBVIOUS
<1>5. \A n \in Bad : \E s \in Seq(Callbacks) : Len(s) = n /\ s \notin G
    OBVIOUS
<1> HIDE DEF Bad
<1> SUFFICES ASSUME Bad # {} PROVE FALSE
    BY <1>0
<1>4. PICK n \in Bad : \A m \in Bad : <<m, n>> \notin R
    BY <1>1, <1>3, WFMin, Zenon
<1>6. PICK s \in Seq(Callbacks) : Len(s) = n /\ s \notin G
    BY <1>5
<1>7. n \in Nat /\ n # 0
    BY <1>3, <1>6, EmptySeq
<1> DEFINE f == SubSeq(s, 1, n - 1)
<1>8. f \in Seq(Callbacks) /\ Len(f) = n - 1 /\ s[n] \in Callbacks
      /\ s = Append(f, s[n])
    BY <1>6, <1>7
<1> HIDE DEF f
<1>9. f \notin G
    BY <1>6, <1>8, Zenon
<1>10. n - 1 \in Bad /\ n - 1 \in Nat
    BY <1>0, <1>7, <1>8, <1>9
<1>11. n - 1 < n
    BY <1>7
<1>12. <<n - 1, n>> \in R
    BY <1>2, <1>7, <1>10, <1>11
<1> QED
    BY <1>4, <1>10, <1>12

\* The tasks of each prefix of s: what StartSeq computes on its way.
Prefixes(f, s) ==
    f = [n \in 0..Len(s) |-> IF n = 0 THEN <<>> ELSE f[n - 1] \o StartOf(s[n])]

\* The prefixes of a longer queue contain those of the shorter one.
LEMMA PrefixesShorter ==
    ASSUME NEW s \in Seq(Callbacks), NEW c \in Callbacks, NEW f,
           Prefixes(f, Append(s, c))
    PROVE  /\ Prefixes([n \in 0..Len(s) |-> f[n]], s)
           /\ f[Len(s) + 1] = f[Len(s)] \o StartOf(c)
<1>1. /\ Len(Append(s, c)) = Len(s) + 1 /\ Append(s, c)[Len(s) + 1] = c
      /\ \A n \in 1..Len(s) : Append(s, c)[n] = s[n]
    OBVIOUS
<1>2. PICK k \in Nat : k = Len(s)
    OBVIOUS
<1>3. \A n \in 0..(k + 1) :
         f[n] = IF n = 0 THEN <<>> ELSE f[n - 1] \o StartOf(Append(s, c)[n])
    BY <1>1, <1>2, Zenon DEF Prefixes
<1>4. f[k + 1] = f[k] \o StartOf(c)
    <2>1. k + 1 \in 0..(k + 1) /\ k + 1 # 0 /\ (k + 1) - 1 = k
        OBVIOUS
    <2> QED
        BY <1>1, <1>2, <1>3, <2>1, Zenon
<1> DEFINE g == [n \in 0..k |-> f[n]]
<1>5. ASSUME NEW n \in 0..k
      PROVE  g[n] = IF n = 0 THEN <<>> ELSE g[n - 1] \o StartOf(s[n])
    <2>1. n \in 0..(k + 1) /\ g[n] = f[n]
        OBVIOUS
    <2>2. n # 0 => n - 1 \in 0..k /\ g[n - 1] = f[n - 1] /\ n \in 1..k
        OBVIOUS
    <2> HIDE DEF g
    <2> QED
        BY <1>1, <1>2, <1>3, <2>1, <2>2
<1>6. g = [n \in 0..k |-> g[n]]
    OBVIOUS
<1>7. Prefixes(g, s)
    <2> HIDE DEF g
    <2> QED
        BY <1>2, <1>5, <1>6 DEF Prefixes
<1> QED
    BY <1>2, <1>4, <1>7

\* The prefixes of a queue extend to those of the queue with one more.
LEMMA PrefixesLonger ==
    ASSUME NEW s \in Seq(Callbacks), NEW c \in Callbacks, NEW f, Prefixes(f, s)
    PROVE  \E g : Prefixes(g, Append(s, c))
<1>1. /\ Len(Append(s, c)) = Len(s) + 1 /\ Append(s, c)[Len(s) + 1] = c
      /\ \A n \in 1..Len(s) : Append(s, c)[n] = s[n]
    OBVIOUS
<1>2. PICK k \in Nat : k = Len(s)
    OBVIOUS
<1>3. \A n \in 0..k : f[n] = IF n = 0 THEN <<>> ELSE f[n - 1] \o StartOf(s[n])
    BY <1>2, Zenon DEF Prefixes
<1> DEFINE g == [n \in 0..(k + 1) |-> IF n = k + 1 THEN f[k] \o StartOf(c) ELSE f[n]]
<1>4. ASSUME NEW n \in 0..(k + 1)
      PROVE  g[n] = IF n = 0 THEN <<>> ELSE g[n - 1] \o StartOf(Append(s, c)[n])
    <2>1. CASE n = k + 1
        <3>1. n # 0 /\ n - 1 = k /\ k \in 0..(k + 1) /\ k # k + 1
            BY <2>1
        <3>2. g[n] = f[k] \o StartOf(c) /\ g[k] = f[k]
            BY <2>1, <3>1
        <3> HIDE DEF g
        <3> QED
            BY <1>1, <1>2, <2>1, <3>1, <3>2, Zenon
    <2>2. CASE n # k + 1
        <3>1. n \in 0..k /\ g[n] = f[n]
            BY <2>2
        <3>2. n # 0 => n \in 1..k /\ n - 1 \in 0..(k + 1) /\ n - 1 # k + 1
            BY <2>2
        <3>3. n # 0 => g[n - 1] = f[n - 1]
            BY <3>2
        <3> HIDE DEF g
        <3> QED
            BY <1>1, <1>2, <1>3, <3>1, <3>2, <3>3
    <2> QED
        BY <2>1, <2>2, Zenon
<1>5. g = [n \in 0..(k + 1) |-> g[n]]
    OBVIOUS
<1> HIDE DEF g
<1>6. Prefixes(g, Append(s, c))
    BY <1>1, <1>2, <1>4, <1>5 DEF Prefixes
<1> QED
    BY <1>6

\* A queue of callbacks stands for one sequence of tasks only.
LEMMA PrefixesUnique ==
    ASSUME NEW s \in Seq(Callbacks), NEW f, NEW g, Prefixes(f, s), Prefixes(g, s)
    PROVE  f[Len(s)] = g[Len(s)]
<1> DEFINE G == {u \in Seq(Callbacks) : \A x, y :
                    Prefixes(x, u) /\ Prefixes(y, u) => x[Len(u)] = y[Len(u)]}
<1>1. <<>> \in G
    <2>1. Len(<<>>) = 0 /\ <<>> \in Seq(Callbacks)
        OBVIOUS
    <2>2. \A x : Prefixes(x, <<>>) => x[0] = <<>>
        BY <2>1 DEF Prefixes
    <2> QED
        BY <2>1, <2>2
<1>2. ASSUME NEW u \in Seq(Callbacks), NEW c \in Callbacks, u \in G
      PROVE  Append(u, c) \in G
    <2>1. ASSUME NEW x, NEW y, Prefixes(x, Append(u, c)), Prefixes(y, Append(u, c))
          PROVE  x[Len(u) + 1] = y[Len(u) + 1]
        <3> DEFINE v == [n \in 0..Len(u) |-> x[n]]
                   w == [n \in 0..Len(u) |-> y[n]]
        <3>1. Prefixes(v, u) /\ Prefixes(w, u)
            BY <2>1, PrefixesShorter
        <3>2. v[Len(u)] = x[Len(u)] /\ w[Len(u)] = y[Len(u)]
            OBVIOUS
        <3>3. v[Len(u)] = w[Len(u)]
            <4> HIDE DEF v, w
            <4> QED
                BY <1>2, <3>1
        <3>4. /\ x[Len(u) + 1] = x[Len(u)] \o StartOf(c)
              /\ y[Len(u) + 1] = y[Len(u)] \o StartOf(c)
            BY <2>1, PrefixesShorter, Zenon
        <3> HIDE DEF v, w
        <3> QED
            BY <3>2, <3>3, <3>4, Zenon
    <2>2. Len(Append(u, c)) = Len(u) + 1 /\ Append(u, c) \in Seq(Callbacks)
        OBVIOUS
    <2> QED
        BY <2>1, <2>2
<1>3. \A u \in Seq(Callbacks) : u \in G
    <2> HIDE DEF G
    <2> QED
        BY <1>1, <1>2, ListInduction
<1> QED
    BY <1>3

\* Every queue of callbacks stands for some sequence of tasks.
LEMMA PrefixesExist ==
    ASSUME NEW s \in Seq(Callbacks)
    PROVE  \E f : Prefixes(f, s) /\ StartSeq(s) = f[Len(s)]
<1> DEFINE G == {u \in Seq(Callbacks) : \E f : Prefixes(f, u)}
<1>1. <<>> \in G
    <2>1. Prefixes([n \in 0..0 |-> <<>>], <<>>)
        BY DEF Prefixes
    <2> QED
        BY <2>1
<1>2. ASSUME NEW u \in Seq(Callbacks), NEW c \in Callbacks, u \in G
      PROVE  Append(u, c) \in G
    BY <1>2, PrefixesLonger
<1>3. \A u \in Seq(Callbacks) : u \in G
    <2> HIDE DEF G
    <2> QED
        BY <1>1, <1>2, ListInduction
<1>4. PICK f : Prefixes(f, s)
    BY <1>3
<1>5. Prefixes(CHOOSE h : Prefixes(h, s), s)
    <2> HIDE DEF Prefixes
    <2> QED
        BY <1>4
<1>6. StartSeq(s) = (CHOOSE h : Prefixes(h, s))[Len(s)]
    BY DEF StartSeq, Prefixes
<1> QED
    BY <1>5, <1>6, Zenon

\* What StartSeq computes, one callback at a time.
LEMMA StartSeqEmpty == StartSeq(<<>>) = <<>>
<1>1. <<>> \in Seq(Callbacks) /\ Len(<<>>) = 0
    OBVIOUS
<1>2. PICK f : Prefixes(f, <<>>) /\ StartSeq(<<>>) = f[0]
    BY <1>1, PrefixesExist, Zenon
<1> QED
    BY <1>1, <1>2 DEF Prefixes

\* A callback that Do queues adds its task, if any, behind the others.
LEMMA StartSeqAppend ==
    ASSUME NEW s \in Seq(Callbacks), NEW c \in Callbacks
    PROVE  StartSeq(Append(s, c)) = StartSeq(s) \o StartOf(c)
<1>1. Append(s, c) \in Seq(Callbacks) /\ Len(Append(s, c)) = Len(s) + 1
    OBVIOUS
<1>2. PICK f : Prefixes(f, Append(s, c)) /\ StartSeq(Append(s, c)) = f[Len(s) + 1]
    BY <1>1, PrefixesExist, Zenon
<1>3. PICK g : Prefixes(g, s) /\ StartSeq(s) = g[Len(s)]
    BY PrefixesExist
<1> DEFINE h == [n \in 0..Len(s) |-> f[n]]
<1>4. Prefixes(h, s) /\ f[Len(s) + 1] = f[Len(s)] \o StartOf(c)
    BY <1>2, PrefixesShorter
<1>5. h[Len(s)] = f[Len(s)]
    OBVIOUS
<1> HIDE DEF h
<1>6. h[Len(s)] = g[Len(s)]
    BY <1>3, <1>4, PrefixesUnique
<1> QED
    BY <1>2, <1>3, <1>4, <1>5, <1>6, Zenon

\* What a queue of callbacks stands for is a sequence of tasks.
LEMMA StartSeqType == \A s \in Seq(Callbacks) : StartSeq(s) \in Seq(Tasks)
<1> DEFINE G == {s \in Seq(Callbacks) : StartSeq(s) \in Seq(Tasks)}
<1>1. <<>> \in G
    <2>1. <<>> \in Seq(Callbacks) /\ <<>> \in Seq(Tasks)
        OBVIOUS
    <2> QED
        BY <2>1, StartSeqEmpty, Zenon
<1>2. ASSUME NEW s \in Seq(Callbacks), NEW c \in Callbacks, s \in G
      PROVE  Append(s, c) \in G
    <2>1. StartSeq(s) \o StartOf(c) \in Seq(Tasks)
        BY <1>2, StartOfType, ConcatProperties
    <2>2. Append(s, c) \in Seq(Callbacks)
        OBVIOUS
    <2> QED
        BY <2>1, <2>2, StartSeqAppend, Zenon
<1> HIDE DEF G
<1>3. \A s \in Seq(Callbacks) : s \in G
    BY <1>1, <1>2, ListInduction
<1> QED
    BY <1>3 DEF G

\* The same from the other end: RunFunction takes callbacks from the front.
LEMMA StartSeqHead ==
    ASSUME NEW s \in Seq(Callbacks), s # <<>>
    PROVE  StartSeq(s) = StartOf(Head(s)) \o StartSeq(Tail(s))
<1> DEFINE G == {u \in Seq(Callbacks) : u # <<>> =>
                    StartSeq(u) = StartOf(Head(u)) \o StartSeq(Tail(u))}
<1>1. <<>> \in G
    OBVIOUS
<1>2. ASSUME NEW u \in Seq(Callbacks), NEW c \in Callbacks, u \in G
      PROVE  Append(u, c) \in G
    <2>0. Append(u, c) \in Seq(Callbacks)
        OBVIOUS
    <2>1. CASE u = <<>>
        <3>1. Append(u, c) = <<c>> /\ Head(<<c>>) = c /\ Tail(<<c>>) = <<>>
            BY <2>1
        <3>2. StartSeq(<<c>>) = <<>> \o StartOf(c)
            BY <2>1, <3>1, StartSeqAppend, StartSeqEmpty, Zenon
        <3>3. <<>> \o StartOf(c) = StartOf(c) \o <<>>
            BY StartOfType
        <3>4. StartSeq(<<c>>) = StartOf(Head(<<c>>)) \o StartSeq(Tail(<<c>>))
            BY <3>1, <3>2, <3>3, StartSeqEmpty, Zenon
        <3> QED
            BY <2>0, <3>1, <3>4, Zenon
    <2>2. CASE u # <<>>
        <3>1. /\ Head(Append(u, c)) = Head(u) /\ Tail(Append(u, c)) = Append(Tail(u), c)
              /\ Head(u) \in Callbacks /\ Tail(u) \in Seq(Callbacks)
            BY <2>2
        <3>2. PICK h, t \in Seq(Tasks) : h = StartOf(Head(u)) /\ t = StartSeq(Tail(u))
            BY <3>1, StartOfType, StartSeqType, Zenon
        <3>3. PICK a \in Seq(Tasks) : a = StartOf(c)
            BY StartOfType
        <3>4. StartSeq(Append(u, c)) = (h \o t) \o a
            BY <1>2, <2>2, <3>2, <3>3, StartSeqAppend, Zenon
        <3>5. StartSeq(Append(Tail(u), c)) = t \o a
            BY <3>1, <3>2, <3>3, StartSeqAppend, Zenon
        <3>6. (h \o t) \o a = h \o (t \o a)
            BY ConcatAssociative
        <3> QED
            BY <2>0, <3>1, <3>2, <3>4, <3>5, <3>6, Zenon
    <2> QED
        BY <2>1, <2>2
<1> HIDE DEF G
<1>3. s \in G
    BY <1>1, <1>2, ListInduction
<1> QED
    BY <1>3 DEF G

\* The tasks of the Start callbacks in a list are among those StartsIn counts.
LEMMA StartSeqRange ==
    ASSUME NEW s \in Seq(Callbacks), NEW i \in 1..Len(StartSeq(s))
    PROVE  StartSeq(s)[i] \in StartsIn(s)
<1> DEFINE G == {u \in Seq(Callbacks) :
                    \A k \in 1..Len(StartSeq(u)) : StartSeq(u)[k] \in StartsIn(u)}
<1>1. <<>> \in G
    <2>1. Len(StartSeq(<<>>)) = 0 /\ <<>> \in Seq(Callbacks)
        BY StartSeqEmpty
    <2> QED
        BY <2>1
<1>2. ASSUME NEW u \in Seq(Callbacks), NEW c \in Callbacks, u \in G
      PROVE  Append(u, c) \in G
    <2>0. /\ Append(u, c) \in Seq(Callbacks) /\ Len(u) + 1 \in DOMAIN Append(u, c)
          /\ Append(u, c)[Len(u) + 1] = c
          /\ \A j \in DOMAIN u : j \in DOMAIN Append(u, c) /\ Append(u, c)[j] = u[j]
        OBVIOUS
    <2>1. PICK a, b \in Seq(Tasks) : a = StartSeq(u) /\ b = StartOf(c)
        BY StartOfType, StartSeqType
    <2>2. \A k \in 1..Len(a) : a[k] \in StartsIn(Append(u, c))
        BY <1>2, <2>0, <2>1 DEF StartsIn
    <2>3. \A k \in 1..Len(b) : b[k] \in StartsIn(Append(u, c))
        <3>1. CASE c.fn = "Start"
            <4>1. Len(b) = 1 /\ b[1] = c.task /\ c.task \in Tasks /\ c = Start(c.task)
                BY <2>1, <3>1, CallbackKinds DEF StartOf
            <4> QED
                BY <2>0, <4>1 DEF StartsIn
        <3>2. CASE c.fn # "Start"
            BY <2>1, <3>2 DEF StartOf
        <3> QED
            BY <3>1, <3>2
    <2>4. \A k \in 1..Len(a \o b) : (a \o b)[k] \in StartsIn(Append(u, c))
        BY <2>2, <2>3
    <2>5. StartSeq(Append(u, c)) = a \o b
        BY <2>1, StartSeqAppend, Zenon
    <2> QED
        BY <2>0, <2>4, <2>5, Zenon
<1> HIDE DEF G
<1>3. s \in G
    BY <1>1, <1>2, ListInduction
<1> QED
    BY <1>3 DEF G

-----------------------------------------------------------------------------
(* Every step of the runtime submits a task, begins one, ends one, or      *)
(* leaves the queue and the running tasks as they are.                     *)

\* The queue and the servers of the abstract specification.
Backlog == tasks \o StartSeq(batch) \o StartSeq(functions)
Busy == {func[r] : r \in Routines} \ {None}

\* A task is in one place only: once in the queue, or in one routine.
Once ==
    /\ \A i, j \in DOMAIN Backlog : Backlog[i] = Backlog[j] => i = j
    /\ \A i \in DOMAIN Backlog : Backlog[i] \notin Busy
    /\ \A r, q \in Routines : func[r] = func[q] /\ func[r] # None => r = q

\* The backlog of the pool is a sequence of tasks.
LEMMA BacklogType ==
    ASSUME NEW a \in Seq(Tasks), NEW b \in Seq(Callbacks), NEW c \in Seq(Callbacks)
    PROVE  a \o StartSeq(b) \o StartSeq(c) \in Seq(Tasks)
BY StartSeqType, ConcatProperties

\* Three task lists join to the same list either way.
LEMMA Associative ==
    \A a, b, c \in Seq(Tasks) : (a \o b) \o c = a \o (b \o c)
BY ConcatAssociative

\* Where t goes when it is submitted at place i of q.
Inserted(q, i, t) == SubSeq(q, 1, i) \o <<t>> \o SubSeq(q, i + 1, Len(q))

\* A task appended to the first of three lists is inserted into them all.
LEMMA InsertedAfterFirst ==
    ASSUME NEW a \in Seq(Tasks), NEW b \in Seq(Tasks), NEW c \in Seq(Tasks),
           NEW t \in Tasks
    PROVE  /\ Len(a) \in 0..Len(a \o b \o c)
           /\ Append(a, t) \o b \o c = Inserted(a \o b \o c, Len(a), t)
<1>1. ASSUME NEW e \in Seq(Tasks) PROVE e \o b \o c = e \o (b \o c)
    BY ConcatAssociative
<1>2. Append(a, t) \in Seq(Tasks) /\ Append(a, t) = a \o <<t>>
    BY AppendProperties, AppendIsConcat
<1>3. Append(a, t) \o b \o c = Append(a, t) \o (b \o c)
    BY <1>1, <1>2, Zenon
<1>4. b \o c \in Seq(Tasks)
    BY ConcatProperties
<1>5. ASSUME NEW d \in Seq(Tasks)
      PROVE  /\ Len(a) \in 0..Len(a \o d) /\ SubSeq(a \o d, 1, Len(a)) = a
             /\ SubSeq(a \o d, Len(a) + 1, Len(a \o d)) = d
    OBVIOUS
<1>6. /\ Len(a) \in 0..Len(a \o (b \o c))
      /\ SubSeq(a \o (b \o c), 1, Len(a)) = a
      /\ SubSeq(a \o (b \o c), Len(a) + 1, Len(a \o (b \o c))) = b \o c
    BY <1>4, <1>5, Zenon
<1> QED
    BY <1>1, <1>2, <1>3, <1>6, Zenon DEF Inserted

\* The head of the three lists, and what is behind it, are those of a.
HeadIs(a, b, c) ==
    /\ a \o b \o c # <<>> /\ Head(a \o b \o c) = Head(a)
    /\ Tail(a \o b \o c) = Tail(a) \o b \o c

\* The first of three lists, if it is not empty, has the head of them all.
LEMMA HeadOfFirst ==
    ASSUME NEW a \in Seq(Tasks), NEW b \in Seq(Tasks), NEW c \in Seq(Tasks), a # <<>>
    PROVE  HeadIs(a, b, c)
<1>1. ASSUME NEW e \in Seq(Tasks) PROVE e \o b \o c = e \o (b \o c)
    BY ConcatAssociative
<1>2. Tail(a) \in Seq(Tasks) /\ b \o c \in Seq(Tasks)
    BY HeadTailProperties, ConcatProperties
<1>3. ASSUME NEW d \in Seq(Tasks)
      PROVE  a \o d # <<>> /\ Head(a \o d) = Head(a) /\ Tail(a \o d) = Tail(a) \o d
    OBVIOUS
<1>4. a \o b \o c = a \o (b \o c) /\ Tail(a) \o b \o c = Tail(a) \o (b \o c)
    BY <1>1, <1>2, Zenon
<1>5. /\ a \o (b \o c) # <<>> /\ Head(a \o (b \o c)) = Head(a)
      /\ Tail(a \o (b \o c)) = Tail(a) \o (b \o c)
    BY <1>2, <1>3, Zenon
<1> QED
    BY <1>4, <1>5, Zenon DEF HeadIs

\* What a step does to the queue, the servers and the opening of the service.
Quiet ==
    Backlog' = Backlog /\ func' = func /\ (phase # "setup" => phase' # "setup")
Submits(t) ==
    /\ t \notin Outstanding /\ func' = func /\ phase' = phase
    /\ \E i \in 0..Len(Backlog) : /\ phase # "setup" => i = Len(Backlog)
                                  /\ Backlog' = Inserted(Backlog, i, t)
Begins(r) ==
    /\ Backlog # <<>> /\ func[r] = None /\ phase' = phase
    /\ func' = [func EXCEPT ![r] = Head(Backlog)] /\ Backlog' = Tail(Backlog)
Ends(r) ==
    /\ func[r] # None /\ phase' = phase
    /\ func' = [func EXCEPT ![r] = None] /\ Backlog' = Backlog
ServiceStep ==
    \/ Quiet
    \/ \E t \in Tasks : Submits(t)
    \/ \E r \in Routines : Begins(r) \/ Ends(r)

\* A step that touches neither queue nor routine is invisible to a client.
LEMMA QuietFrame ==
    ASSUME UNCHANGED <<tasks, batch, functions, func>>,
           phase # "setup" => phase' # "setup"
    PROVE  ServiceStep
BY DEF ServiceStep, Quiet, Backlog

\* A callback that resumes a routine adds no task.
LEMMA CallAddsNothing ==
    ASSUME TypeOK, UNCHANGED <<tasks, batch, func, phase>>, NEW r \in Routines,
           functions' = Append(functions, CallOf(r))
    PROVE  ServiceStep
<1>1. CallOf(r) \in Callbacks /\ StartOf(CallOf(r)) = <<>>
    BY DEF Callbacks, CallOf, StartOf
<1>2. functions \in Seq(Callbacks)
    BY DEF TypeOK
<1>3. StartSeq(functions') = StartSeq(functions) \o <<>>
    BY <1>1, <1>2, StartSeqAppend, Zenon
<1>4. StartSeq(functions') = StartSeq(functions)
    BY <1>2, <1>3, StartSeqType, ConcatEmptySeq
<1> QED
    BY <1>4 DEF ServiceStep, Quiet, Backlog

\* Do called by a routine is one Submit of the service.
LEMMA DoSubmits ==
    ASSUME TypeOK, NEW r \in Routines, NEW t \in Tasks, Do(r, t)
    PROVE  ServiceStep
<1>1. /\ t \notin Outstanding /\ functions' = Append(functions, Start(t))
      /\ UNCHANGED <<tasks, batch, phase, func>>
    BY DEF Do, poolVars, routineVars
<1>2. Start(t) \in Callbacks /\ StartOf(Start(t)) = <<t>>
    BY DEF Callbacks, Start, StartOf
<1>3. tasks \in Seq(Tasks) /\ functions \in Seq(Callbacks) /\ batch \in Seq(Callbacks)
    BY DEF TypeOK
<1>4. PICK a, b, c \in Seq(Tasks) :
         a = tasks /\ b = StartSeq(batch) /\ c = StartSeq(functions)
    BY <1>3, StartSeqType
<1>5. StartSeq(functions') = c \o <<t>>
    BY <1>1, <1>2, <1>3, <1>4, StartSeqAppend, Zenon
<1>6. Backlog = a \o b \o c /\ Backlog' = a \o b \o (c \o <<t>>)
    BY <1>1, <1>4, <1>5 DEF Backlog
<1>7. PICK q \in Seq(Tasks) : q = a \o b \o c
    BY ConcatProperties, Zenon
<1>8. Backlog' = q \o <<t>>
    <2>1. a \o b \in Seq(Tasks) /\ <<t>> \in Seq(Tasks)
        BY ConcatProperties
    <2>2. (a \o b) \o (c \o <<t>>) = ((a \o b) \o c) \o <<t>>
        BY <2>1, Associative
    <2> QED
        BY <1>6, <1>7, <2>2
<1>9. Inserted(q, Len(q), t) = q \o <<t>> /\ Len(q) \in 0..Len(q)
    <2>1. SubSeq(q, 1, Len(q)) = q /\ SubSeq(q, Len(q) + 1, Len(q)) = <<>>
          /\ Len(q) \in 0..Len(q)
        OBVIOUS
    <2>2. (q \o <<t>>) \o <<>> = q \o <<t>>
        OBVIOUS
    <2> QED
        BY <2>1, <2>2, Zenon DEF Inserted
<1>10. Submits(t)
    BY <1>1, <1>6, <1>7, <1>8, <1>9, Zenon DEF Submits
<1> QED
    BY <1>10 DEF ServiceStep

\* Do called before the loop starts is one Submit of the service.
LEMMA DoInMainSubmits ==
    ASSUME TypeOK, NEW t \in Tasks, DoInMain(t)
    PROVE  ServiceStep
<1>1. /\ t \notin Outstanding /\ tasks' = Append(tasks, t) /\ phase = "setup"
      /\ UNCHANGED <<functions, batch, phase, func>>
    BY DEF DoInMain, PoolStart, routineVars
<1>2. PICK a, b, c \in Seq(Tasks) :
         a = tasks /\ b = StartSeq(batch) /\ c = StartSeq(functions)
    BY StartSeqType DEF TypeOK
<1>3. Backlog = a \o b \o c /\ Backlog' = Append(a, t) \o b \o c
    BY <1>1, <1>2 DEF Backlog
<1>4. PICK i \in Nat : i = Len(a)
    OBVIOUS
<1>5. i \in 0..Len(Backlog) /\ Backlog' = Inserted(Backlog, i, t)
    BY <1>3, <1>4, InsertedAfterFirst, Zenon
<1>6. Submits(t)
    BY <1>1, <1>5 DEF Submits
<1> QED
    BY <1>6 DEF ServiceStep

\* Swapping functions_ into the loop's batch loses and reorders no task.
LEMMA TakeFunctionsIsQuiet ==
    ASSUME TypeOK, LoopInv, TakeFunctions
    PROVE  ServiceStep
<1>1. /\ batch = <<>> /\ batch' = functions /\ functions' = <<>> /\ phase' # "setup"
      /\ UNCHANGED <<tasks, func>>
    BY DEF TakeFunctions, MoveFunctions, LoopInv, poolVars, routineVars
<1>2. PICK a, c \in Seq(Tasks) : a = tasks /\ c = StartSeq(functions)
    BY StartSeqType DEF TypeOK
<1>3. Backlog = a \o <<>> \o c /\ Backlog' = a \o c \o <<>>
    BY <1>1, <1>2, StartSeqEmpty DEF Backlog
<1>4. a \o <<>> \o c = a \o c \o <<>>
    OBVIOUS
<1> QED
    BY <1>1, <1>3, <1>4 DEF ServiceStep, Quiet

\* Running a Start moves its task from the batch to the pool, unseen.
LEMMA RunFunctionIsQuiet ==
    ASSUME TypeOK, RunFunction
    PROVE  ServiceStep
<1>1. /\ batch # <<>> /\ batch' = Tail(batch) /\ UNCHANGED <<functions, func, phase>>
      /\ \/ \E t \in Tasks : Head(batch) = Start(t) /\ tasks' = Append(tasks, t)
         \/ \E r \in Routines : Head(batch) = CallOf(r) /\ tasks' = tasks
    BY Zenon DEF RunFunction, PoolStart, routineVars
<1>2. tasks \in Seq(Tasks) /\ functions \in Seq(Callbacks) /\ batch \in Seq(Callbacks)
      /\ Tail(batch) \in Seq(Callbacks)
    BY <1>1, HeadTailProperties DEF TypeOK
<1>3. PICK a, b, c \in Seq(Tasks) :
         a = tasks /\ b = StartSeq(Tail(batch)) /\ c = StartSeq(functions)
    BY <1>2, StartSeqType, Zenon
<1>4. StartSeq(batch) = StartOf(Head(batch)) \o b
    BY <1>1, <1>2, <1>3, StartSeqHead, Zenon
<1>5. tasks' \o b = a \o StartSeq(batch)
    <2>1. ASSUME NEW t \in Tasks, Head(batch) = Start(t), tasks' = Append(tasks, t)
          PROVE  tasks' \o b = a \o StartSeq(batch)
        <3>1. StartSeq(batch) = <<t>> \o b
            BY <1>4, <2>1 DEF Start, StartOf
        <3>2. Append(a, t) \o b = a \o (<<t>> \o b)
            <4>1. <<t>> \in Seq(Tasks) /\ Append(a, t) = a \o <<t>>
                OBVIOUS
            <4> QED
                BY <4>1, Associative
        <3> QED
            BY <1>3, <2>1, <3>1, <3>2
    <2>2. ASSUME NEW r \in Routines, Head(batch) = CallOf(r), tasks' = tasks
          PROVE  tasks' \o b = a \o StartSeq(batch)
        <3>1. StartSeq(batch) = <<>> \o b
            BY <1>4, <2>2 DEF CallOf, StartOf
        <3> QED
            BY <1>3, <2>2, <3>1
    <2> QED
        BY <1>1, <2>1, <2>2, Zenon
<1>6. Backlog' = Backlog
    BY <1>1, <1>3, <1>5, Zenon DEF Backlog
<1> QED
    BY <1>1, <1>6 DEF ServiceStep, Quiet

\* A routine that pops a task begins the one the service would begin.
LEMMA ProcessBegins ==
    ASSUME TypeOK, PoolConsistent, NEW r \in Routines, RoutineProcess(r)
    PROVE  ServiceStep
<1>0. UNCHANGED <<functions, batch>>
    BY DEF RoutineProcess
<1>1. CASE r \in free_list /\ r \notin active_list /\ tasks # <<>>
    <2>1. /\ func' = [func EXCEPT ![r] = Head(tasks)] /\ tasks' = Tail(tasks)
          /\ phase' = phase /\ func[r] = None
        BY <1>1 DEF RoutineProcess, PopTask, PoolConsistent
    <2>2. PICK a, b, c \in Seq(Tasks) :
             a = tasks /\ b = StartSeq(batch) /\ c = StartSeq(functions)
        BY StartSeqType DEF TypeOK
    <2>3. Backlog = a \o b \o c /\ Backlog' = Tail(a) \o b \o c
        BY <1>0, <2>1, <2>2 DEF Backlog
    <2>4. Backlog # <<>> /\ Head(Backlog) = Head(tasks) /\ Backlog' = Tail(Backlog)
        <3>1. a # <<>>
            BY <1>1, <2>2, Zenon
        <3>2. HeadIs(a, b, c)
            BY <3>1, HeadOfFirst
        <3> QED
            BY <2>2, <2>3, <3>2, Zenon DEF HeadIs
    <2>5. Begins(r)
        BY <2>1, <2>4, Zenon DEF Begins
    <2> QED
        BY <2>5 DEF ServiceStep
<1>2. CASE ~(r \in free_list /\ r \notin active_list /\ tasks # <<>>)
    <2>1. phase' = "aborted" /\ tasks' = tasks /\ func' = func
        BY <1>2, Zenon DEF RoutineProcess, poolVars
    <2> QED
        BY <1>0, <2>1, QuietFrame
<1> QED
    BY <1>1, <1>2

\* A routine whose task returns ends that task in the service.
LEMMA FuncDoneEnds ==
    ASSUME TypeOK, PoolConsistent, NEW r \in Routines, FuncDone(r)
    PROVE  ServiceStep
<1>1. /\ func' = [func EXCEPT ![r] = None] /\ UNCHANGED <<tasks, functions, batch, phase>>
      /\ func[r] # None
    BY DEF FuncDone, At, loopVars, PoolConsistent
<1>2. Ends(r)
    BY <1>1 DEF Ends, Backlog
<1> QED
    BY <1>2 DEF ServiceStep

\* Every step of the runtime is one of the service's, or none.
LEMMA StepsAreServiceSteps ==
    ASSUME Wakeup, [Next]_vars
    PROVE  ServiceStep
<1>0. TypeOK /\ PoolConsistent /\ LoopInv
    BY DEF Wakeup
<1> USE DEF poolVars, loopVars, epollVars, routineVars, timerVars, ioVars
<1>1. CASE PoolLoop \/ EpollWait \/ TurnWheel
    <2>1. UNCHANGED <<tasks, batch, functions, func>>
        BY <1>1, Zenon DEF PoolLoop, EpollWait, TurnWheel
    <2>2. phase' = phase \/ phase' = "events" \/ phase' = "timers"
        BY <1>1, Zenon DEF PoolLoop, EpollWait, TurnWheel
    <2> QED
        BY <2>1, <2>2, QuietFrame
<1>2. CASE TakeFunctions
    BY <1>0, <1>2, TakeFunctionsIsQuiet
<1>3. CASE RunFunction
    BY <1>0, <1>3, RunFunctionIsQuiet
<1>4. ASSUME NEW t \in Tasks, DoInMain(t) PROVE ServiceStep
    BY <1>0, <1>4, DoInMainSubmits
<1>5. ASSUME NEW p \in Parks, ScheduleRead(p) \/ ScheduleWrite(p) PROVE ServiceStep
    BY <1>5, QuietFrame DEF ScheduleRead, ScheduleWrite
<1>6. ASSUME NEW r \in Routines,
             OnTimer(r) \/ SysCall(r) \/ Interrupted(r) \/ Wait(r) \/ Resume(r)
      PROVE  ServiceStep
    <2>1. UNCHANGED <<tasks, batch, functions, func, phase>>
        BY <1>6, Zenon DEF OnTimer, SysCall, Interrupted, Wait, Resume
    <2> QED
        BY <2>1, QuietFrame
<1>7. ASSUME NEW r \in Routines, NEW o \in Ops, BeginOp(r, o) PROVE ServiceStep
    BY <1>7, QuietFrame DEF BeginOp
<1>8. ASSUME NEW r \in Routines, RoutineProcess(r) PROVE ServiceStep
    BY <1>0, <1>8, ProcessBegins
<1>9. ASSUME NEW r \in Routines, FuncDone(r) PROVE ServiceStep
    BY <1>0, <1>9, FuncDoneEnds
<1>10. ASSUME NEW r \in Routines, NEW t \in Tasks, Do(r, t) PROVE ServiceStep
    BY <1>0, <1>10, DoSubmits
<1>11. ASSUME NEW r \in Routines, CheckTicks(r) PROVE ServiceStep
    <2>1. /\ UNCHANGED <<tasks, batch, func, phase>>
          /\ functions' = functions \/ functions' = Append(functions, CallOf(r))
        BY <1>11, Zenon DEF CheckTicks, Yield
    <2> QED
        BY <1>0, <2>1, QuietFrame, CallAddsNothing
<1>12. ASSUME NEW r \in Routines, NEW p \in Parks, Notify(r, p) PROVE ServiceStep
    <2>1. /\ UNCHANGED <<tasks, batch, func, phase>>
          /\ \/ functions' = functions
             \/ /\ slot["read"][p] # nullptr
                /\ functions' = Append(functions, CallOf(slot["read"][p]))
        BY <1>12, Zenon DEF Notify, ScheduleReadInTask
    <2>2. slot["read"][p] # nullptr => slot["read"][p] \in Routines
        BY <1>0 DEF TypeOK, Dirs
    <2> QED
        BY <1>0, <2>1, <2>2, QuietFrame, CallAddsNothing
<1>13. CASE Socket \/ UNCHANGED vars
    <2>1. UNCHANGED <<tasks, batch, functions, func, phase>>
        BY <1>13, Zenon DEF Socket, SocketReady, vars
    <2> QED
        BY <2>1, QuietFrame
<1> QED
    BY <1>1, <1>2, <1>3, <1>4, <1>5, <1>6, <1>7, <1>8, <1>9, <1>10, <1>11,
       <1>12, <1>13 DEF Next, Thread, MainStep, RoutineStep, SocketStep

-----------------------------------------------------------------------------
(* The refinement.  That a task is in one place only (Once) is what makes  *)
(* the end of a task one step of the service.                              *)

\* What is submitted is neither waiting nor running.
LEMMA BacklogOutstanding ==
    ASSUME TypeOK, NEW t \in Tasks, t \notin Outstanding
    PROVE  t \notin Busy /\ \A i \in DOMAIN Backlog : Backlog[i] # t
<1>1. tasks \in Seq(Tasks) /\ functions \in Seq(Callbacks) /\ batch \in Seq(Callbacks)
    BY DEF TypeOK
<1>2. PICK a, b, c \in Seq(Tasks) :
         a = tasks /\ b = StartSeq(batch) /\ c = StartSeq(functions)
    BY <1>1, StartSeqType
<1>3. /\ \A i \in 1..Len(a) : a[i] # t
      /\ \A i \in 1..Len(b) : b[i] # t
      /\ \A i \in 1..Len(c) : c[i] # t
    <2>1. \A i \in 1..Len(a) : a[i] # t
        BY <1>2 DEF Outstanding
    <2>2. \A i \in 1..Len(b) : b[i] # t
        BY <1>1, <1>2, StartSeqRange DEF Outstanding
    <2>3. \A i \in 1..Len(c) : c[i] # t
        BY <1>1, <1>2, StartSeqRange DEF Outstanding
    <2> QED
        BY <2>1, <2>2, <2>3
<1>4. \A i \in DOMAIN (a \o b \o c) : (a \o b \o c)[i] # t
    <2>1. \A i \in 1..Len(a \o b) : (a \o b)[i] # t
        BY <1>3
    <2>2. PICK d \in Seq(Tasks) : d = a \o b
        BY ConcatProperties, Zenon
    <2> QED
        BY <1>3, <2>1, <2>2
<1>5. t \notin Busy
    BY Zenon DEF Busy, Outstanding
<1> QED
    BY <1>2, <1>4, <1>5 DEF Backlog

\* An inserted task is where it was put, and the others keep their order.
LEMMA InsertedKeepsOnce ==
    ASSUME NEW q \in Seq(Tasks), NEW i \in 0..Len(q), NEW t \in Tasks,
           \A m, n \in DOMAIN q : q[m] = q[n] => m = n,
           \A m \in DOMAIN q : q[m] # t
    PROVE  /\ \A m, n \in DOMAIN Inserted(q, i, t) :
                 Inserted(q, i, t)[m] = Inserted(q, i, t)[n] => m = n
           /\ \A m \in DOMAIN Inserted(q, i, t) :
                 \/ Inserted(q, i, t)[m] = t
                 \/ \E n \in DOMAIN q : Inserted(q, i, t)[m] = q[n]
<1>1. PICK k \in Nat : k = Len(q)
    OBVIOUS
<1>2. i \in Nat /\ i <= k /\ k - i \in Nat
    BY <1>1
<1>3. PICK a, b \in Seq(Tasks) :
         /\ a = SubSeq(q, 1, i) /\ Len(a) = i /\ \A m \in 1..i : a[m] = q[m]
         /\ b = SubSeq(q, i + 1, k) /\ Len(b) = k - i
         /\ \A m \in 1..(k - i) : b[m] = q[i + m]
    <2>1. /\ SubSeq(q, 1, i) \in Seq(Tasks) /\ Len(SubSeq(q, 1, i)) = i
          /\ \A m \in 1..i : SubSeq(q, 1, i)[m] = q[m]
        BY <1>1, <1>2
    <2>2. /\ SubSeq(q, i + 1, k) \in Seq(Tasks) /\ Len(SubSeq(q, i + 1, k)) = k - i
          /\ \A m \in 1..(k - i) : SubSeq(q, i + 1, k)[m] = q[i + m]
        BY <1>1, <1>2
    <2> QED
        BY <2>1, <2>2, Zenon
<1>4. PICK e \in Seq(Tasks) : /\ e = a \o <<t>> /\ Len(e) = i + 1
                              /\ \A m \in 1..i : e[m] = q[m]
                              /\ e[i + 1] = t
    <2>1. /\ a \o <<t>> \in Seq(Tasks) /\ Len(a \o <<t>>) = i + 1
          /\ \A m \in 1..i : (a \o <<t>>)[m] = a[m]
          /\ (a \o <<t>>)[i + 1] = t
        BY <1>2, <1>3
    <2>2. \A m \in 1..i : (a \o <<t>>)[m] = q[m]
        BY <1>3, <2>1, Zenon
    <2> QED
        BY <2>1, <2>2, Zenon
<1>5. PICK z \in Seq(Tasks) : /\ z = e \o b /\ Len(z) = k + 1
                              /\ \A m \in 1..(k + 1) :
                                    z[m] = IF m <= i + 1 THEN e[m] ELSE b[m - (i + 1)]
    <2>1. /\ e \o b \in Seq(Tasks) /\ Len(e \o b) = Len(e) + Len(b)
          /\ \A m \in 1..(Len(e) + Len(b)) :
                (e \o b)[m] = IF m <= Len(e) THEN e[m] ELSE b[m - Len(e)]
        BY ConcatProperties
    <2>2. (i + 1) + (k - i) = k + 1
        BY <1>2
    <2>3. Len(e) + Len(b) = k + 1 /\ Len(e) = i + 1
        BY <1>3, <1>4, <2>2, Zenon
    <2>4. \A m \in 1..(k + 1) :
             (e \o b)[m] = IF m <= i + 1 THEN e[m] ELSE b[m - (i + 1)]
        BY <2>1, <2>3
    <2> QED
        BY <2>1, <2>3, <2>4, Zenon
<1>6. Inserted(q, i, t) = z
    BY <1>1, <1>2, <1>3, <1>4, <1>5 DEF Inserted
<1>7. \A m \in 1..(k + 1) : z[m] = IF m <= i THEN q[m] ELSE IF m = i + 1 THEN t
                                   ELSE q[m - 1]
    <2> TAKE m \in 1..(k + 1)
    <2>1. CASE m <= i
        BY <1>1, <1>4, <1>5, <2>1
    <2>2. CASE m = i + 1
        BY <1>1, <1>4, <1>5, <2>2
    <2>3. CASE m > i + 1
        <3>1. m - (i + 1) \in 1..(k - i) /\ i + (m - (i + 1)) = m - 1
            BY <1>1, <2>3
        <3>2. z[m] = b[m - (i + 1)]
            BY <1>1, <1>5, <2>3
        <3>3. b[m - (i + 1)] = q[m - 1]
            BY <1>3, <3>1
        <3> QED
            BY <1>1, <2>3, <3>2, <3>3
    <2> QED
        BY <1>1, <2>1, <2>2, <2>3
<1>8. DOMAIN z = 1..(k + 1) /\ DOMAIN q = 1..k
    BY <1>1, <1>5
<1>9. \A m \in 1..(k + 1) : z[m] = t \/ \E n \in 1..k : z[m] = q[n]
    <2> TAKE m \in 1..(k + 1)
    <2>1. CASE m <= i
        BY <1>1, <1>7, <2>1
    <2>2. CASE m = i + 1
        BY <1>1, <1>7, <2>2
    <2>3. CASE m > i + 1
        <3>1. m - 1 \in 1..k /\ z[m] = q[m - 1]
            BY <1>1, <1>7, <2>3
        <3> QED
            BY <3>1
    <2> QED
        BY <1>1, <2>1, <2>2, <2>3
<1>10. ASSUME NEW m \in 1..(k + 1), NEW n \in 1..(k + 1), z[m] = z[n] PROVE m = n
    <2> DEFINE P(x) == IF x <= i THEN x ELSE x - 1
    <2>1. \A x \in 1..(k + 1) : x # i + 1 => P(x) \in 1..k /\ z[x] = q[P(x)]
        BY <1>1, <1>7
    <2>2. z[i + 1] = t
        BY <1>1, <1>7
    <2>3. \A x, y \in 1..(k + 1) : x # i + 1 /\ y # i + 1 /\ P(x) = P(y) => x = y
        BY <1>1
    <2> HIDE DEF P
    <2> QED
        BY <1>8, <1>10, <2>1, <2>2, <2>3
<1> QED
    BY <1>6, <1>8, <1>9, <1>10, Zenon

\* A task stays in one place.
LEMMA NextOnce ==
    ASSUME TypeOK, Once, ServiceStep, TypeOK'
    PROVE  Once'
<1>0. Backlog \in Seq(Tasks)
    BY BacklogType DEF TypeOK, Backlog
<1>1. PICK q \in Seq(Tasks) : q = Backlog
    BY <1>0
<1>2. func \in [Routines -> Tasks \cup {None}] /\ None \notin Tasks
    BY ConstantsAssumption DEF TypeOK
<1>3. /\ \A m, n \in DOMAIN q : q[m] = q[n] => m = n
      /\ \A m \in DOMAIN q, r \in Routines : q[m] # func[r]
      /\ \A r, s \in Routines : func[r] = func[s] /\ func[r] # None => r = s
    <2>1. \A m \in DOMAIN q : q[m] \in Tasks
        OBVIOUS
    <2>2. ASSUME NEW m \in DOMAIN q, NEW r \in Routines PROVE q[m] # func[r]
        <3>1. q[m] \notin Busy /\ q[m] # None
            BY <1>1, <1>2, <2>1 DEF Once
        <3> QED
            BY <3>1 DEF Busy
    <2> QED
        BY <1>1, <2>2, Zenon DEF Once
<1>4. ASSUME /\ \A m, n \in DOMAIN Backlog' : Backlog'[m] = Backlog'[n] => m = n
             /\ \A m \in DOMAIN Backlog', r \in Routines : Backlog'[m] # func'[r]
             /\ \A r, s \in Routines : func'[r] = func'[s] /\ func'[r] # None => r = s
      PROVE  Once'
    BY <1>4, Zenon DEF Once, Busy
<1>5. CASE Quiet
    BY <1>1, <1>3, <1>4, <1>5, Zenon DEF Quiet
<1>6. ASSUME NEW t \in Tasks, Submits(t) PROVE Once'
    <2>1. t \notin Outstanding /\ func' = func
        BY <1>6 DEF Submits
    <2>2. \A m \in DOMAIN q : q[m] # t
        BY <1>1, <2>1, BacklogOutstanding
    <2>3. \A r \in Routines : func[r] # t
        BY <2>1 DEF Outstanding
    <2>4. PICK i \in 0..Len(q) : Backlog' = Inserted(q, i, t)
        BY <1>1, <1>6 DEF Submits
    <2>5. /\ \A m, n \in DOMAIN Backlog' : Backlog'[m] = Backlog'[n] => m = n
          /\ \A m \in DOMAIN Backlog' : \/ Backlog'[m] = t
                                        \/ \E n \in DOMAIN q : Backlog'[m] = q[n]
        BY <1>3, <2>2, <2>4, InsertedKeepsOnce
    <2>6. \A m \in DOMAIN Backlog', r \in Routines : Backlog'[m] # func'[r]
        BY <1>3, <2>1, <2>3, <2>5
    <2>7. \A r, s \in Routines : func'[r] = func'[s] /\ func'[r] # None => r = s
        BY <1>3, <2>1, Zenon
    <2> QED
        BY <1>4, <2>5, <2>6, <2>7, Zenon
<1>7. ASSUME NEW r \in Routines, Begins(r) PROVE Once'
    <2>1. /\ q # <<>> /\ func[r] = None
          /\ func' = [func EXCEPT ![r] = Head(q)] /\ Backlog' = Tail(q)
        BY <1>1, <1>7 DEF Begins
    <2>2. PICK k \in Nat : k = Len(q) /\ k # 0
        BY <2>1, EmptySeq
    <2>3. /\ Head(q) = q[1] /\ 1 \in DOMAIN q /\ DOMAIN q = 1..k
          /\ DOMAIN Tail(q) = 1..(k - 1) /\ \A m \in 1..(k - 1) : Tail(q)[m] = q[m + 1]
        BY <2>1, <2>2
    <2>4. \A m \in 1..(k - 1) : m + 1 \in 1..k /\ m + 1 # 1
        BY <2>2
    <2>5. \A m, n \in 1..(k - 1) : Tail(q)[m] = Tail(q)[n] => m = n
        <3> TAKE m, n \in 1..(k - 1)
        <3>1. q[m + 1] = q[n + 1] => m + 1 = n + 1
            BY <1>3, <2>3, <2>4
        <3> QED
            BY <2>2, <2>3, <3>1
    <2>6. \A m \in 1..(k - 1), s \in Routines : Tail(q)[m] # func'[s]
        BY <1>2, <1>3, <2>1, <2>3, <2>4
    <2>7. \A s, u \in Routines : func'[s] = func'[u] /\ func'[s] # None => s = u
        BY <1>2, <1>3, <2>1, <2>3
    <2> QED
        BY <1>4, <2>1, <2>3, <2>5, <2>6, <2>7, Zenon
<1>8. ASSUME NEW r \in Routines, Ends(r) PROVE Once'
    <2>1. func' = [func EXCEPT ![r] = None] /\ Backlog' = q
        BY <1>1, <1>8 DEF Ends
    <2>2. \A m \in DOMAIN q : q[m] \in Tasks
        OBVIOUS
    <2>3. \A m \in DOMAIN q, s \in Routines : q[m] # func'[s]
        BY <1>2, <1>3, <2>1, <2>2
    <2>4. \A s, u \in Routines : func'[s] = func'[u] /\ func'[s] # None => s = u
        BY <1>2, <1>3, <2>1
    <2> QED
        BY <1>3, <1>4, <2>1, <2>3, <2>4
<1> QED
    BY <1>5, <1>6, <1>7, <1>8 DEF ServiceStep

\* A routine that takes a task was free, so fewer than all of them were busy.
LEMMA RoomForOne ==
    ASSUME TypeOK, NEW r \in Routines, func[r] = None
    PROVE  Cardinality(Busy) < PoolSize
<1> DEFINE F == [s \in Routines \ {r} |-> func[s]]
           T == {func[s] : s \in Routines \ {r}}
<1>1. IsFiniteSet(Routines) /\ Cardinality(Routines) = PoolSize /\ PoolSize \in Nat
    BY FS_Interval, ConstantsAssumption DEF Routines
<1>2. IsFiniteSet(Routines \ {r}) /\ Cardinality(Routines \ {r}) = PoolSize - 1
    BY <1>1, FS_RemoveElement
<1>3. F \in Surjection(Routines \ {r}, T)
    BY DEF Surjection
<1>4. IsFiniteSet(T) /\ Cardinality(T) <= PoolSize - 1
    <2> HIDE DEF F, T
    <2> QED
        BY <1>2, <1>3, FS_Surjection
<1>5. Busy \in SUBSET T
    BY DEF Busy
<1>6. IsFiniteSet(Busy) /\ Cardinality(Busy) <= Cardinality(T)
    <2> HIDE DEF T
    <2> QED
        BY <1>4, <1>5, FS_Subset
<1>7. Cardinality(T) \in Nat /\ Cardinality(Busy) \in Nat
    BY <1>4, <1>6, FS_CardinalityType
<1> QED
    BY <1>1, <1>4, <1>6, <1>7

\* The runtime starts as the service does: nothing queued, nothing busy.
LEMMA InitService == Init => Once /\ Service!Init
<1> SUFFICES ASSUME Init PROVE Once /\ Service!Init
    OBVIOUS
<1>1. Backlog = <<>>
    BY StartSeqEmpty DEF Init, Backlog
<1>2. Busy = {}
    BY DEF Init, Busy
<1>3. \A r \in Routines : func[r] = None
    BY DEF Init
<1>4. phase = "setup"
    BY DEF Init
<1> QED
    BY <1>1, <1>2, <1>3, <1>4 DEF Once, Service!Init, Backlog, Busy

\* The service counts sets with the library's Cardinality.
LEMMA ServiceCardinality == \A S : Service!Cardinality(S) = Cardinality(S)
BY DEF Cardinality, Service!Cardinality

\* A step seen through the mapping is a step of the service, or a stutter.
LEMMA NextService ==
    ASSUME TypeOK, Once, ServiceStep
    PROVE  [Service!Next]_<<Backlog, Busy, phase # "setup">>
<1>0. func \in [Routines -> Tasks \cup {None}] /\ None \notin Tasks
    BY ConstantsAssumption DEF TypeOK
<1>1. CASE Quiet
    <2>1. Backlog' = Backlog /\ Busy' = Busy
        BY <1>1, Zenon DEF Quiet, Busy
    <2>2. CASE phase = "setup" /\ phase' # "setup"
        BY <2>1, <2>2, Zenon DEF Service!Next, Service!Open, Backlog, Busy
    <2>3. CASE (phase # "setup") = (phase' # "setup")
        BY <2>1, <2>3
    <2> QED
        BY <1>1, <2>2, <2>3 DEF Quiet
<1>2. ASSUME NEW t \in Tasks, Submits(t) PROVE Service!Next
    <2>1. t \notin Busy /\ \A i \in DOMAIN Backlog : Backlog[i] # t
        BY <1>2, BacklogOutstanding DEF Submits
    <2>2. Busy' = Busy
        BY <1>2, Zenon DEF Submits, Busy
    <2>3. Service!Submit(t)
        BY <1>2, <2>1, <2>2, Zenon
           DEF Submits, Inserted, Service!Submit, Service!Queued, Backlog, Busy
    <2> QED
        BY <2>3 DEF Service!Next
<1>3. ASSUME NEW r \in Routines, Begins(r) PROVE Service!Next
    <2>1. Cardinality(Busy) < PoolSize
        BY <1>3, RoomForOne DEF Begins
    <2>2. Head(Backlog) # None
        BY <1>0, <1>3, BacklogType, HeadTailProperties DEF Begins, TypeOK, Backlog
    <2>3. Busy' = Busy \cup {Head(Backlog)}
        BY <1>0, <1>3, <2>2 DEF Begins, Busy
    <2>4. Service!Begin
        <3>1. Backlog # <<>> /\ Backlog' = Tail(Backlog) /\ phase' = phase
            BY <1>3 DEF Begins
        <3> QED
            BY <2>1, <2>3, <3>1, ServiceCardinality, Zenon
               DEF Service!Begin, Backlog, Busy
    <2> QED
        BY <2>4 DEF Service!Next
<1>4. ASSUME NEW r \in Routines, Ends(r) PROVE Service!Next
    <2>1. PICK t \in Tasks : t = func[r] /\ t \in Busy
        BY <1>0, <1>4 DEF Ends, Busy
    <2>2. Busy' = Busy \ {t}
        BY <1>0, <1>4, <2>1 DEF Ends, Busy, Once
    <2>3. Service!End(t)
        BY <1>4, <2>1, <2>2, Zenon DEF Ends, Service!End, Backlog, Busy
    <2> QED
        BY <2>3 DEF Service!Next
<1> QED
    BY <1>1, <1>2, <1>3, <1>4 DEF ServiceStep

\* Whatever the number of routines and of tasks, and however the loop, the
\* tasks and the sockets interleave, Do and the routine pool are a task service:
\* submitted tasks begin in order, once per Do, at most PoolSize at a time.
THEOREM RuntimeImplementsService == Spec => ImplementsService
<1>1. Init => Wakeup /\ Once /\ Service!Init
    BY InitWakeup, InitService
<1>2. Wakeup /\ Once /\ [Next]_vars => (Wakeup /\ Once)'
    <2> SUFFICES ASSUME Wakeup, Once, [Next]_vars PROVE Wakeup' /\ Once'
        OBVIOUS
    <2>1. TypeOK /\ Wakeup' /\ TypeOK'
        BY NextWakeup DEF Wakeup
    <2> QED
        BY <2>1, StepsAreServiceSteps, NextOnce
<1>3. Wakeup /\ Once /\ [Next]_vars
         => [Service!Next]_<<Backlog, Busy, phase # "setup">>
    BY StepsAreServiceSteps, NextService DEF Wakeup
<1>4. Spec => [](Wakeup /\ Once)
    BY <1>1, <1>2, PTL DEF Spec
<1> QED
    BY <1>1, <1>3, <1>4, PTL DEF Spec, ImplementsService, Service!Spec, Backlog, Busy
=============================================================================
