---------------------------- MODULE MediaProofs ----------------------------
(***************************************************************************)
(* Theorems about MediaServer, for any number of peers, user names,        *)
(* addresses, routines and buffers: a live peer is found under one key,    *)
(* and waits or is served in one place; every buffer is in one place; and  *)
(* a DTLS flight has its timer.                                            *)
(***************************************************************************)
EXTENDS MediaServer, FiniteSetTheorems, SequenceTheorems, TLAPS

-----------------------------------------------------------------------------
(* A session keeps its timer.                                              *)

\* What a session may be.
Sessions == [ice : BOOLEAN, dtls : {"none", "CONNECTING", "CONNECTED", "CLOSED", "FAILED"},
             done : BOOLEAN, flight : Nat, timer : BOOLEAN, early : BOOLEAN,
             established : BOOLEAN]

\* A flight has its timer, or the wheel ran it early; a handshake that is done has
\* none.  Nothing is outstanding before there is a transport.
Armed(s) ==
    /\ s.dtls = "CONNECTING" /\ s.flight > 0 => s.timer \/ s.early
    /\ s.done => ~s.timer
    /\ s.dtls = "none" => s.flight = 0 /\ ~s.timer

\* A session of its type, and armed.
Sound(s) == s \in Sessions /\ Armed(s)

\* HandleTimeout leaves a flight with its timer, whether or not the timer was in
\* the wheel.
LEMMA HandleTimeoutArms ==
    ASSUME NEW s \in Sessions, s.done => ~s.timer, s.dtls # "none",
           NEW o \in HandleTimeout(s)
    PROVE  Sound(o.s) \/ (o.s = s /\ (s.done \/ s.flight = 0))
<1>1. CASE s.done \/ s.flight = 0
  BY <1>1 DEF HandleTimeout, Outcome
<1>2. CASE ~(s.done \/ s.flight = 0)
  <2> DEFINE t == [s EXCEPT !.flight = OnSslDtlsTimer(@)]
             u == [s EXCEPT !.dtls = "FAILED"]
  <2>1. t \in Sessions /\ ~t.done /\ t.dtls # "none"
    BY <1>2 DEF OnSslDtlsTimer, Sessions
  <2>2. Sound(u)
    BY <1>2 DEF Sound, Sessions, Armed
  <2>3. o.s \in {ArmTimer(t), u}
    BY <1>2 DEF HandleTimeout, SendBioData, Outcome
  <2> HIDE DEF t, u
  <2>4. Sound(ArmTimer(t))
    BY <2>1, Zenon DEF ArmTimer, Sound, Sessions, Armed
  <2> QED
    BY <2>2, <2>3, <2>4
<1> QED
  BY <1>1, <1>2

\* UpdateTimeout leaves a flight with its timer.
LEMMA UpdateTimeoutArms ==
    ASSUME NEW s \in Sessions, s.done => ~s.timer /\ s.flight = 0, s.dtls # "none",
           NEW o \in UpdateTimeout(s)
    PROVE  Sound(o.s)
<1>1. CASE o \in HandleTimeout(s)
  <2>1. s.done \/ s.flight = 0 => Sound(s)
    BY DEF Sound, Armed, Sessions
  <2> QED
    BY <1>1, <2>1, HandleTimeoutArms
<1>2. CASE ~(s.done \/ s.flight = 0) /\ o.s = ArmTimer(s)
  BY <1>2, Zenon DEF ArmTimer, Sound, Sessions, Armed
<1> QED
  BY <1>1, <1>2 DEF UpdateTimeout, Outcome

\* ProcessDtlsPacket leaves a flight with its timer, a done handshake with none.
LEMMA DtlsArms ==
    ASSUME NEW s, Sound(s), NEW o \in ProcessDtlsPacket(s)
    PROVE  Sound(o.s)
<1>1. CASE ~IsRunning(s)
  BY <1>1 DEF ProcessDtlsPacket, Outcome
<1>2. CASE IsRunning(s)
  <2> DEFINE t(r) == [s EXCEPT !.done = r.done, !.flight = r.flight]
             after(r) == IF r.done /\ ~s.done
                         THEN {Outcome(u, FALSE, 0) : u \in HandshakeDone(t(r))}
                         ELSE IF r.bad
                         THEN {Outcome([t(r) EXCEPT !.dtls = IF @ = "CONNECTED" THEN "CLOSED"
                                                             ELSE "FAILED"], FALSE, 0)}
                         ELSE UpdateTimeout(t(r))
  <2>1. PICK r \in SslRead(s) : \E q \in after(r) : o = SendBioData(q, r.sends)
    BY <1>2, Zenon DEF ProcessDtlsPacket
  <2>2. PICK q \in after(r) : o = SendBioData(q, r.sends)
    BY <2>1, Zenon
  <2>3. s \in Sessions /\ Armed(s)
    BY DEF Sound
  <2>4. /\ r.done \in BOOLEAN /\ r.flight \in Nat /\ (r.done => r.flight = 0)
        /\ s.done => r.done
    <3>1. s.done \in BOOLEAN /\ s.flight \in Nat
      BY <2>3 DEF Sessions
    <3>2. CASE s.done
      <4>1. SslRead(s) = [done : {s.done}, flight : {0}, bad : BOOLEAN, sends : {0, 1}]
        BY <3>2, Zenon DEF SslRead
      <4>2. r.done = s.done /\ r.flight = 0
        BY <2>1, <4>1
      <4> QED
        BY <3>1, <3>2, <4>2
    <3>3. CASE ~s.done
      <4>1. CASE r \in [done : {s.done}, flight : {s.flight, 100, 0}, bad : BOOLEAN, sends : {0, 1}]
        BY <3>1, <3>3, <4>1
      <4>2. CASE r \in [done : {TRUE}, flight : {0}, bad : {FALSE}, sends : {1}]
        <5>1. r.done = TRUE /\ r.flight = 0
          BY <4>2, Zenon
        <5>2. r.flight \in Nat
          BY <5>1
        <5> QED
          BY <3>3, <5>1, <5>2, Zenon
      <4>3. SslRead(s) = [done : {s.done}, flight : {s.flight, 100, 0}, bad : BOOLEAN,
                          sends : {0, 1}]
                         \cup [done : {TRUE}, flight : {0}, bad : {FALSE}, sends : {1}]
        BY <3>3 DEF SslRead
      <4> QED
        BY <2>1, <4>1, <4>2, <4>3, Zenon
    <3> QED
      BY <3>2, <3>3
  <2>5. t(r) \in Sessions /\ t(r).done = r.done /\ t(r).flight = r.flight
        /\ t(r).timer = s.timer /\ t(r).dtls # "none"
    BY <1>2, <2>3, <2>4, Zenon DEF Sessions, IsRunning
  <2>6. CASE r.done /\ ~s.done
    <3>1. PICK u \in HandshakeDone(t(r)) : q = Outcome(u, FALSE, 0)
      BY <2>2, <2>6, Zenon
    <3> HIDE DEF t
    <3>2. Sound(u)
      <4> DEFINE v == t(r)
      <4>1. v \in Sessions /\ v.flight = 0 /\ v.dtls # "none"
        BY <2>4, <2>5, <2>6
      <4>2. u = [v EXCEPT !.dtls = "CONNECTED", !.timer = FALSE] \/ u = [v EXCEPT !.timer = FALSE]
        BY <3>1 DEF HandshakeDone
      <4> HIDE DEF v
      <4>3. u \in Sessions /\ ~u.timer /\ u.flight = 0
        BY <4>1, <4>2, Zenon DEF Sessions
      <4> QED
        BY <4>3 DEF Sound, Armed
    <3> QED
      BY <2>2, <3>1, <3>2 DEF SendBioData, Outcome
  <2>7. CASE ~(r.done /\ ~s.done) /\ r.bad
    <3> DEFINE u == [t(r) EXCEPT !.dtls = IF @ = "CONNECTED" THEN "CLOSED" ELSE "FAILED"]
    <3>1. q = Outcome(u, FALSE, 0)
      BY <2>2, <2>7, Zenon
    <3>2. Sound(u)
      <4> HIDE DEF t
      <4> QED
        BY <2>3, <2>4, <2>5, <2>7 DEF Sound, Armed, Sessions
    <3> HIDE DEF u
    <3> QED
      BY <2>2, <3>1, <3>2 DEF SendBioData, Outcome
  <2>8. CASE ~(r.done /\ ~s.done) /\ ~r.bad
    <3>1. q \in UpdateTimeout(t(r))
      BY <2>2, <2>8, Zenon
    <3> HIDE DEF t, after
    <3>2. t(r).done => ~t(r).timer /\ t(r).flight = 0
      BY <2>3, <2>4, <2>5, <2>8 DEF Armed
    <3>3. Sound(q.s)
      BY <2>5, <3>1, <3>2, UpdateTimeoutArms
    <3>4. o.s = q.s
      <4>1. q \in {SendBioData(Outcome(ArmTimer([t(r) EXCEPT !.flight = OnSslDtlsTimer(@)]),
                                       FALSE, 0), 1),
                   Outcome([t(r) EXCEPT !.dtls = "FAILED"], FALSE, 0),
                   Outcome(t(r), FALSE, 0), Outcome(ArmTimer(t(r)), FALSE, 0)}
        BY <3>1, Zenon DEF UpdateTimeout, HandleTimeout
      <4> QED
        BY <2>2, <4>1 DEF SendBioData, Outcome
    <3> QED
      BY <3>3, <3>4
  <2> QED
    BY <2>6, <2>7, <2>8
<1> QED
  BY <1>1, <1>2

\* So does ProcessPacket, of any packet.
LEMMA PacketArms ==
    ASSUME NEW s, Sound(s), NEW k, NEW o \in ProcessPacket(s, k)
    PROVE  Sound(o.s)
<1>1. s \in Sessions /\ Armed(s)
  BY DEF Sound
<1>2. Sound(Initialize(s))
  <2>1. CASE s.dtls = "none"
    BY <1>1, <2>1 DEF Initialize, Sound, Armed, Sessions
  <2>2. CASE s.dtls # "none"
    BY <2>2 DEF Initialize
  <2> QED
    BY <2>1, <2>2
<1>3. CASE IsStun(k)
  <2>1. o = ProcessStunPacket(s, k)
    BY <1>3 DEF ProcessPacket
  <2>2. Sound([s EXCEPT !.ice = s.ice \/ k = "nominate"])
    BY <1>1, Zenon DEF Sound, Armed, Sessions
  <2> QED
    BY <2>1, <2>2 DEF ProcessStunPacket, Outcome
<1>4. CASE ~IsStun(k) /\ o \in ProcessDtlsPacket(Initialize(s))
  BY <1>2, <1>4, DtlsArms
<1>5. CASE ~IsStun(k) /\ o.s \in {s, Initialize(s)}
  BY <1>2, <1>5
<1>6. CASE ~IsStun(k) /\ o \in ProcessMedia(Initialize(s), k)
  <2> DEFINE t == Initialize(s)
  <2>1. t \in Sessions /\ Armed(t)
    BY <1>2 DEF Sound
  <2> HIDE DEF t
  <2>2. Sound([t EXCEPT !.established = TRUE])
    BY <2>1, Zenon DEF Sound, Armed, Sessions
  <2>3. PICK q \in Establish(t) :
           o \in (IF q.err THEN {q}
                  ELSE CASE k = "rtp" -> Crypt(q) \cup {[q EXCEPT !.sends = @ + 1]}
                         [] k = "rtcp" -> Crypt(q)
                         [] OTHER -> {q})
    BY <1>6 DEF ProcessMedia, t
  <2>4. o \in {q, [q EXCEPT !.err = TRUE], [q EXCEPT !.sends = @ + 1]}
    BY <2>3 DEF Crypt
  <2>5. q \in {Outcome(t, FALSE, 0), Outcome(t, TRUE, 0),
               Outcome([t EXCEPT !.established = TRUE], FALSE, 1)}
    BY <2>3, Zenon DEF Establish
  <2>6. o.s \in {t, [t EXCEPT !.established = TRUE]}
    BY <2>4, <2>5 DEF Outcome
  <2> QED
    BY <1>2, <2>2, <2>6, Zenon DEF t
<1> QED
  BY <1>3, <1>4, <1>5, <1>6 DEF ProcessPacket, Outcome

\* So does the timer itself.
LEMMA DtlsTimerArms ==
    ASSUME NEW s, Sound(s), s.timer, NEW o \in OnDtlsTimer(s)
    PROVE  Sound(o.s)
<1>1. s \in Sessions /\ Armed(s)
  BY DEF Sound
<1> DEFINE t == [s EXCEPT !.timer = FALSE]
           u == [s EXCEPT !.timer = FALSE, !.early = TRUE]
<1>2. t \in Sessions /\ ~t.timer /\ ~t.done /\ t.flight \in Nat /\ t.dtls # "none"
  BY <1>1, Zenon DEF Sessions, Armed
<1>3. Sound(u)
  BY <1>1, Zenon DEF Sound, Sessions, Armed
<1>4. o \in HandleTimeout(t) \/ o.s = u
  BY DEF OnDtlsTimer, Outcome
<1> HIDE DEF t, u
<1>5. t.flight = 0 => Sound(t)
  BY <1>2 DEF Sound, Armed
<1> QED
  BY <1>2, <1>3, <1>4, <1>5, HandleTimeoutArms


-----------------------------------------------------------------------------
(* Sequences, and the packets of peers.                                    *)

\* How often something is in a sequence.
Count(s, e) == Cardinality(At(s, e))

\* How often is a number.
LEMMA CountType ==
    ASSUME NEW S, NEW s \in Seq(S), NEW e
    PROVE  IsFiniteSet(At(s, e)) /\ Count(s, e) \in Nat
<1>1. At(s, e) \subseteq 1..Len(s) /\ Len(s) \in Int
  BY DEF At
<1>2. IsFiniteSet(1..Len(s))
  BY <1>1, FS_Interval
<1> QED
  BY <1>1, <1>2, FS_Subset, FS_CardinalityType DEF Count

\* Nothing twice, and where it is.
LEMMA CountZero ==
    ASSUME NEW S, NEW s \in Seq(S), NEW e
    PROVE  Count(s, e) = 0 <=> \A i \in 1..Len(s) : s[i] # e
<1>1. Count(s, e) = 0 <=> At(s, e) = {}
  BY CountType, FS_EmptySet DEF Count
<1>2. DOMAIN s = 1..Len(s)
  OBVIOUS
<1> QED
  BY <1>1, <1>2 DEF At

\* One more at the end.
LEMMA CountAppend ==
    ASSUME NEW S, NEW s \in Seq(S), NEW x \in S, NEW e
    PROVE  Count(Append(s, x), e) = Count(s, e) + (IF x = e THEN 1 ELSE 0)
<1>1. DOMAIN Append(s, x) = 1..(Len(s) + 1) /\ DOMAIN s = 1..Len(s) /\ Len(s) \in Nat
      /\ Append(s, x)[Len(s) + 1] = x
      /\ \A i \in 1..Len(s) : Append(s, x)[i] = s[i]
  OBVIOUS
<1>2. At(Append(s, x), e) = IF x = e THEN At(s, e) \cup {Len(s) + 1} ELSE At(s, e)
  BY <1>1 DEF At
<1>3. Len(s) + 1 \notin At(s, e)
  BY <1>1 DEF At
<1>4. Cardinality(At(s, e) \cup {Len(s) + 1}) = Cardinality(At(s, e)) + 1
  BY <1>3, CountType, FS_AddElement, Zenon
<1> QED
  BY <1>2, <1>4, CountType DEF Count

\* One less at the head.
LEMMA CountTail ==
    ASSUME NEW S, NEW s \in Seq(S), s # <<>>, NEW e
    PROVE  Count(s, e) = Count(Tail(s), e) + (IF Head(s) = e THEN 1 ELSE 0)
<1> DEFINE t == Tail(s)
           f == [i \in At(t, e) |-> i + 1]
<1>1. Len(s) \in Nat \ {0} /\ DOMAIN s = 1..Len(s) /\ t \in Seq(S) /\ Len(t) = Len(s) - 1
      /\ DOMAIN t = 1..(Len(s) - 1) /\ Head(s) = s[1]
      /\ \A i \in 1..(Len(s) - 1) : t[i] = s[i + 1]
  OBVIOUS
<1> HIDE DEF t
<1>2. \A i : i \in At(t, e) <=> i \in 1..(Len(s) - 1) /\ s[i + 1] = e
  BY <1>1 DEF At
<1>3. \A i : i \in At(s, e) \ {1} <=> i \in 2..Len(s) /\ s[i] = e
  BY <1>1 DEF At
<1>4. \A j \in At(s, e) \ {1} : j - 1 \in At(t, e) /\ j = (j - 1) + 1
  BY <1>1, <1>2, <1>3
<1>5. \A i \in At(t, e) : i + 1 \in At(s, e) \ {1}
  BY <1>1, <1>2, <1>3
<1>6. \A i, j \in At(t, e) : i + 1 = j + 1 => i = j
  BY <1>2
<1>7. f \in Bijection(At(t, e), At(s, e) \ {1})
  BY <1>4, <1>5, <1>6 DEF Bijection, Injection, IsInjective, Surjection
<1>8. Cardinality(At(s, e) \ {1}) = Cardinality(At(t, e))
  BY <1>1, <1>7, CountType, FS_Bijection DEF ExistsBijection
<1>9. 1 \in At(s, e) <=> Head(s) = e
  BY <1>1 DEF At
<1>10. Cardinality(At(s, e) \ {1}) = IF 1 \in At(s, e) THEN Cardinality(At(s, e)) - 1
                                    ELSE Cardinality(At(s, e))
  BY CountType, FS_RemoveElement, Zenon
<1>11. Cardinality(At(s, e)) \in Nat
  BY CountType DEF Count
<1> QED
  BY <1>8, <1>9, <1>10, <1>11 DEF Count, t

\* An entry in front of a sequence is its head, and the sequence its tail.
LEMMA PushFront ==
    ASSUME NEW S, NEW s \in Seq(S), NEW x \in S, NEW t, t = <<x>> \o s
    PROVE  t \in Seq(S) /\ t # <<>> /\ Head(t) = x /\ Tail(t) = s
<1>1. t \in Seq(S) /\ t # <<>> /\ Head(t) = x
  OBVIOUS
<1>2. Tail(t) = s
  <2>1. Len(Tail(t)) = Len(s) /\ Tail(t) \in Seq(S)
    BY <1>1
  <2>2. \A i \in 1..Len(s) : Tail(t)[i] = s[i]
    BY <1>1, <2>1
  <2> QED
    BY <2>1, <2>2, SeqEqual
<1> QED
  BY <1>1, <1>2

\* The packets of some peers, one by one.
LEMMA PacketIn ==
    ASSUME NEW f \in [Peers -> Seq(Kinds)], NEW S \in SUBSET Peers, NEW x
    PROVE  x \in Packets(f, S) <=> \E p \in S : \E i \in 1..Len(f[p]) : x = <<p, i>>
<1>1. \A p \in S : DOMAIN f[p] = 1..Len(f[p])
  OBVIOUS
<1>2. x \in Packets(f, S) <=> \E p \in S : x \in {p} \X DOMAIN f[p]
  BY DEF Packets
<1>3. \A p \in S : x \in {p} \X DOMAIN f[p] <=> \E i \in 1..Len(f[p]) : x = <<p, i>>
  BY <1>1
<1> QED
  BY <1>2, <1>3

\* The positions of a sequence are as many as it is long.
LEMMA FirstNumbers ==
    ASSUME NEW n \in Nat
    PROVE  IsFiniteSet(1..n) /\ Cardinality(1..n) = n
<1>1. 1 \in Int /\ n \in Int
  OBVIOUS
<1>2. IsFiniteSet(1..n) /\ Cardinality(1..n) = IF 1 > n THEN 0 ELSE n - 1 + 1
  BY <1>1, FS_Interval, Zenon
<1>3. (IF 1 > n THEN 0 ELSE n - 1 + 1) = n
  OBVIOUS
<1> QED
  BY <1>2, <1>3

\* The packets of one peer are as many as its packets_ is long.
LEMMA PacketsOfOne ==
    ASSUME NEW p, NEW s \in Seq(Kinds)
    PROVE  IsFiniteSet({p} \X DOMAIN s) /\ Cardinality({p} \X DOMAIN s) = Len(s)
<1>1. DOMAIN s = 1..Len(s) /\ Len(s) \in Nat /\ 1 \in Int /\ Len(s) \in Int
  OBVIOUS
<1>2. IsFiniteSet(1..Len(s)) /\ Cardinality(1..Len(s)) = Len(s)
  BY <1>1, FirstNumbers, Zenon
<1>3. IsFiniteSet({p}) /\ Cardinality({p}) = 1
  BY FS_Singleton, Zenon
<1>4. IsFiniteSet({p} \X DOMAIN s) /\ Cardinality({p} \X DOMAIN s) = 1 * Len(s)
  BY <1>1, <1>2, <1>3, FS_Product
<1>5. \A n \in Nat : 1 * n = n
  OBVIOUS
<1> QED
  BY <1>1, <1>4, <1>5, Zenon

\* The packets of any peers are finitely many.
LEMMA PacketsFinite ==
    ASSUME NEW f \in [Peers -> Seq(Kinds)], NEW S \in SUBSET Peers
    PROVE  IsFiniteSet(Packets(f, S)) /\ Cardinality(Packets(f, S)) \in Nat
<1> DEFINE T == {{p} \X DOMAIN f[p] : p \in S}
           g == [p \in S |-> {p} \X DOMAIN f[p]]
<1>1. IsFiniteSet(S)
  BY MediaAssumption, FS_Subset
<1>2. g \in Surjection(S, T)
  BY Zenon DEF Surjection
<1>3. IsFiniteSet(T)
  <2> HIDE DEF T, g
  <2> QED
    BY <1>1, <1>2, FS_Surjection
<1>4. \A t \in T : IsFiniteSet(t)
  BY PacketsOfOne, Zenon
<1>5. IsFiniteSet(UNION T)
  <2> HIDE DEF T
  <2> QED
    BY <1>3, <1>4, FS_UNION
<1> QED
  BY <1>5, FS_CardinalityType DEF Packets

\* Other packets_ of one peer.
LEMMA PacketsSet ==
    ASSUME NEW f \in [Peers -> Seq(Kinds)], NEW p \in Peers, NEW s \in Seq(Kinds)
    PROVE  Cardinality(Packets([f EXCEPT ![p] = s], Peers)) + Len(f[p])
              = Cardinality(Packets(f, Peers)) + Len(s)
<1> DEFINE others == Packets(f, Peers \ {p})
<1>1. ASSUME NEW g \in [Peers -> Seq(Kinds)], \A q \in Peers \ {p} : g[q] = f[q]
      PROVE  Cardinality(Packets(g, Peers)) = Cardinality(others) + Len(g[p])
  <2> DEFINE own == {p} \X DOMAIN g[p]
  <2>1. Packets(g, Peers) = others \cup own
    BY <1>1 DEF Packets
  <2>2. others \cap own = {}
    BY DEF Packets
  <2>3. IsFiniteSet(own) /\ Cardinality(own) = Len(g[p]) /\ Len(g[p]) \in Nat
    <3>1. PICK h \in Seq(Kinds) : h = g[p]
      OBVIOUS
    <3>2. IsFiniteSet({p} \X DOMAIN h) /\ Cardinality({p} \X DOMAIN h) = Len(h)
      BY PacketsOfOne, Zenon
    <3>3. Len(h) \in Nat
      OBVIOUS
    <3> QED
      BY <3>1, <3>2, <3>3
  <2>4. IsFiniteSet(others) /\ Cardinality(others) \in Nat
    BY PacketsFinite, Zenon
  <2> HIDE DEF others, own
  <2>5. Cardinality(others \cup own)
           = Cardinality(others) + Cardinality(own) - Cardinality(others \cap own)
    BY <2>3, <2>4, FS_Union, Zenon
  <2>6. Cardinality(others \cap own) = 0
    BY <2>2, FS_EmptySet, Zenon
  <2>7. Cardinality(Packets(g, Peers)) = Cardinality(others) + Len(g[p]) - 0
    BY <2>1, <2>3, <2>5, <2>6, Zenon
  <2> QED
    BY <2>3, <2>4, <2>7
<1>2. [f EXCEPT ![p] = s] \in [Peers -> Seq(Kinds)] /\ [f EXCEPT ![p] = s][p] = s
      /\ \A q \in Peers \ {p} : [f EXCEPT ![p] = s][q] = f[q]
  OBVIOUS
<1>3. Cardinality(others) \in Nat
  BY PacketsFinite
<1> HIDE DEF others
<1>4. Cardinality(Packets([f EXCEPT ![p] = s], Peers)) = Cardinality(others) + Len(s)
  BY <1>1, <1>2, Zenon
<1>5. Cardinality(Packets(f, Peers)) = Cardinality(others) + Len(f[p])
  BY <1>1
<1> QED
  BY <1>3, <1>4, <1>5

\* x is in a sequence before every y.
Before(s, x, y) == \A i \in 1..Len(s) : s[i] = y => \E j \in 1..(i - 1) : s[j] = x

\* What is in a sequence is at some place in it.
LEMMA InRange ==
    ASSUME NEW S, NEW s \in Seq(S), NEW x
    PROVE  x \in Range(s) <=> \E i \in 1..Len(s) : s[i] = x
<1>1. DOMAIN s = 1..Len(s)
  OBVIOUS
<1> QED
  BY <1>1 DEF Range

\* What an entry at the end leaves in the queue, and in which order.
LEMMA AfterPush ==
    ASSUME NEW S, NEW s \in Seq(S), NEW z \in S, NEW x, NEW y
    PROVE  /\ z \in Range(Append(s, z))
           /\ x \in Range(s) => x \in Range(Append(s, z))
           /\ Before(s, x, y) /\ (z # y \/ x \in Range(s)) => Before(Append(s, z), x, y)
<1> DEFINE t == Append(s, z)
<1>1. t \in Seq(S) /\ Len(t) = Len(s) + 1 /\ Len(s) \in Nat /\ t[Len(s) + 1] = z
      /\ \A i \in 1..Len(s) : t[i] = s[i]
  OBVIOUS
<1> HIDE DEF t
<1>2. z \in Range(t) /\ (x \in Range(s) => x \in Range(t))
  BY <1>1, InRange
<1>3. ASSUME Before(s, x, y), z # y \/ x \in Range(s), NEW i \in 1..Len(t), t[i] = y
      PROVE  \E j \in 1..(i - 1) : t[j] = x
  <2>1. CASE i \in 1..Len(s)
    <3>1. PICK j \in 1..(i - 1) : s[j] = x
      BY <1>1, <1>3, <2>1 DEF Before
    <3>2. j \in 1..Len(s)
      BY <1>1, <2>1
    <3> QED
      BY <1>1, <3>1, <3>2
  <2>2. CASE i = Len(s) + 1
    <3>1. PICK j \in 1..Len(s) : s[j] = x
      BY <1>1, <1>3, <2>2, InRange
    <3>2. j \in 1..(i - 1)
      BY <1>1, <2>2
    <3> QED
      BY <1>1, <3>1, <3>2
  <2> QED
    BY <1>1, <2>1, <2>2
<1> QED
  BY <1>2, <1>3 DEF t, Before

\* What the removal of another's entry leaves.
LEMMA AfterPop ==
    ASSUME NEW S, NEW s \in Seq(S), s # <<>>, NEW x, NEW y, Head(s) # x
    PROVE  /\ x \in Range(s) => x \in Range(Tail(s))
           /\ Before(s, x, y) => Before(Tail(s), x, y)
<1> DEFINE t == Tail(s)
<1>1. t \in Seq(S) /\ Len(t) = Len(s) - 1 /\ Len(s) \in Nat \ {0} /\ s[1] # x
      /\ \A i \in 1..(Len(s) - 1) : t[i] = s[i + 1]
  OBVIOUS
<1> HIDE DEF t
<1>2. ASSUME NEW n \in 0..Len(s), NEW j \in 1..n, s[j] = x
      PROVE  \E k \in 1..(n - 1) : t[k] = x
  <2>1. j # 1 /\ j - 1 \in 1..(n - 1) /\ j - 1 \in 1..(Len(s) - 1) /\ (j - 1) + 1 = j
    BY <1>1, <1>2
  <2> QED
    BY <1>1, <1>2, <2>1, Zenon
<1>3. x \in Range(s) => x \in Range(t)
  <2> SUFFICES ASSUME x \in Range(s) PROVE x \in Range(t)
    OBVIOUS
  <2>1. PICK j \in 1..Len(s) : s[j] = x
    BY InRange
  <2>2. Len(s) \in 0..Len(s)
    BY <1>1
  <2>3. \E k \in 1..(Len(s) - 1) : t[k] = x
    BY <1>2, <2>1, <2>2
  <2> QED
    BY <1>1, <2>3, InRange
<1>4. ASSUME Before(s, x, y), NEW i \in 1..Len(t), t[i] = y
      PROVE  \E j \in 1..(i - 1) : t[j] = x
  <2>1. i \in 1..(Len(s) - 1) /\ i + 1 \in 1..Len(s) /\ i \in 0..Len(s) /\ (i + 1) - 1 = i
    BY <1>1
  <2>2. s[i + 1] = y
    BY <1>1, <1>4, <2>1
  <2>3. PICK j \in 1..i : s[j] = x
    BY <1>4, <2>1, <2>2 DEF Before
  <2> QED
    BY <1>2, <2>1, <2>3
<1> QED
  BY <1>3, <1>4 DEF t, Before

\* What another entry at the head leaves.
LEMMA AfterSwap ==
    ASSUME NEW S, NEW s \in Seq(S), s # <<>>, NEW z \in S, NEW x, NEW y, Head(s) # x, z # y
    PROVE  /\ x \in Range(s) => x \in Range(<<z>> \o Tail(s))
           /\ Before(s, x, y) => Before(<<z>> \o Tail(s), x, y)
<1> DEFINE t == <<z>> \o Tail(s)
<1>1. t \in Seq(S) /\ Len(t) = Len(s) /\ Len(s) \in Nat /\ s[1] # x
      /\ t[1] = z /\ \A i \in 2..Len(s) : t[i] = s[i]
  OBVIOUS
<1> HIDE DEF t
<1>2. x \in Range(s) => x \in Range(t)
  <2> SUFFICES ASSUME x \in Range(s) PROVE x \in Range(t)
    OBVIOUS
  <2>1. PICK j \in 1..Len(s) : s[j] = x
    BY InRange
  <2>2. j \in 2..Len(s)
    BY <1>1, <2>1
  <2> QED
    BY <1>1, <2>1, <2>2, InRange
<1>3. ASSUME Before(s, x, y), NEW i \in 1..Len(t), t[i] = y
      PROVE  \E j \in 1..(i - 1) : t[j] = x
  <2>1. i \in 2..Len(s) /\ i \in 1..Len(s)
    BY <1>1, <1>3
  <2>2. s[i] = y
    BY <1>1, <1>3, <2>1
  <2>3. PICK j \in 1..(i - 1) : s[j] = x
    BY <1>3, <2>1, <2>2 DEF Before
  <2>4. j \in 2..Len(s)
    BY <1>1, <2>1, <2>3
  <2> QED
    BY <1>1, <2>3, <2>4
<1> QED
  BY <1>2, <1>3 DEF t, Before

\* Routine r gets the peer v: q has one routine more or less, or as many as it had.
RoutineMoves(r, v, q) ==
    /\ Cardinality(RoutineOf(q)') \in Nat /\ Cardinality(RoutineOf(q)) \in Nat
    /\ Cardinality(RoutineOf(q)') + (IF routine[r] = q THEN 1 ELSE 0)
          = Cardinality(RoutineOf(q)) + (IF v = q THEN 1 ELSE 0)

\* One routine serves another peer, or none.
LEMMA RoutineSet ==
    ASSUME routine \in [Routines -> Peers \cup {None}], NEW r \in Routines,
           NEW v \in Peers \cup {None}, routine' = [routine EXCEPT ![r] = v], NEW q
    PROVE  RoutineMoves(r, v, q)
<1> DEFINE others == {i \in Routines \ {r} : routine[i] = q}
<1>1. RoutineOf(q)' = (IF v = q THEN others \cup {r} ELSE others)
  BY DEF RoutineOf
<1>2. RoutineOf(q) = (IF routine[r] = q THEN others \cup {r} ELSE others)
  BY DEF RoutineOf
<1>3. others \in SUBSET Routines /\ r \notin others
  OBVIOUS
<1> HIDE DEF others
<1>4. IsFiniteSet(others) /\ Cardinality(others) \in Nat
  BY <1>3, MediaAssumption, FS_Subset, FS_CardinalityType, Zenon
<1>5. Cardinality(others \cup {r}) = Cardinality(others) + 1
  BY <1>3, <1>4, FS_AddElement, Zenon
<1> QED
  BY <1>1, <1>2, <1>4, <1>5 DEF RoutineMoves

-----------------------------------------------------------------------------
(* The table of peers.                                                     *)

\* What the table connections_ and the peers know of each other.  A peer that is
\* gone is no entry and has no address; a routine that runs serves a peer.
Table ==
    /\ connections \in [Keys -> Peers \cup {None, Expired}]
    /\ ufrag \in [Peers -> Ufrags \cup {None}]
    /\ addr \in [Peers -> Addrs \cup {None}]
    /\ alive \subseteq Peers
    /\ routine \in [Routines -> Peers \cup {None}] /\ tasks \in Seq(Peers)
    /\ running \in Routines => routine[running] \in Peers
    /\ \A p \in alive : ufrag[p] \in Ufrags
    /\ \A p \in Peers \ alive :
          addr[p] = None /\ \A k \in Keys : connections[k] # p

Inv == Table /\ PeerReachable

entries == <<connections, ufrag, addr, alive>>

\* Most steps touch neither the table nor a routine.
LEMMA EntriesKept ==
    ASSUME Inv, UNCHANGED entries,
           routine' \in [Routines -> Peers \cup {None}], tasks' \in Seq(Peers),
           running' \in Routines => routine'[running'] \in Peers
    PROVE  Inv'
<1>1. Table'
  BY DEF Inv, Table, entries
<1>2. PeerReachable'
  BY DEF Inv, PeerReachable, entries
<1> QED
  BY <1>1, <1>2 DEF Inv

\* The destruction of a peer takes its own key, and no other's.
LEMMA DeleteStep ==
    ASSUME Inv, NEW r \in Routines, routine[r] \in Peers, EndMedia(r)
    PROVE  Inv'
<1> DEFINE p == routine[r]
<1>1. /\ connections' = [k \in Keys |-> IF k = addr[p] THEN None
                                        ELSE IF connections[k] = p THEN Expired
                                        ELSE connections[k]]
      /\ alive' = alive \ {p}
      /\ ufrag' = [ufrag EXCEPT ![p] = None] /\ addr' = [addr EXCEPT ![p] = None]
  BY Zenon DEF EndMedia, PeerConnectionDelete
<1>2. /\ routine' = [routine EXCEPT ![r] = None] /\ running' = Main /\ tasks' = tasks
  BY DEF EndMedia
<1>3. routine' \in [Routines -> Peers \cup {None}] /\ running' \notin Routines
      /\ tasks' \in Seq(Peers)
  BY <1>2, MediaAssumption DEF Inv, Table, Main
<1>4. /\ connections' \in [Keys -> Peers \cup {None, Expired}]
      /\ ufrag' \in [Peers -> Ufrags \cup {None}]
      /\ addr' \in [Peers -> Addrs \cup {None}]
      /\ alive' \subseteq Peers
  BY <1>1 DEF Inv, Table
<1>5. \A k \in Keys : connections'[k] # p
  BY <1>1, MediaAssumption DEF Inv, Table
<1>6. \A q \in Peers \ {p} : ufrag'[q] = ufrag[q] /\ addr'[q] = addr[q]
  BY <1>1 DEF Inv, Table
<1>7. ASSUME NEW q \in Peers, q # p, NEW k \in Keys
      PROVE  (connections'[k] = q) <=> (connections[k] = q)
  <2>1. CASE k = addr[p]
    <3>1. p \in alive
      BY <2>1, MediaAssumption DEF Inv, Table, Keys
    <3>2. connections[k] = p
      BY <2>1, <3>1, MediaAssumption DEF Inv, PeerReachable, Keys
    <3> QED
      BY <1>1, <1>7, <2>1, <3>2, MediaAssumption
  <2>2. CASE k # addr[p]
    BY <1>1, <1>7, <2>2, MediaAssumption
  <2> QED
    BY <2>1, <2>2
<1>8. addr'[p] = None
  BY <1>1 DEF Inv, Table
<1>9. Table'
  <2>1. \A q \in alive' : ufrag'[q] \in Ufrags
    BY <1>1, <1>6 DEF Inv, Table
  <2>2. ASSUME NEW q \in Peers \ alive'
        PROVE  addr'[q] = None /\ \A k \in Keys : connections'[k] # q
    BY <1>1, <1>5, <1>6, <1>7, <1>8 DEF Inv, Table
  <2> QED
    BY <1>3, <1>4, <2>1, <2>2 DEF Table
<1>10. PeerReachable'
  <2> SUFFICES ASSUME NEW q \in alive'
               PROVE  {k \in Keys : connections'[k] = q}
                         = {IF addr'[q] = None THEN ufrag'[q] ELSE addr'[q]}
    BY DEF PeerReachable, Keys
  <2>1. q \in alive /\ q \in Peers /\ q # p
    BY <1>1 DEF Inv, Table
  <2>2. {k \in Keys : connections'[k] = q} = {k \in Keys : connections[k] = q}
    BY <2>1, <1>7
  <2>3. {k \in Keys : connections[k] = q}
           = {IF addr[q] = None THEN ufrag[q] ELSE addr[q]}
    BY <2>1 DEF Inv, PeerReachable
  <2> QED
    BY <2>1, <2>2, <2>3, <1>6
<1> QED
  BY <1>9, <1>10 DEF Inv

\* A new peer is found under its user name, which was free.
LEMMA PubStep ==
    ASSUME Inv, NEW u \in Ufrags, NEW p \in Peers, Pub(u, p)
    PROVE  Inv'
<1>1. CASE connections[u] # None
  <2>1. UNCHANGED <<entries, routine, tasks, running>>
    BY <1>1, Zenon DEF Pub, Dies, entries, peers, pool, loop
  <2> QED
    BY <2>1, EntriesKept DEF Inv, Table
<1>2. CASE connections[u] = None
  <2>1. /\ connections' = [connections EXCEPT ![u] = p] /\ p \notin alive
        /\ alive' = alive \cup {p} /\ ufrag' = [ufrag EXCEPT ![p] = u]
        /\ UNCHANGED <<addr, routine, tasks, running>>
    BY <1>2 DEF Pub, pool
  <2>2. addr[p] = None /\ \A k \in Keys : connections[k] # p
    BY <2>1 DEF Inv, Table
  <2>3. u \in Keys /\ connections'[u] = p /\ ufrag'[p] = u
        /\ \A k \in Keys \ {u} : connections'[k] = connections[k]
        /\ \A q \in Peers \ {p} : ufrag'[q] = ufrag[q]
    BY <2>1 DEF Inv, Table, Keys
  <2>4. Table'
    <3>1. /\ connections' \in [Keys -> Peers \cup {None, Expired}]
          /\ ufrag' \in [Peers -> Ufrags \cup {None}] /\ alive' \subseteq Peers
      BY <2>1, Zenon DEF Inv, Table
    <3>2. \A q \in alive' : ufrag'[q] \in Ufrags
      BY <2>1, <2>3 DEF Inv, Table
    <3>3. ASSUME NEW q \in Peers \ alive'
          PROVE  addr'[q] = None /\ \A k \in Keys : connections'[k] # q
      BY <2>1, <2>3 DEF Inv, Table
    <3> QED
      BY <2>1, <3>1, <3>2, <3>3 DEF Inv, Table
  <2>5. PeerReachable'
    <3> SUFFICES ASSUME NEW q \in alive'
                 PROVE  {k \in Keys : connections'[k] = q}
                           = {IF addr'[q] = None THEN ufrag'[q] ELSE addr'[q]}
      BY DEF PeerReachable, Keys
    <3>1. CASE q = p
      <4>1. {k \in Keys : connections'[k] = p} = {u}
        BY <2>2, <2>3
      <4> QED
        BY <3>1, <4>1, <2>1, <2>2, <2>3
    <3>2. CASE q # p
      <4>1. q \in alive /\ q \in Peers /\ addr'[q] = addr[q] /\ ufrag'[q] = ufrag[q]
        BY <3>2, <2>1, <2>3 DEF Inv, Table
      <4>2. {k \in Keys : connections'[k] = q} = {k \in Keys : connections[k] = q}
        BY <1>2, <3>2, <4>1, <2>3, MediaAssumption, Zenon
      <4>3. {k \in Keys : connections[k] = q}
               = {IF addr[q] = None THEN ufrag[q] ELSE addr[q]}
        BY <4>1, Zenon DEF Inv, PeerReachable
      <4> QED
        BY <4>1, <4>2, <4>3
    <3> QED
      BY <3>1, <3>2
  <2> QED
    BY <2>4, <2>5 DEF Inv
<1> QED
  BY <1>1, <1>2

\* The first STUN request moves a peer from its user name to an address.
LEMMA BindStep ==
    ASSUME Inv, NEW u \in Ufrags, NEW a \in Addrs, NEW p \in alive,
           connections[a] = None, connections[u] = p, BindAddr(u, a),
           addr' = [addr EXCEPT ![p] = a],
           UNCHANGED <<ufrag, alive, routine, tasks, running>>
    PROVE  Inv'
<1>1. u \in Keys /\ a \in Keys /\ u # a /\ p \in Peers /\ u \notin Addrs
  BY MediaAssumption DEF Inv, Table, Keys
<1>2. connections' = [connections EXCEPT ![a] = p, ![u] = None]
  BY DEF BindAddr
<1>3. /\ connections'[a] = p /\ connections'[u] = None
      /\ \A k \in Keys \ {a, u} : connections'[k] = connections[k]
      /\ connections' \in [Keys -> Peers \cup {None, Expired}]
  BY <1>1, <1>2 DEF Inv, Table
<1>4. /\ addr'[p] = a /\ \A q \in Peers \ {p} : addr'[q] = addr[q]
      /\ addr' \in [Peers -> Addrs \cup {None}]
  BY <1>1 DEF Inv, Table
<1>5. \A k \in Keys : connections[k] = p => k = u
  BY <1>1 DEF Inv, PeerReachable
<1>6. {k \in Keys : connections'[k] = p} = {a}
  BY <1>1, <1>3, <1>5, MediaAssumption
<1>7. Table'
  <2>1. ASSUME NEW q \in Peers \ alive'
        PROVE  addr'[q] = None /\ \A k \in Keys : connections'[k] # q
    <3>1. q # p /\ q \in Peers \ alive /\ q # None
      BY MediaAssumption
    <3> QED
      BY <3>1, <1>3, <1>4 DEF Inv, Table
  <2> QED
    BY <1>3, <1>4, <2>1 DEF Inv, Table
<1>8. PeerReachable'
  <2> SUFFICES ASSUME NEW q \in alive
               PROVE  {k \in Keys : connections'[k] = q}
                         = {IF addr'[q] = None THEN ufrag[q] ELSE addr'[q]}
    BY DEF PeerReachable, Keys
  <2>1. CASE q = p
    BY <2>1, <1>4, <1>6, MediaAssumption
  <2>2. CASE q # p
    <3>1. q \in Peers /\ q # None /\ addr'[q] = addr[q]
      BY <2>2, <1>4, MediaAssumption DEF Inv, Table
    <3>2. {k \in Keys : connections'[k] = q} = {k \in Keys : connections[k] = q}
      BY <2>2, <3>1, <1>1, <1>3, Zenon
    <3>3. {k \in Keys : connections[k] = q}
             = {IF addr[q] = None THEN ufrag[q] ELSE addr[q]}
      BY Zenon DEF Inv, PeerReachable
    <3> QED
      BY <3>1, <3>2, <3>3, Zenon
  <2> QED
    BY <2>1, <2>2
<1> QED
  BY <1>7, <1>8 DEF Inv

\* Binding the entry of a peer that is gone concerns no live peer.
LEMMA BindExpiredStep ==
    ASSUME Inv, NEW u \in Ufrags, NEW a \in Addrs,
           connections[a] = None, connections[u] = Expired, BindAddr(u, a),
           UNCHANGED <<addr, ufrag, alive, routine, tasks, running>>
    PROVE  Inv'
<1>1. u \in Keys /\ a \in Keys /\ u # a
  BY MediaAssumption DEF Keys
<1>2. connections' = [connections EXCEPT ![a] = Expired, ![u] = None]
  BY DEF BindAddr
<1>3. /\ connections'[a] = Expired /\ connections'[u] = None
      /\ \A k \in Keys \ {a, u} : connections'[k] = connections[k]
      /\ connections' \in [Keys -> Peers \cup {None, Expired}]
  BY <1>1, <1>2 DEF Inv, Table
<1>4. ASSUME NEW q \in Peers, NEW k \in Keys
      PROVE  (connections'[k] = q) <=> (connections[k] = q)
  BY <1>1, <1>3, MediaAssumption
<1>5. Table'
  BY <1>3, <1>4 DEF Inv, Table
<1>6. PeerReachable'
  <2> SUFFICES ASSUME NEW q \in alive
               PROVE  {k \in Keys : connections'[k] = q}
                         = {IF addr[q] = None THEN ufrag[q] ELSE addr[q]}
    BY DEF PeerReachable, Keys
  <2>1. {k \in Keys : connections'[k] = q} = {k \in Keys : connections[k] = q}
    BY <1>4 DEF Inv, Table
  <2> QED
    BY <2>1, Zenon DEF Inv, PeerReachable
<1> QED
  BY <1>5, <1>6 DEF Inv

\* A datagram.
LEMMA RecvFromStep ==
    ASSUME Inv, NEW a \in Addrs, NEW k \in Kinds, NEW u \in Ufrags, RecvFrom(a, k, u)
    PROVE  Inv'
<1>1. UNCHANGED <<ufrag, alive, routine, tasks, running>>
  BY DEF RecvFrom, pool
<1>2. CASE UNCHANGED <<connections, addr>>
  BY <1>1, <1>2, EntriesKept, Zenon DEF Inv, Table, entries
<1>3. CASE /\ connections[a] = None /\ connections[u] \in alive
           /\ BindAddr(u, a) /\ addr' = [addr EXCEPT ![connections[u]] = a]
  BY <1>1, <1>3, BindStep, Zenon
<1>4. CASE /\ connections[a] = None /\ connections[u] = Expired
           /\ BindAddr(u, a) /\ UNCHANGED addr
  BY <1>1, <1>4, BindExpiredStep
<1> QED
  BY <1>2, <1>3, <1>4 DEF RecvFrom

\* A routine that is resumed serves a peer.
LEMMA ResumeStep ==
    ASSUME Inv, NEW r, NEW p \in Peers, ResumeMedia(r, p),
           \/ r \in Routines /\ routine[r] = p /\ UNCHANGED pool
           \/ /\ tasks # <<>> /\ p = Head(tasks) /\ tasks' = Tail(tasks)
              /\ routine' = [routine EXCEPT ![r] = p]
    PROVE  Inv'
<1>1. UNCHANGED entries /\ running' = r
  BY DEF ResumeMedia, entries
<1>2. routine' \in [Routines -> Peers \cup {None}]
  BY DEF Inv, Table, pool
<1>4. tasks' \in Seq(Peers)
  <2>1. tasks \in Seq(Peers)
    BY DEF Inv, Table
  <2>2. tasks' = tasks \/ (tasks # <<>> /\ tasks' = Tail(tasks))
    BY DEF pool
  <2> QED
    BY <2>1, <2>2
<1>3. r \in Routines => routine'[r] \in Peers
  BY DEF Inv, Table, pool
<1> QED
  BY <1>1, <1>2, <1>3, <1>4, EntriesKept

\* What the loop runs from its queue.
LEMMA QueueStep ==
    ASSUME Inv,
           \/ RunDispatcher \/ RunDrain
           \/ \E p \in Peers : RunStart(p)
           \/ \E r \in Routines : RunCall(r)
    PROVE  Inv'
<1>1. CASE RunDispatcher
  <2>1. UNCHANGED <<entries, routine, tasks>> /\ running' = Dispatcher
    BY <1>1 DEF RunDispatcher, entries, peers, pool
  <2>2. running' \notin Routines
    BY <2>1, MediaAssumption, Zenon
  <2> QED
    BY <2>1, <2>2, EntriesKept, Zenon DEF Inv, Table
<1>2. CASE RunDrain
  <2>1. CASE tasks # <<>> /\ FreeRoutines # {}
    <3>1. Head(tasks) \in Peers
      BY <2>1 DEF Inv, Table
    <3> QED
      BY <1>2, <2>1, <3>1, ResumeStep DEF RunDrain
  <2>2. CASE ~(tasks # <<>> /\ FreeRoutines # {})
    <3>1. UNCHANGED <<entries, routine, tasks, running>>
      BY <1>2, <2>2 DEF RunDrain, entries, peers, pool
    <3> QED
      BY <3>1, EntriesKept, Zenon DEF Inv, Table
  <2> QED
    BY <2>1, <2>2
<1>3. ASSUME NEW p \in Peers, RunStart(p)
      PROVE  Inv'
  <2>1. UNCHANGED <<entries, routine, running>> /\ tasks' = Append(tasks, p)
    BY <1>3 DEF RunStart, entries, peers
  <2>2. tasks' \in Seq(Peers)
    BY <2>1 DEF Inv, Table
  <2> QED
    BY <2>1, <2>2, EntriesKept, Zenon DEF Inv, Table
<1>4. ASSUME NEW r \in Routines, RunCall(r)
      PROVE  Inv'
  <2>1. CASE routine[r] # None /\ ResumeMedia(r, routine[r]) /\ UNCHANGED pool
    <3>1. routine[r] \in Peers
      BY <2>1 DEF Inv, Table
    <3> QED
      BY <2>1, <3>1, ResumeStep
  <2>2. CASE /\ tasks # <<>> /\ routine' = [routine EXCEPT ![r] = Head(tasks)]
             /\ tasks' = Tail(tasks) /\ ResumeMedia(r, Head(tasks))
    <3>1. Head(tasks) \in Peers
      BY <2>2 DEF Inv, Table
    <3> QED
      BY <2>2, <3>1, ResumeStep, Zenon
  <2>3. CASE Dies("no task")
    <3>1. UNCHANGED <<entries, routine, tasks, running>>
      BY <2>3, Zenon DEF Dies, entries, peers, pool, loop
    <3> QED
      BY <3>1, EntriesKept, Zenon DEF Inv, Table
  <2> QED
    BY <1>4, <2>1, <2>2, <2>3, Zenon DEF RunCall
<1> QED
  BY <1>1, <1>2, <1>3, <1>4

\* HandleMedia and its timeout.
LEMMA MediaStep ==
    ASSUME Inv, NEW r \in Routines, ProcessNext(r) \/ Park(r) \/ MediaTimeout(r)
    PROVE  Inv'
<1>1. CASE ProcessNext(r)
  <2>1. routine[r] \in Peers
    BY <1>1, Zenon DEF ProcessNext, Inv, Table
  <2>2. CASE EndMedia(r)
    BY <2>1, <2>2, DeleteStep
  <2>3. CASE UNCHANGED <<connections, ufrag, addr, alive, pool, loop>>
    <3>1. UNCHANGED <<entries, routine, tasks, running>>
      BY <2>3 DEF entries, pool, loop
    <3> QED
      BY <3>1, EntriesKept, Zenon DEF Inv, Table
  <2> QED
    BY <1>1, <2>2, <2>3, Zenon DEF ProcessNext
<1>2. CASE Park(r)
  <2>1. UNCHANGED <<entries, routine, tasks>> /\ running' = Main
    BY <1>2 DEF Park, entries, peers, pool
  <2>2. running' \notin Routines
    BY <2>1, MediaAssumption
  <2> QED
    BY <2>1, <2>2, EntriesKept, Zenon DEF Inv, Table
<1>3. CASE MediaTimeout(r)
  <2>1. routine[r] \in Peers /\ EndMedia(r)
    BY <1>3 DEF MediaTimeout, Inv, Table
  <2> QED
    BY <2>1, DeleteStep
<1> QED
  BY <1>1, <1>2, <1>3

\* What remains leaves peers and routines as they are, and may resume or suspend
\* the dispatcher.
LEMMA OtherStep ==
    ASSUME Inv, UNCHANGED <<entries, routine, tasks>>,
           running' \in {running, Main, Dispatcher}
    PROVE  Inv'
<1>1. running' \in Routines => running' = running
  BY MediaAssumption
<1> QED
  BY <1>1, EntriesKept, Zenon DEF Inv, Table

\* Every step keeps the table right.
LEMMA TableStep ==
    ASSUME Inv, [Next]_vars
    PROVE  Inv'
<1>1. CASE RunDispatcher \/ RunDrain \/ (\E p \in Peers : RunStart(p))
           \/ \E r \in Routines : RunCall(r)
  BY <1>1, QueueStep
<1>2. CASE \E r \in Routines : ProcessNext(r) \/ Park(r) \/ MediaTimeout(r)
  BY <1>2, MediaStep
<1>3. CASE Poll \/ PollIn \/ PollOut \/ EndTurn \/ Readable \/ Writable \/ RecvTimeout
  <2>1. UNCHANGED <<entries, routine, tasks>> /\ running' \in {running, Main, Dispatcher}
    BY <1>3, Zenon DEF Poll, PollIn, PollOut, EndTurn, Readable, Writable, RecvTimeout,
       SetPhase, entries, peers, pool
  <2> QED
    BY <2>1, OtherStep
<1>4. CASE Alloc
  <2>1. UNCHANGED <<entries, routine, tasks, running>>
    BY <1>4, Zenon DEF Alloc, Dies, QuietDispatch, entries, peers, pool, loop
  <2> QED
    BY <2>1, OtherStep
<1>5. CASE TickRecv \/ TickSend
  <2>1. UNCHANGED <<entries, routine, tasks>> /\ running' \in {running, Main, Dispatcher}
    BY <1>5 DEF TickRecv, TickSend, CheckTicks, QuietDispatch, entries, peers, pool
  <2> QED
    BY <2>1, OtherStep
<1>6. CASE RecvAgain \/ RecvInterrupted \/ Sendto \/ SendtoAgain \/ EndFlush
  <2>1. UNCHANGED <<entries, routine, tasks>> /\ running' \in {running, Main, Dispatcher}
    BY <1>6, Zenon DEF RecvAgain, RecvInterrupted, Sendto, SendtoAgain, EndFlush,
       QuietDispatch, entries, peers, pool
  <2> QED
    BY <2>1, OtherStep
<1>7. CASE \E a \in Addrs, k \in Kinds, u \in Ufrags : RecvFrom(a, k, u)
  BY <1>7, RecvFromStep
<1>8. CASE \E u \in Ufrags, p \in Peers : Pub(u, p)
  BY <1>8, PubStep
<1>9. CASE \E p \in Peers : DtlsTimer(p) \/ PliTimer(p)
  <2>1. UNCHANGED <<entries, routine, tasks, running>>
    BY <1>9, Zenon DEF DtlsTimer, PliTimer, TimerOutcome, entries, pool, loop
  <2> QED
    BY <2>1, OtherStep
<1>10. CASE Ended \/ UNCHANGED vars
  <2>1. UNCHANGED <<entries, routine, tasks, running>>
    BY <1>10 DEF Ended, vars, entries, peers, pool, loop
  <2> QED
    BY <2>1, OtherStep
<1> QED
  BY <1>1, <1>2, <1>3, <1>4, <1>5, <1>6, <1>7, <1>8, <1>9, <1>10
     DEF Next, LoopStep, Environment

\* A live peer is found under exactly one key, whatever the order in which peers
\* are published, bound by STUN, time out and end: connections_ and the peers'
\* addr_ never disagree.
THEOREM PeersStayReachable == Spec => []PeerReachable
<1>1. Init => Inv
  <2> SUFFICES ASSUME Init PROVE Inv
    OBVIOUS
  <2>1. <<>> \in Seq(Peers) /\ running \notin Routines
    <3>1. <<>> \in Seq(Peers)
      OBVIOUS
    <3>2. running = Main \/ running = Dispatcher
      BY Zenon DEF Init
    <3>3. Main \notin Routines /\ Dispatcher \notin Routines
      BY MediaAssumption, Zenon
    <3> QED
      BY <3>1, <3>2, <3>3, Zenon
  <2>2. Table
    BY <2>1, MediaAssumption, Zenon DEF Init, Table
  <2>3. PeerReachable
    BY DEF Init, PeerReachable
  <2> QED
    BY <2>2, <2>3 DEF Inv
<1>2. Inv /\ [Next]_vars => Inv'
  BY TableStep
<1>3. Inv => PeerReachable
  BY DEF Inv
<1> QED
  BY <1>1, <1>2, <1>3, PTL DEF Spec

-----------------------------------------------------------------------------
(* Who waits for what.                                                     *)

\* What is queued.
Entries ==
    {Drain} \cup {Call(r) : r \in Routines \cup {Dispatcher}} \cup {Start(p) : p \in Peers}

\* In how many places a peer is waiting, or served.
Places(p) == Cardinality(RoutineOf(p)) + Count(tasks, p) + Count(Queue, Start(p))

\* Who is alive is in one place, who is not in none, with no packets; and packets
\* of a peer that is served have a Call on its way.
Line ==
    /\ batch \in Seq(Entries) /\ functions \in Seq(Entries)
    /\ packets \in [Peers -> Seq(Kinds)]
    /\ phase # "functions" => batch = <<>>
    /\ \A p \in Peers : Places(p) = IF p \in alive THEN 1 ELSE 0
    /\ \A p \in Peers \ alive : packets[p] = <<>>
    /\ \A r \in Routines : routine[r] # None /\ packets[routine[r]] # <<>>
                              => Call(r) \in Range(Queue)

\* A HandleMedia holds buffers only while it runs, and the dispatcher has its buf
\* from AllocBuffer until it is delivered or the iteration ends.
Held ==
    /\ buffers \in Nat /\ held \in Nat /\ buf \in BOOLEAN
    /\ running \notin Routines => held = 0
    /\ dpc = "alloc" => ~buf
    /\ dpc \in {"recv", "recvfrom", "parked"} => buf

\* The head of two sequences is the first's.
LEMMA TailOfConcat ==
    ASSUME NEW S, NEW s \in Seq(S), NEW t \in Seq(S), s # <<>>
    PROVE  s \o t # <<>> /\ Head(s \o t) = Head(s) /\ Tail(s \o t) = Tail(s) \o t
<1>1. s \o t \in Seq(S) /\ Len(s \o t) = Len(s) + Len(t) /\ Len(s) \in Nat \ {0}
      /\ Len(t) \in Nat
      /\ \A i \in 1..(Len(s) + Len(t)) : (s \o t)[i] = IF i <= Len(s) THEN s[i] ELSE t[i - Len(s)]
  OBVIOUS
<1>2. Tail(s) \in Seq(S) /\ Len(Tail(s)) = Len(s) - 1
      /\ \A i \in 1..(Len(s) - 1) : Tail(s)[i] = s[i + 1]
  OBVIOUS
<1>3. s \o t # <<>> /\ Head(s \o t) = Head(s)
  BY <1>1
<1> DEFINE u == Tail(s \o t)
           v == Tail(s) \o t
<1>4. u \in Seq(S) /\ Len(u) = Len(s) + Len(t) - 1
      /\ \A i \in 1..(Len(s) + Len(t) - 1) : u[i] = (s \o t)[i + 1]
  BY <1>1, <1>3
<1>5. v \in Seq(S) /\ Len(v) = Len(s) - 1 + Len(t)
      /\ \A i \in 1..(Len(s) - 1 + Len(t)) :
            v[i] = IF i <= Len(s) - 1 THEN Tail(s)[i] ELSE t[i - (Len(s) - 1)]
  BY <1>2
<1> HIDE DEF u, v
<1>6. ASSUME NEW i \in 1..Len(u) PROVE u[i] = v[i]
  <2>1. i \in 1..(Len(s) + Len(t) - 1) /\ i + 1 \in 1..(Len(s) + Len(t))
        /\ i \in 1..(Len(s) - 1 + Len(t)) /\ (i + 1) - Len(s) = i - (Len(s) - 1)
    BY <1>1, <1>4
  <2>2. CASE i <= Len(s) - 1
    BY <1>1, <1>2, <1>4, <1>5, <2>1, <2>2
  <2>3. CASE ~(i <= Len(s) - 1)
    BY <1>1, <1>4, <1>5, <2>1, <2>3
  <2> QED
    BY <2>2, <2>3
<1>7. u = v
  <2>1. Len(u) = Len(v)
    BY <1>1, <1>4, <1>5
  <2> QED
    BY <1>4, <1>5, <1>6, <2>1, SeqEqual
<1> QED
  BY <1>3, <1>7 DEF u, v

\* The loop runs the first function of its batch.
LEMMA QueuePop ==
    ASSUME batch \in Seq(Entries), functions \in Seq(Entries), batch # <<>>,
           batch' = Tail(batch), UNCHANGED functions
    PROVE  /\ Queue \in Seq(Entries) /\ Queue # <<>> /\ Head(Queue) = Head(batch)
           /\ batch' \in Seq(Entries) /\ Queue' = Tail(Queue)
<1>1. batch \o functions \in Seq(Entries) /\ Tail(batch) \in Seq(Entries)
  OBVIOUS
<1> QED
  BY <1>1, TailOfConcat, Zenon DEF Queue

\* The three are joined in one order, however they are bracketed.
Joined(x, y, z) == (x \o y) \o z = x \o (y \o z)

\* Queues are joined in one order.
LEMMA EntriesJoin ==
    ASSUME NEW x \in Seq(Entries), NEW y \in Seq(Entries), NEW z \in Seq(Entries)
    PROVE  Joined(x, y, z)
BY ConcatAssociative DEF Joined

\* A start is replaced by what drains the tasks.
LEMMA QueueSwap ==
    ASSUME batch \in Seq(Entries), functions \in Seq(Entries), batch # <<>>,
           batch' = <<Drain>> \o Tail(batch), UNCHANGED functions
    PROVE  /\ Queue \in Seq(Entries) /\ Queue # <<>> /\ Head(Queue) = Head(batch)
           /\ batch' \in Seq(Entries) /\ Queue' = <<Drain>> \o Tail(Queue)
           /\ Queue' \in Seq(Entries) /\ Queue' # <<>> /\ Head(Queue') = Drain
           /\ Tail(Queue') = Tail(Queue)
<1> DEFINE d == <<Drain>>
<1>1. batch \o functions \in Seq(Entries) /\ Tail(batch) \in Seq(Entries)
      /\ d \in Seq(Entries) /\ d \o Tail(batch) \in Seq(Entries)
  BY DEF Entries
<1> HIDE DEF d
<1>2. (d \o Tail(batch)) \o functions = d \o (Tail(batch) \o functions)
  <2>1. Joined(d, Tail(batch), functions)
    BY <1>1, EntriesJoin, Zenon
  <2> QED
    BY <2>1, Zenon DEF Joined
<1>3. batch' = d \o Tail(batch)
  BY DEF d
<1>4. /\ Queue \in Seq(Entries) /\ Queue # <<>> /\ Head(Queue) = Head(batch)
      /\ batch' \in Seq(Entries) /\ Queue' = <<Drain>> \o Tail(Queue)
  BY <1>1, <1>2, <1>3, TailOfConcat DEF Queue, d
<1>5. Tail(Queue) \in Seq(Entries) /\ Drain \in Entries
  BY <1>4 DEF Entries
<1>6. /\ Queue' \in Seq(Entries) /\ Queue' # <<>> /\ Head(Queue') = Drain
      /\ Tail(Queue') = Tail(Queue)
  BY <1>4, <1>5, PushFront
<1> QED
  BY <1>4, <1>6

\* A function is queued for the next turn.
LEMMA QueuePush ==
    ASSUME batch \in Seq(Entries), functions \in Seq(Entries), NEW x \in Entries,
           functions' = Append(functions, x), UNCHANGED batch
    PROVE  /\ Queue \in Seq(Entries) /\ functions' \in Seq(Entries)
           /\ Queue' = Append(Queue, x)
<1>1. batch \o functions \in Seq(Entries) /\ <<x>> \in Seq(Entries)
  OBVIOUS
<1>2. Append(functions, x) = functions \o <<x>>
      /\ Append(batch \o functions, x) = (batch \o functions) \o <<x>>
  BY <1>1, AppendIsConcat
<1>3. (batch \o functions) \o <<x>> = batch \o (functions \o <<x>>)
  BY <1>1, ConcatAssociative
<1> QED
  BY <1>1, <1>2, <1>3 DEF Queue

\* A new turn runs what is queued, in the same order.
LEMMA QueueKept ==
    ASSUME batch \in Seq(Entries), functions \in Seq(Entries),
           \/ UNCHANGED <<batch, functions>>
           \/ batch = <<>> /\ batch' = functions /\ functions' = <<>>
    PROVE  /\ Queue \in Seq(Entries) /\ Queue' = Queue
           /\ batch' \in Seq(Entries) /\ functions' \in Seq(Entries)
<1>1. batch \o functions \in Seq(Entries) /\ <<>> \in Seq(Entries)
  OBVIOUS
<1>2. <<>> \o functions = functions /\ functions \o <<>> = functions
  BY ConcatEmptySeq
<1> QED
  BY <1>1, <1>2 DEF Queue

\* The ids of Main and the dispatcher are no routine's of the pool.
LEMMA Ids ==
    Main # Dispatcher /\ Main \notin Routines /\ Dispatcher \notin Routines
  BY MediaAssumption DEF Main, Dispatcher

\* What the parts are.
LEMMA Types ==
    ASSUME Inv, Line
    PROVE  /\ batch \in Seq(Entries) /\ functions \in Seq(Entries) /\ tasks \in Seq(Peers)
           /\ routine \in [Routines -> Peers \cup {None}]
           /\ packets \in [Peers -> Seq(Kinds)]
  BY DEF Line, Inv, Table

\* The functions that are queued are told apart.
LEMMA EntryKinds ==
    /\ \A r, s : Call(r) = Call(s) => r = s
    /\ \A p, q : Start(p) = Start(q) => p = q
    /\ \A r, p : Call(r) # Start(p)
    /\ \A p : Start(p) # Drain
    /\ \A r : Call(r) # Drain
  BY DEF Call, Start, Drain

\* What it means to be in one place.
LEMMA PlacesFacts ==
    ASSUME Inv, Line, NEW p \in Peers
    PROVE  /\ Cardinality(RoutineOf(p)) \in Nat /\ Count(tasks, p) \in Nat
           /\ Count(Queue, Start(p)) \in Nat
           /\ RoutineOf(p) = {} <=> Cardinality(RoutineOf(p)) = 0
           /\ \A r, s \in RoutineOf(p) : r = s
           /\ RoutineOf(p) # {} =>
                 /\ p \in alive /\ Cardinality(RoutineOf(p)) = 1
                 /\ Count(tasks, p) = 0 /\ Count(Queue, Start(p)) = 0
<1>1. RoutineOf(p) \subseteq Routines
  BY DEF RoutineOf
<1>2. IsFiniteSet(RoutineOf(p)) /\ Cardinality(RoutineOf(p)) \in Nat
  BY <1>1, MediaAssumption, FS_Subset, FS_CardinalityType
<1>3. RoutineOf(p) = {} <=> Cardinality(RoutineOf(p)) = 0
  BY <1>2, FS_EmptySet
<1>4. tasks \in Seq(Peers) /\ Queue \in Seq(Entries)
  BY DEF Inv, Table, Line, Queue
<1>5. Count(tasks, p) \in Nat /\ Count(Queue, Start(p)) \in Nat
  BY <1>4, CountType
<1>6. Places(p) = IF p \in alive THEN 1 ELSE 0
  BY DEF Line
<1>7. RoutineOf(p) # {} =>
         /\ p \in alive /\ Cardinality(RoutineOf(p)) = 1
         /\ Count(tasks, p) = 0 /\ Count(Queue, Start(p)) = 0
  BY <1>2, <1>3, <1>5, <1>6 DEF Places
<1>8. \A r, s \in RoutineOf(p) : r = s
  <2> SUFFICES ASSUME RoutineOf(p) # {} PROVE \A r, s \in RoutineOf(p) : r = s
    OBVIOUS
  <2>1. \E x : RoutineOf(p) = {x}
    BY <1>2, <1>7, FS_Singleton
  <2> QED
    BY <2>1
<1> QED
  BY <1>2, <1>3, <1>5, <1>7, <1>8, Zenon

\* A peer is served by one routine.
LEMMA OneServes ==
    ASSUME Inv, Line, NEW r \in Routines, NEW s \in Routines, routine[r] # None,
           routine[r] = routine[s]
    PROVE  r = s /\ routine[r] \in Peers
<1>1. routine[r] \in Peers
  BY DEF Inv, Table
<1>2. r \in RoutineOf(routine[r]) /\ s \in RoutineOf(routine[r])
  BY DEF RoutineOf
<1> QED
  BY <1>1, <1>2, PlacesFacts

\* The entries of the queue that concern no peer come and go.
LEMMA LineQuiet ==
    ASSUME Inv, Line, UNCHANGED <<alive, routine, tasks, packets>>,
           phase' # "functions" => batch' = <<>>,
           \/ UNCHANGED <<batch, functions>>
           \/ batch = <<>> /\ batch' = functions /\ functions' = <<>>
           \/ /\ batch # <<>> /\ batch' = Tail(batch) /\ UNCHANGED functions
              /\ Head(batch) \in {Call(Dispatcher), Drain}
           \/ UNCHANGED batch /\ functions' = Append(functions, Call(Dispatcher))
    PROVE  Line'
<1>1. batch \in Seq(Entries) /\ functions \in Seq(Entries)
  BY DEF Line
<1>2. /\ Queue \in Seq(Entries) /\ batch' \in Seq(Entries) /\ functions' \in Seq(Entries)
      /\ \A p \in Peers : Count(Queue', Start(p)) = Count(Queue, Start(p))
      /\ \A r \in Routines : Call(r) \in Range(Queue) => Call(r) \in Range(Queue')
  <2>1. CASE \/ UNCHANGED <<batch, functions>>
             \/ batch = <<>> /\ batch' = functions /\ functions' = <<>>
    BY <1>1, <2>1, QueueKept
  <2>2. CASE /\ batch # <<>> /\ batch' = Tail(batch) /\ UNCHANGED functions
             /\ Head(batch) \in {Call(Dispatcher), Drain}
    <3>1. /\ Queue \in Seq(Entries) /\ Queue # <<>>
          /\ Head(Queue) \in {Call(Dispatcher), Drain}
          /\ batch' \in Seq(Entries) /\ Queue' = Tail(Queue)
      BY <1>1, <2>2, QueuePop
    <3>2. ASSUME NEW p \in Peers PROVE Count(Queue', Start(p)) = Count(Queue, Start(p))
      <4>1. Head(Queue) # Start(p) /\ Tail(Queue) \in Seq(Entries)
        BY <3>1, EntryKinds
      <4>2. Count(Tail(Queue), Start(p)) \in Nat
        BY <4>1, CountType, Zenon
      <4> QED
        BY <3>1, <4>1, <4>2, CountTail
    <3>3. ASSUME NEW r \in Routines, Call(r) \in Range(Queue)
          PROVE  Call(r) \in Range(Queue')
      <4>1. Head(Queue) # Call(r)
        BY <3>1, EntryKinds, MediaAssumption, Zenon
      <4> QED
        BY <3>1, <3>3, <4>1, AfterPop
    <3> QED
      BY <1>1, <2>2, <3>1, <3>2, <3>3, Zenon
  <2>3. CASE UNCHANGED batch /\ functions' = Append(functions, Call(Dispatcher))
    <3>1. Call(Dispatcher) \in Entries
      BY DEF Entries
    <3>2. /\ Queue \in Seq(Entries) /\ functions' \in Seq(Entries)
          /\ Queue' = Append(Queue, Call(Dispatcher))
      BY <1>1, <2>3, <3>1, QueuePush
    <3>3. ASSUME NEW p \in Peers PROVE Count(Queue', Start(p)) = Count(Queue, Start(p))
      <4>1. Call(Dispatcher) # Start(p)
        BY EntryKinds
      <4>2. Count(Queue, Start(p)) \in Nat
        BY <3>2, CountType
      <4> QED
        BY <3>1, <3>2, <4>1, <4>2, CountAppend
    <3>4. ASSUME NEW r \in Routines, Call(r) \in Range(Queue)
          PROVE  Call(r) \in Range(Queue')
      BY <3>1, <3>2, <3>4, AfterPush
    <3> QED
      BY <1>1, <2>3, <3>2, <3>3, <3>4, Zenon
  <2> QED
    BY <2>1, <2>2, <2>3, Zenon
<1>3. ASSUME NEW p \in Peers
      PROVE  Places(p)' = (IF p \in alive THEN 1 ELSE 0)'
  <2>1. RoutineOf(p)' = RoutineOf(p)
    BY DEF RoutineOf
  <2> QED
    BY <1>2, <2>1, Zenon DEF Places, Line
<1> QED
  BY <1>1, <1>2, <1>3, Zenon DEF Line

\* A routine takes a peer's packets: the peer it serves, or the next task.
LEMMA LineServe ==
    ASSUME Inv, Line, NEW r \in Routines, NEW p \in Peers,
           packets' = [packets EXCEPT ![p] = <<>>], UNCHANGED <<alive, functions, phase>>,
           \/ routine[r] = p /\ UNCHANGED <<routine, tasks>>
           \/ /\ routine[r] = None /\ tasks # <<>> /\ p = Head(tasks)
              /\ tasks' = Tail(tasks) /\ routine' = [routine EXCEPT ![r] = p],
           \/ UNCHANGED batch
           \/ /\ phase = "functions" /\ batch # <<>> /\ batch' = Tail(batch)
              /\ Head(batch) = Call(r)
    PROVE  Line'
<1>1. batch \in Seq(Entries) /\ functions \in Seq(Entries) /\ tasks \in Seq(Peers)
      /\ routine \in [Routines -> Peers \cup {None}]
      /\ packets \in [Peers -> Seq(Kinds)]
  BY Zenon DEF Line, Inv, Table
<1>2. /\ Queue \in Seq(Entries) /\ batch' \in Seq(Entries)
      /\ \A q \in Peers : Count(Queue', Start(q)) = Count(Queue, Start(q))
      /\ \A s \in Routines \ {r} : Call(s) \in Range(Queue) => Call(s) \in Range(Queue')
  <2>1. CASE UNCHANGED batch
    BY <1>1, <2>1, QueueKept
  <2>2. CASE batch # <<>> /\ batch' = Tail(batch) /\ Head(batch) = Call(r)
    <3>1. /\ Queue \in Seq(Entries) /\ Queue # <<>> /\ Head(Queue) = Call(r)
          /\ batch' \in Seq(Entries) /\ Queue' = Tail(Queue)
      BY <1>1, <2>2, QueuePop
    <3>2. ASSUME NEW q \in Peers PROVE Count(Queue', Start(q)) = Count(Queue, Start(q))
      <4>1. Head(Queue) # Start(q) /\ Tail(Queue) \in Seq(Entries)
        BY <3>1, EntryKinds
      <4>2. Count(Tail(Queue), Start(q)) \in Nat
        BY <4>1, CountType, Zenon
      <4> QED
        BY <3>1, <4>1, <4>2, CountTail
    <3>3. ASSUME NEW s \in Routines \ {r}, Call(s) \in Range(Queue)
          PROVE  Call(s) \in Range(Queue')
      <4>1. Head(Queue) # Call(s)
        BY <3>1, EntryKinds
      <4> QED
        BY <3>1, <3>3, <4>1, AfterPop, Zenon
    <3> QED
      BY <3>1, <3>2, <3>3
  <2> QED
    BY <2>1, <2>2
<1>3. p # None /\ routine'[r] = p /\ \A s \in Routines \ {r} : routine'[s] = routine[s]
  BY <1>1, MediaAssumption, Zenon
<1>4. packets' \in [Peers -> Seq(Kinds)] /\ packets'[p] = <<>>
      /\ \A q \in Peers \ {p} : packets'[q] = packets[q]
  BY <1>1
<1>5. ASSUME NEW q \in Peers PROVE Places(q)' = Places(q)
  <2>1. CASE UNCHANGED <<routine, tasks>>
    BY <1>2, <2>1, Zenon DEF Places, RoutineOf
  <2>2. CASE /\ routine[r] = None /\ tasks # <<>> /\ p = Head(tasks)
             /\ tasks' = Tail(tasks) /\ routine' = [routine EXCEPT ![r] = p]
    <3>1. Tail(tasks) \in Seq(Peers)
      BY <1>1, <2>2
    <3>2. Count(tasks, q) = Count(tasks', q) + (IF p = q THEN 1 ELSE 0)
      BY <1>1, <2>2, CountTail
    <3>3. Count(tasks', q) \in Nat
      BY <2>2, <3>1, CountType, Zenon
    <3>4. RoutineMoves(r, p, q)
      BY <1>1, <2>2, RoutineSet, Zenon
    <3>5. routine[r] # q
      BY <2>2, MediaAssumption, Zenon
    <3>6. Count(Queue, Start(q)) \in Nat
      BY <1>2, CountType, Zenon
    <3>7. PICK c \in Nat, d \in Nat : c = Cardinality(RoutineOf(q)) /\ d = Cardinality(RoutineOf(q)')
      BY <3>4, Zenon DEF RoutineMoves
    <3>8. PICK t \in Nat, k \in Nat : t = Count(tasks', q) /\ k = Count(Queue, Start(q))
      BY <3>3, <3>6, Zenon
    <3>9. d + 0 = c + (IF p = q THEN 1 ELSE 0)
      BY <3>4, <3>5, <3>7, Zenon DEF RoutineMoves
    <3>10. /\ Places(q) = c + (t + (IF p = q THEN 1 ELSE 0)) + k
           /\ Places(q)' = d + t + k
      BY <1>2, <3>2, <3>7, <3>8, Zenon DEF Places
    <3>11. d + t + k = c + (t + (IF p = q THEN 1 ELSE 0)) + k
      BY <3>9
    <3> QED
      BY <3>10, <3>11, Zenon
  <2> QED
    BY <2>1, <2>2
<1>6. ASSUME NEW s \in Routines, routine'[s] # None, packets'[routine'[s]] # <<>>
      PROVE  Call(s) \in Range(Queue')
  <2>1. s # r /\ routine[s] = routine'[s] /\ routine[s] # p /\ routine[s] \in Peers
    <3>1. s # r
      BY <1>3, <1>4, <1>6, Zenon
    <3>2. routine[s] = routine'[s] /\ routine[s] \in Peers \cup {None}
      BY <1>1, <1>3, <3>1, Zenon
    <3> QED
      BY <1>4, <1>6, <3>1, <3>2, Zenon
  <2>2. packets[routine[s]] # <<>>
    BY <1>4, <1>6, <2>1
  <2> QED
    BY <1>2, <1>6, <2>1, <2>2, Zenon DEF Line
<1>7. \A q \in Peers \ alive : packets'[q] = <<>>
  BY <1>4, Zenon DEF Line
<1>8. phase' # "functions" => batch' = <<>>
  BY DEF Line
<1> QED
  BY <1>1, <1>2, <1>4, <1>5, <1>6, <1>7, <1>8, Zenon DEF Line

\* A peer ends, and its routine is free.
LEMMA LineEnd ==
    ASSUME Inv, Line, NEW r \in Routines, routine[r] \in Peers,
           packets' = [packets EXCEPT ![routine[r]] = <<>>],
           alive' = alive \ {routine[r]}, routine' = [routine EXCEPT ![r] = None],
           UNCHANGED <<tasks, batch, functions, phase>>
    PROVE  Line'
<1> DEFINE p == routine[r]
<1>1. batch \in Seq(Entries) /\ functions \in Seq(Entries) /\ tasks \in Seq(Peers)
      /\ routine \in [Routines -> Peers \cup {None}]
      /\ packets \in [Peers -> Seq(Kinds)] /\ p \in Peers /\ p # None
  BY MediaAssumption, Zenon DEF Line, Inv, Table
<1>2. Queue' = Queue
  BY <1>1, QueueKept
<1>3. packets' \in [Peers -> Seq(Kinds)] /\ packets'[p] = <<>>
      /\ \A q \in Peers \ {p} : packets'[q] = packets[q]
  BY <1>1
<1>4. r \in RoutineOf(p) /\ \A s \in RoutineOf(p) : s = r
  BY <1>1, PlacesFacts, Zenon DEF RoutineOf
<1>5. ASSUME NEW q \in Peers
      PROVE  Places(q)' = (IF q \in alive THEN 1 ELSE 0)'
  <2>1. RoutineMoves(r, None, q)
    BY <1>1, RoutineSet, Zenon
  <2>2. None # q
    BY MediaAssumption, Zenon
  <2>c. PICK c \in Nat, d \in Nat : c = Cardinality(RoutineOf(q)) /\ d = Cardinality(RoutineOf(q)')
    BY <2>1, Zenon DEF RoutineMoves
  <2>d. d + (IF p = q THEN 1 ELSE 0) = c + 0
    BY <2>1, <2>2, <2>c, Zenon DEF RoutineMoves
  <2>3. CASE q = p
    <3>1. Cardinality(RoutineOf(q)) = 1 /\ Count(tasks, q) = 0 /\ Count(Queue, Start(q)) = 0
      BY <1>1, <1>4, <2>3, PlacesFacts
    <3>2. d + 1 = 1 + 0
      BY <2>3, <2>c, <2>d, <3>1, Zenon
    <3>3. d = 0 /\ 0 + 0 + 0 = 0
      BY <3>2
    <3>4. Places(q)' = 0
      BY <1>2, <2>3, <2>c, <3>1, <3>3, Zenon DEF Places
    <3> QED
      BY <2>3, <3>4, Zenon
  <2>4. CASE q # p
    <3>1. Places(q)' = Places(q)
      <4>1. d + 0 = c + 0
        BY <2>4, <2>d, Zenon
      <4>2. d = c
        BY <4>1
      <4> QED
        BY <1>2, <2>c, <4>2, Zenon DEF Places
    <3> QED
      BY <2>4, <3>1, Zenon DEF Line
  <2> QED
    BY <2>3, <2>4
<1>6. ASSUME NEW s \in Routines, routine'[s] # None, packets'[routine'[s]] # <<>>
      PROVE  Call(s) \in Range(Queue')
  <2>1. s # r /\ routine[s] = routine'[s] /\ routine[s] \in Peers
    BY <1>1, <1>6
  <2>2. routine[s] # p
    BY <1>4, <2>1 DEF RoutineOf
  <2>3. packets[routine[s]] # <<>>
    BY <1>3, <1>6, <2>1, <2>2, Zenon
  <2> QED
    BY <1>2, <1>6, <2>1, <2>3, Zenon DEF Line
<1>7. \A q \in Peers \ alive' : packets'[q] = <<>>
  BY <1>3, Zenon DEF Line
<1> QED
  BY <1>1, <1>3, <1>5, <1>6, <1>7, Zenon DEF Line

\* A start becomes a task.
LEMMA LineStart ==
    ASSUME Inv, Line, NEW p \in Peers, phase = "functions", batch # <<>>,
           Head(batch) = Start(p), tasks' = Append(tasks, p),
           batch' = <<Drain>> \o Tail(batch),
           UNCHANGED <<alive, routine, packets, functions, phase>>
    PROVE  Line'
<1>1. batch \in Seq(Entries) /\ functions \in Seq(Entries) /\ tasks \in Seq(Peers)
      /\ Drain \in Entries
  BY Zenon DEF Line, Inv, Table, Entries
<1>2. /\ Queue \in Seq(Entries) /\ Queue # <<>> /\ Head(Queue) = Start(p)
      /\ batch' \in Seq(Entries) /\ Queue' = <<Drain>> \o Tail(Queue)
      /\ Tail(Queue) \in Seq(Entries)
      /\ Queue' \in Seq(Entries) /\ Queue' # <<>> /\ Head(Queue') = Drain
      /\ Tail(Queue') = Tail(Queue)
  BY <1>1, QueueSwap
<1>3. ASSUME NEW q \in Peers PROVE Places(q)' = Places(q)
  <2>1. Count(Queue, Start(q)) = Count(Tail(Queue), Start(q)) + (IF p = q THEN 1 ELSE 0)
    BY <1>2, CountTail, EntryKinds
  <2>2. Count(Queue', Start(q)) = Count(Tail(Queue), Start(q)) + 0
    <3>1. Count(Queue', Start(q))
             = Count(Tail(Queue), Start(q)) + (IF Drain = Start(q) THEN 1 ELSE 0)
      BY <1>2, CountTail, Zenon
    <3>2. Drain # Start(q)
      BY EntryKinds
    <3> QED
      BY <1>2, <3>1, <3>2
  <2>3. Count(tasks', q) = Count(tasks, q) + (IF p = q THEN 1 ELSE 0)
    BY <1>1, CountAppend
  <2>4. Count(Tail(Queue), Start(q)) \in Nat /\ Count(tasks, q) \in Nat
    BY <1>1, <1>2, CountType, Zenon
  <2>5. RoutineOf(q)' = RoutineOf(q) /\ Cardinality(RoutineOf(q)) \in Nat
    BY PlacesFacts, Zenon DEF RoutineOf
  <2> QED
    <3> DEFINE one == IF p = q THEN 1 ELSE 0
    <3>1. PICK a \in Nat, b \in Nat, c \in Nat :
             /\ a = Cardinality(RoutineOf(q)) /\ b = Count(tasks, q)
             /\ c = Count(Tail(Queue), Start(q))
      BY <2>4, <2>5, Zenon
    <3>2. Places(q) = a + b + (c + one) /\ Places(q)' = a + (b + one) + (c + 0)
      BY <2>1, <2>2, <2>3, <2>5, <3>1, Zenon DEF Places
    <3>3. one \in Nat
      OBVIOUS
    <3> HIDE DEF one
    <3> QED
      BY <3>2, <3>3
<1>4. ASSUME NEW s \in Routines, Call(s) \in Range(Queue)
      PROVE  Call(s) \in Range(Queue')
  <2>1. Head(Queue) # Call(s) /\ Drain # Start(p)
    BY <1>2, EntryKinds, Zenon
  <2> QED
    BY <1>1, <1>2, <1>4, <2>1, AfterSwap, Zenon
<1> QED
  BY <1>1, <1>2, <1>3, <1>4, Zenon DEF Line

\* A new peer: its start is queued.
LEMMA LinePub ==
    ASSUME Inv, Line, NEW p \in Peers, p \notin alive, alive' = alive \cup {p},
           functions' = Append(functions, Start(p)),
           UNCHANGED <<routine, tasks, packets, batch, phase>>
    PROVE  Line'
<1>1. batch \in Seq(Entries) /\ functions \in Seq(Entries) /\ Start(p) \in Entries
  BY Zenon DEF Line, Entries
<1>2. /\ Queue \in Seq(Entries) /\ functions' \in Seq(Entries)
      /\ Queue' = Append(Queue, Start(p))
  BY <1>1, QueuePush
<1>3. ASSUME NEW q \in Peers
      PROVE  Places(q)' = (IF q \in alive THEN 1 ELSE 0)'
  <2>1. Count(Queue', Start(q)) = Count(Queue, Start(q)) + (IF p = q THEN 1 ELSE 0)
    BY <1>1, <1>2, CountAppend, EntryKinds
  <2>2. RoutineOf(q)' = RoutineOf(q)
    BY DEF RoutineOf
  <2>3. Places(q)' = Places(q) + (IF p = q THEN 1 ELSE 0)
    <3> DEFINE one == IF p = q THEN 1 ELSE 0
    <3>1. PICK a \in Nat, b \in Nat, c \in Nat :
             /\ a = Cardinality(RoutineOf(q)) /\ b = Count(tasks, q)
             /\ c = Count(Queue, Start(q))
      BY PlacesFacts, Zenon
    <3>2. Places(q) = a + b + c /\ Places(q)' = a + b + (c + one)
      BY <2>1, <2>2, <3>1, Zenon DEF Places
    <3>3. one \in Nat
      OBVIOUS
    <3> HIDE DEF one
    <3>4. Places(q)' = Places(q) + one
      BY <3>2, <3>3
    <3> QED
      BY <3>4, Zenon DEF one
  <2> QED
    BY <2>3 DEF Line
<1>4. ASSUME NEW s \in Routines, Call(s) \in Range(Queue)
      PROVE  Call(s) \in Range(Queue')
  BY <1>1, <1>2, <1>4, AfterPush, Zenon
<1> QED
  BY <1>1, <1>2, <1>3, <1>4, Zenon DEF Line

\* What a delivery queues: a Call of the routine that serves the peer.
LEMMA Delivered ==
    ASSUME Inv, Line, NEW p \in alive, NEW k \in Kinds, Deliver(p, k), UNCHANGED batch
    PROVE  /\ packets' = [packets EXCEPT ![p] = Append(@, k)]
           /\ Queue \in Seq(Entries) /\ functions' \in Seq(Entries)
           /\ RoutineOf(p) = {} => Queue' = Queue
           /\ \A r \in RoutineOf(p) : Call(r) \in Entries /\ Queue' = Append(Queue, Call(r))
<1>1. batch \in Seq(Entries) /\ functions \in Seq(Entries) /\ p \in Peers
  BY Zenon DEF Line, Inv, Table
<1>2. packets' = [packets EXCEPT ![p] = Append(@, k)]
  BY DEF Deliver
<1>3. Queue \in Seq(Entries)
  BY <1>1 DEF Queue
<1>4. CASE RoutineOf(p) = {}
  <2>1. functions' = functions
    BY <1>4 DEF Deliver
  <2> QED
    BY <1>1, <1>2, <1>4, <2>1, QueueKept
<1>5. ASSUME NEW r \in RoutineOf(p)
      PROVE  /\ functions' \in Seq(Entries)
             /\ Call(r) \in Entries /\ Queue' = Append(Queue, Call(r))
  <2>1. \A s \in RoutineOf(p) : s = r
    BY <1>1, PlacesFacts
  <2>2. (CHOOSE s \in RoutineOf(p) : TRUE) = r
    BY <2>1
  <2>3. functions' = Append(functions, Call(r))
    BY <2>2, Zenon DEF Deliver
  <2>4. Call(r) \in Entries
    BY DEF RoutineOf, Entries
  <2> QED
    BY <1>1, <2>3, <2>4, QueuePush
<1> QED
  BY <1>2, <1>3, <1>4, <1>5

\* A delivery to a peer that is served is followed by a Call of its routine.
LEMMA LineDeliver ==
    ASSUME Inv, Line, NEW p \in alive, NEW k \in Kinds, Deliver(p, k),
           UNCHANGED <<alive, routine, tasks, batch, phase>>
    PROVE  Line'
<1>1. batch \in Seq(Entries) /\ functions \in Seq(Entries) /\ p \in Peers
      /\ packets \in [Peers -> Seq(Kinds)] /\ routine \in [Routines -> Peers \cup {None}]
  BY Zenon DEF Line, Inv, Table
<1>2. /\ packets' = [packets EXCEPT ![p] = Append(@, k)]
      /\ Queue \in Seq(Entries) /\ functions' \in Seq(Entries)
      /\ RoutineOf(p) = {} => Queue' = Queue
      /\ \A r \in RoutineOf(p) : Call(r) \in Entries /\ Queue' = Append(Queue, Call(r))
  BY Delivered
<1>3. packets' \in [Peers -> Seq(Kinds)] /\ \A q \in Peers \ {p} : packets'[q] = packets[q]
  <2>1. packets[p] \in Seq(Kinds)
    BY <1>1
  <2>2. Append(packets[p], k) \in Seq(Kinds)
    BY <2>1
  <2> QED
    BY <1>1, <1>2, <2>2
<1>4. ASSUME NEW q \in Peers PROVE Places(q)' = Places(q)
  <2>1. Count(Queue', Start(q)) = Count(Queue, Start(q))
    <3>1. CASE RoutineOf(p) = {}
      BY <1>2, <3>1
    <3>2. ASSUME NEW r \in RoutineOf(p)
          PROVE  Count(Queue', Start(q)) = Count(Queue, Start(q))
      <4>1. Call(r) # Start(q) /\ Count(Queue, Start(q)) \in Nat
        BY <1>2, EntryKinds, CountType
      <4>2. Queue \in Seq(Entries) /\ Call(r) \in Entries /\ Queue' = Append(Queue, Call(r))
        BY <1>2
      <4>3. Count(Append(Queue, Call(r)), Start(q))
               = Count(Queue, Start(q)) + (IF Call(r) = Start(q) THEN 1 ELSE 0)
        BY <4>2, CountAppend, SMTT(10)
      <4> QED
        BY <4>1, <4>2, <4>3
    <3> QED
      BY <3>1, <3>2
  <2>2. RoutineOf(q)' = RoutineOf(q)
    BY DEF RoutineOf
  <2> QED
    BY <2>1, <2>2 DEF Places
<1>5. ASSUME NEW s \in Routines, Call(s) \in Range(Queue)
      PROVE  Call(s) \in Range(Queue')
  BY <1>2, <1>5, AfterPush, Zenon
<1>6. ASSUME NEW s \in Routines, routine'[s] # None, packets'[routine'[s]] # <<>>
      PROVE  Call(s) \in Range(Queue')
  <2>1. CASE routine[s] = p
    <3>1. s \in RoutineOf(p)
      BY <2>1 DEF RoutineOf
    <3> QED
      BY <1>2, <3>1, AfterPush, Zenon
  <2>2. CASE routine[s] # p
    <3>1. routine[s] \in Peers \ {p} /\ packets[routine[s]] # <<>>
      BY <1>1, <1>3, <1>6, <2>2
    <3> QED
      BY <1>5, <1>6, <3>1, Zenon DEF Line
  <2> QED
    BY <2>1, <2>2
<1>7. \A q \in Peers \ alive : packets'[q] = <<>>
  BY <1>3 DEF Line
<1> QED
  BY <1>1, <1>2, <1>3, <1>4, <1>6, <1>7, Zenon DEF Line

\* There is a first free routine.
LEMMA FirstFreeIsFree ==
    ASSUME FreeRoutines # {}
    PROVE  FirstFree \in Routines /\ routine[FirstFree] = None
<1> DEFINE R == OpToRel(<, Nat)
<1>1. IsWellFoundedOn(R, Nat)
  BY NatLessThanWellFounded, Zenon
<1>2. \A x, y \in Nat : <<x, y>> \in R <=> x < y
  BY DEF OpToRel
<1>3. FreeRoutines \in SUBSET Nat
  BY MediaAssumption, Zenon DEF FreeRoutines
<1> HIDE DEF R
<1>4. PICK x \in FreeRoutines : \A y \in FreeRoutines : <<y, x>> \notin R
  BY <1>1, <1>3, WFMin, Zenon
<1>5. \A y \in FreeRoutines : x <= y
  <2> TAKE y \in FreeRoutines
  <2>1. x \in Nat /\ y \in Nat
    BY <1>3
  <2>2. ~(y < x)
    BY <1>2, <1>4, <2>1, Zenon
  <2> QED
    BY <2>1, <2>2
<1>6. FirstFree \in FreeRoutines
  BY <1>5 DEF FirstFree
<1> QED
  BY <1>6 DEF FreeRoutines

\* Every step keeps who waits for what.
LEMMA LineStep ==
    ASSUME Inv, Line, [Next]_vars
    PROVE  Line'
<1>1. CASE RunDispatcher
  <2>1. /\ UNCHANGED <<alive, routine, tasks, packets, functions>> /\ phase' = "functions"
        /\ batch # <<>> /\ batch' = Tail(batch) /\ Head(batch) = Call(Dispatcher)
    BY <1>1 DEF RunDispatcher, peers, pool
  <2> QED
    BY <2>1, LineQuiet
<1>2. ASSUME NEW r \in Routines, RunCall(r) PROVE Line'
  <2>1. phase = "functions" /\ batch # <<>> /\ Head(batch) = Call(r)
    BY <1>2, Zenon DEF RunCall
  <2>2. CASE /\ routine[r] # None /\ ResumeMedia(r, routine[r])
             /\ batch' = Tail(batch) /\ UNCHANGED pool
    <3>1. /\ routine[r] \in Peers /\ packets' = [packets EXCEPT ![routine[r]] = <<>>]
          /\ UNCHANGED <<alive, functions, phase, routine, tasks>>
      BY <2>2 DEF ResumeMedia, pool, Inv, Table
    <3> QED
      BY <2>1, <2>2, <3>1, LineServe, Zenon
  <2>3. CASE /\ routine[r] = None /\ tasks # <<>>
             /\ routine' = [routine EXCEPT ![r] = Head(tasks)] /\ tasks' = Tail(tasks)
             /\ ResumeMedia(r, Head(tasks)) /\ batch' = Tail(batch)
    <3>1. /\ Head(tasks) \in Peers /\ packets' = [packets EXCEPT ![Head(tasks)] = <<>>]
          /\ UNCHANGED <<alive, functions, phase>>
      <4>1. tasks \in Seq(Peers) /\ tasks # <<>>
        BY <2>3, Zenon DEF Inv, Table
      <4>2. Head(tasks) \in Peers
        BY <4>1
      <4> QED
        BY <2>3, <4>2, Zenon DEF ResumeMedia
    <3> QED
      BY <2>1, <2>3, <3>1, LineServe, Zenon
  <2>4. CASE Dies("no task")
    <3>1. UNCHANGED <<alive, routine, tasks, packets, batch, functions, phase>>
      BY <2>4, Zenon DEF Dies, peers, pool, loop
    <3>2. phase' # "functions" => batch' = <<>>
      BY <3>1 DEF Line
    <3> QED
      BY <3>1, <3>2, LineQuiet
  <2> QED
    BY <1>2, <2>2, <2>3, <2>4, Zenon DEF RunCall
<1>3. ASSUME NEW p \in Peers, RunStart(p) PROVE Line'
  <2>1. /\ phase = "functions" /\ batch # <<>> /\ Head(batch) = Start(p)
        /\ tasks' = Append(tasks, p) /\ batch' = <<Drain>> \o Tail(batch)
        /\ UNCHANGED <<alive, routine, packets, functions, phase>>
    BY <1>3 DEF RunStart, peers
  <2> QED
    BY <2>1, LineStart
<1>4. CASE RunDrain
  <2>1. phase = "functions" /\ batch # <<>> /\ Head(batch) = Drain
    BY <1>4 DEF RunDrain
  <2>2. CASE tasks # <<>> /\ FreeRoutines # {}
    <3>1. /\ routine' = [routine EXCEPT ![FirstFree] = Head(tasks)] /\ tasks' = Tail(tasks)
          /\ packets' = [packets EXCEPT ![Head(tasks)] = <<>>]
          /\ UNCHANGED <<alive, functions, phase, batch>>
      BY <1>4, <2>2, Zenon DEF RunDrain, ResumeMedia
    <3>2. Head(tasks) \in Peers /\ FirstFree \in Routines /\ routine[FirstFree] = None
      BY <2>2, FirstFreeIsFree DEF Inv, Table
    <3> QED
      BY <2>2, <3>1, <3>2, LineServe, Zenon
  <2>3. CASE ~(tasks # <<>> /\ FreeRoutines # {})
    <3>1. /\ UNCHANGED <<alive, routine, tasks, packets, functions, phase>>
          /\ batch' = Tail(batch)
      BY <1>4, <2>3 DEF RunDrain, peers, pool
    <3> QED
      BY <2>1, <3>1, LineQuiet
  <2> QED
    BY <2>2, <2>3
<1>5. ASSUME NEW r \in Routines, ProcessNext(r) \/ MediaTimeout(r) PROVE Line'
  <2>1. CASE EndMedia(r)
    <3>1. routine[r] \in Peers
      BY <1>5, Zenon DEF ProcessNext, MediaTimeout, Inv, Table
    <3>2. /\ packets' = [packets EXCEPT ![routine[r]] = <<>>]
          /\ alive' = alive \ {routine[r]} /\ routine' = [routine EXCEPT ![r] = None]
          /\ UNCHANGED <<tasks, batch, functions, phase>>
      BY <2>1, Zenon DEF EndMedia, PeerConnectionDelete
    <3> QED
      BY <3>1, <3>2, LineEnd, Zenon
  <2>2. CASE UNCHANGED <<packets, alive, pool, loop>>
    <3>1. UNCHANGED <<alive, routine, tasks, packets, batch, functions, phase>>
      BY <2>2 DEF pool, loop
    <3>2. phase' # "functions" => batch' = <<>>
      BY <3>1 DEF Line
    <3> QED
      BY <3>1, <3>2, LineQuiet
  <2> QED
    BY <1>5, <2>1, <2>2 DEF ProcessNext, MediaTimeout
<1>6. ASSUME NEW u \in Ufrags, NEW p \in Peers, Pub(u, p) PROVE Line'
  <2>1. CASE Dies("key in use")
    <3>1. UNCHANGED <<alive, routine, tasks, packets, batch, functions, phase>>
      BY <2>1, Zenon DEF Dies, peers, pool, loop
    <3>2. phase' # "functions" => batch' = <<>>
      BY <3>1 DEF Line
    <3> QED
      BY <3>1, <3>2, LineQuiet
  <2>2. CASE connections[u] = None
    <3>1. /\ p \notin alive /\ alive' = alive \cup {p}
          /\ functions' = Append(functions, Start(p))
          /\ UNCHANGED <<routine, tasks, packets, batch, phase>>
      BY <1>6, <2>2 DEF Pub, pool
    <3> QED
      BY <3>1, LinePub
  <2> QED
    BY <1>6, <2>1, <2>2, Zenon DEF Pub
<1>7. ASSUME NEW a \in Addrs, NEW k \in Kinds, NEW u \in Ufrags, RecvFrom(a, k, u)
      PROVE  Line'
  <2>1. UNCHANGED <<alive, routine, tasks, batch, phase>>
    BY <1>7 DEF RecvFrom, pool
  <2>2. ASSUME NEW p \in alive, Deliver(p, k) PROVE Line'
    BY <2>1, <2>2, LineDeliver
  <2>3. CASE UNCHANGED <<packets, functions>>
    <3>1. phase' # "functions" => batch' = <<>>
      BY <2>1 DEF Line
    <3> QED
      BY <2>1, <2>3, <3>1, LineQuiet
  <2> QED
    BY <1>7, <2>2, <2>3 DEF RecvFrom
<1>8. CASE TickRecv \/ TickSend
  <2>1. /\ UNCHANGED <<alive, routine, tasks, packets, batch, phase>>
        /\ \/ UNCHANGED functions
           \/ functions' = Append(functions, Call(Dispatcher))
    BY <1>8, Zenon DEF TickRecv, TickSend, CheckTicks, QuietDispatch, peers, pool
  <2>2. phase' # "functions" => batch' = <<>>
    BY <2>1 DEF Line
  <2> QED
    BY <2>1, <2>2, LineQuiet
<1>9. CASE EndTurn
  <2>1. /\ UNCHANGED <<alive, routine, tasks, packets>> /\ phase' = "functions"
        /\ batch' = functions /\ functions' = <<>> /\ phase = "timers"
    BY <1>9 DEF EndTurn, peers, pool
  <2>2. batch = <<>>
    BY <2>1 DEF Line
  <2> QED
    BY <2>1, <2>2, LineQuiet
<1>10. CASE Poll \/ PollIn \/ PollOut \/ Readable \/ Writable
  <2>1. /\ UNCHANGED <<alive, routine, tasks, packets, batch, functions>>
        /\ phase # "functions" \/ batch = <<>>
    BY <1>10, Zenon DEF Poll, PollIn, PollOut, Readable, Writable, SetPhase, peers, pool
  <2>2. phase' # "functions" => batch' = <<>>
    BY <2>1 DEF Line
  <2> QED
    BY <2>1, <2>2, LineQuiet
<1>11. CASE \/ \E r \in Routines : Park(r)
            \/ RecvTimeout \/ Alloc \/ RecvAgain \/ RecvInterrupted
            \/ Sendto \/ SendtoAgain \/ EndFlush
            \/ \E p \in Peers : DtlsTimer(p) \/ PliTimer(p)
            \/ Ended \/ UNCHANGED vars
  <2>1. UNCHANGED <<alive, routine, tasks, packets, batch, functions, phase>>
    BY <1>11, Zenon DEF Park, RecvTimeout, Alloc, RecvAgain, RecvInterrupted, Sendto,
       SendtoAgain, EndFlush, DtlsTimer, PliTimer, TimerOutcome, Dies, QuietDispatch,
       Ended, vars, peers, pool, loop
  <2>2. phase' # "functions" => batch' = <<>>
    BY <2>1 DEF Line
  <2> QED
    BY <2>1, <2>2, LineQuiet
<1> QED
  BY <1>1, <1>2, <1>3, <1>4, <1>5, <1>6, <1>7, <1>8, <1>9, <1>10, <1>11
     DEF Next, LoopStep, Environment

-----------------------------------------------------------------------------
(* The buffers.                                                            *)

\* The buffer the dispatcher has.
Own == IF buf THEN 1 ELSE 0

\* The buffers that are in no packets_ queue.
Outside == buffers + held + Own

\* The buffers that leave p's packets_ as it becomes s are outside the queues
\* afterwards, and the ones that enter it were before.
Moved(p, s) ==
    \E x, y, i, j \in Nat : /\ x = Outside /\ y = Outside'
                           /\ i = Len(packets[p]) /\ j = Len(s)
                           /\ y + j = x + i

\* Steps that move no packet move no buffer, or one between the pool, the
\* dispatcher and a HandleMedia.
LEMMA HeldQuiet ==
    ASSUME Line, Held, BuffersConserved, UNCHANGED packets,
           buffers' \in Nat, held' \in Nat, buf' \in BOOLEAN,
           running' \notin Routines => held' = 0,
           dpc' = "alloc" => ~buf', dpc' \in {"recv", "recvfrom", "parked"} => buf',
           buffers' + held' + Own'
              = buffers + held + Own
    PROVE  Held' /\ BuffersConserved'
<1>1. Cardinality(Packets(packets, Peers)) \in Nat
  BY PacketsFinite, Zenon DEF Line
<1>2. BuffersConserved'
  BY <1>1, Zenon DEF BuffersConserved, Held, Own
<1>3. Held'
  BY DEF Held
<1> QED
  BY <1>2, <1>3

\* Steps that change the packets_ of one peer.
LEMMA HeldMoved ==
    ASSUME Line, Held, BuffersConserved, NEW p \in Peers, NEW s \in Seq(Kinds),
           packets' = [packets EXCEPT ![p] = s],
           buffers' \in Nat, held' \in Nat, buf' \in BOOLEAN,
           running' \notin Routines => held' = 0,
           dpc' = "alloc" => ~buf', dpc' \in {"recv", "recvfrom", "parked"} => buf',
           Moved(p, s)
    PROVE  Held' /\ BuffersConserved'
<1>1. packets \in [Peers -> Seq(Kinds)] /\ packets' \in [Peers -> Seq(Kinds)]
  BY DEF Line
<1>2. Cardinality(Packets(packets, Peers)) \in Nat /\ Cardinality(Packets(packets', Peers)) \in Nat
  BY <1>1, PacketsFinite, Zenon
<1>3. Cardinality(Packets(packets', Peers)) + Len(packets[p])
         = Cardinality(Packets(packets, Peers)) + Len(s)
  BY <1>1, PacketsSet, Zenon
<1>4. BuffersConserved'
  <2>1. PICK x \in Nat, y \in Nat, i \in Nat, j \in Nat :
               /\ x = Outside /\ y = Outside' /\ i = Len(packets[p]) /\ j = Len(s)
               /\ y + j = x + i
    BY Zenon DEF Moved
  <2>2. PICK n \in Nat, m \in Nat : /\ n = Cardinality(Packets(packets, Peers))
                                   /\ m = Cardinality(Packets(packets', Peers))
    BY <1>2
  <2>3. m + i = n + j
    BY <1>3, <2>1, <2>2
  <2>4. BufferNum = x + n
    BY <2>1, <2>2, Zenon DEF BuffersConserved, Outside, Own
  <2>5. y + j = x + i
    BY <2>1
  <2>6. y + m = x + n
    BY <2>3, <2>5
  <2> QED
    BY <2>1, <2>2, <2>4, <2>6 DEF BuffersConserved, Outside, Own
<1>5. Held'
  BY DEF Held
<1> QED
  BY <1>4, <1>5

\* Every step gives back what it takes.
LEMMA HeldStep ==
    ASSUME Inv, Line, Held, BuffersConserved, [Next]_vars
    PROVE  Held' /\ BuffersConserved'
<1>1. /\ buffers \in Nat /\ held \in Nat /\ buf \in BOOLEAN
      /\ running \notin Routines => held = 0
      /\ dpc = "alloc" => ~buf
      /\ dpc \in {"recv", "recvfrom", "parked"} => buf
  BY DEF Held
<1>0. (running \notin Routines => held = 0) /\ Own \in Nat
  BY <1>1 DEF Own
<1>2. Main \notin Routines /\ Dispatcher \notin Routines /\ Main # Dispatcher
  BY MediaAssumption DEF Main, Dispatcher
<1>3. packets \in [Peers -> Seq(Kinds)] /\ <<>> \in Seq(Kinds) /\ Len(<<>>) = 0
  BY DEF Line
<1>4. ASSUME NEW r \in Routines, NEW p \in Peers, ResumeMedia(r, p), running = Main
      PROVE  Held' /\ BuffersConserved'
  <2>1. /\ running' = r /\ held' = Len(packets[p]) /\ packets' = [packets EXCEPT ![p] = <<>>]
        /\ UNCHANGED <<buffers, dpc, buf>>
    BY <1>4 DEF ResumeMedia, dispatcher
  <2>2. packets[p] \in Seq(Kinds)
    BY <1>3
  <2>3. PICK j \in Nat : j = Len(packets[p])
    BY <2>2
  <2>4. held = 0
    BY <1>1, <1>2, <1>4
  <2>5. PICK x \in Nat : x = Outside
    BY <1>0, <1>1 DEF Outside
  <2>6. held' \in Nat /\ x + j \in Nat /\ 0 \in Nat
    BY <2>1, <2>3
  <2>7. x + j = Outside'
    <3>1. Own' = Own /\ held' = j /\ buffers' = buffers
      BY <2>1, <2>3 DEF Own
    <3> QED
      BY <1>0, <1>1, <2>4, <2>5, <3>1 DEF Outside
  <2>8. Moved(p, <<>>)
    <3>1. PICK y \in Nat : y = Outside' /\ y = x + j
      BY <2>6, <2>7
    <3>2. y + 0 = x + j
      BY <3>1
    <3> QED
      BY <1>3, <2>3, <2>5, <3>1, <3>2, Zenon DEF Moved
  <2> QED
    BY <1>1, <1>3, <2>1, <2>6, <2>8, HeldMoved, Zenon
<1>5. ASSUME NEW r \in Routines, EndMedia(r), UNCHANGED <<dpc, buf>>, routine[r] \in Peers
      PROVE  Held' /\ BuffersConserved'
  <2> DEFINE p == routine[r]
  <2>1. /\ running' = Main /\ held' = 0 /\ packets' = [packets EXCEPT ![p] = <<>>]
        /\ buffers' = buffers + held + Len(packets[p]) /\ p \in Peers
    BY <1>5, Zenon DEF EndMedia, PeerConnectionDelete
  <2>2. packets[p] \in Seq(Kinds)
    BY <1>3, <2>1
  <2> HIDE DEF p
  <2>3. PICK j \in Nat : j = Len(packets[p])
    BY <2>2
  <2>4. buffers \in Nat /\ held \in Nat /\ held' = 0 /\ buffers' = buffers + held + j
    BY <1>1, <2>1, <2>3
  <2>5. PICK x \in Nat : x = Outside
    BY <1>0, <1>1 DEF Outside
  <2>6. buffers' \in Nat /\ x + j \in Nat /\ 0 \in Nat
    BY <2>4
  <2>7. x + j = Outside'
    <3>1. Own' = Own
      BY <1>5 DEF Own
    <3> QED
      BY <1>0, <2>4, <2>5, <3>1 DEF Outside
  <2>8. Moved(p, <<>>)
    <3>1. PICK y \in Nat : y = Outside' /\ y = x + j
      BY <2>6, <2>7
    <3>2. y + 0 = x + j
      BY <3>1
    <3> QED
      BY <1>3, <2>3, <2>5, <3>1, <3>2, Zenon DEF Moved
  <2> QED
    BY <1>1, <1>2, <1>3, <1>5, <2>1, <2>4, <2>6, <2>8, HeldMoved, Zenon
<1>6. /\ packets' = packets /\ buffers' = buffers /\ held' = held /\ buf' = buf
      /\ running' \notin Routines => held = 0
      /\ \/ dpc' = dpc
         \/ dpc' \in {"flush", "sendto", "blocked"}
         \/ dpc \in {"recv", "recvfrom", "parked"} /\ dpc' # "alloc"
      => Held' /\ BuffersConserved'
  <2> SUFFICES ASSUME packets' = packets, buffers' = buffers, held' = held, buf' = buf,
                      running' \notin Routines => held = 0,
                      \/ dpc' = dpc
                      \/ dpc' \in {"flush", "sendto", "blocked"}
                      \/ dpc \in {"recv", "recvfrom", "parked"} /\ dpc' # "alloc"
               PROVE  Held' /\ BuffersConserved'
    OBVIOUS
  <2>1. buffers' + held' + Own' = buffers + held + Own
    BY DEF Own
  <2> QED
    BY <1>1, <2>1, HeldQuiet
<1>7. ASSUME NEW r \in Routines, RunCall(r) PROVE Held' /\ BuffersConserved'
  <2>1. running = Main
    BY <1>7, Zenon DEF RunCall
  <2>2. CASE routine[r] # None /\ ResumeMedia(r, routine[r])
    <3>1. routine[r] \in Peers
      BY <2>2 DEF Inv, Table
    <3> QED
      BY <1>4, <2>1, <2>2, <3>1
  <2>3. CASE tasks # <<>> /\ ResumeMedia(r, Head(tasks))
    <3>1. Head(tasks) \in Peers
      BY <2>3 DEF Inv, Table
    <3> QED
      BY <1>4, <2>1, <2>3, <3>1
  <2>4. CASE Dies("no task")
    <3>1. UNCHANGED <<packets, buffers, held, buf, running, dpc>>
      BY <2>4, Zenon DEF Dies, peers, dispatcher, loop
    <3> QED
      BY <1>0, <1>6, <3>1
  <2> QED
    BY <1>7, <2>2, <2>3, <2>4, Zenon DEF RunCall
<1>8. CASE RunDrain
  <2>1. CASE tasks # <<>> /\ FreeRoutines # {}
    <3>1. running = Main /\ ResumeMedia(FirstFree, Head(tasks))
      BY <1>8, <2>1 DEF RunDrain
    <3>2. Head(tasks) \in Peers /\ FirstFree \in Routines
      BY <2>1, FirstFreeIsFree DEF Inv, Table
    <3> QED
      BY <1>4, <3>1, <3>2
  <2>2. CASE ~(tasks # <<>> /\ FreeRoutines # {})
    <3>1. UNCHANGED <<packets, buffers, held, buf, running, dpc>>
      BY <1>8, <2>2, Zenon DEF RunDrain, peers, dispatcher
    <3> QED
      BY <1>0, <1>6, <3>1
  <2> QED
    BY <2>1, <2>2
<1>9. ASSUME NEW r \in Routines, ProcessNext(r) \/ MediaTimeout(r)
      PROVE  Held' /\ BuffersConserved'
  <2>1. UNCHANGED <<dpc, buf>>
    BY <1>9, Zenon DEF ProcessNext, MediaTimeout, AsyncSend, dispatcher
  <2>2. routine[r] \in Peers
    BY <1>9, Zenon DEF ProcessNext, MediaTimeout, Inv, Table
  <2>3. CASE EndMedia(r)
    BY <1>5, <2>1, <2>2, <2>3
  <2>4. CASE UNCHANGED <<packets, buffers, held, loop>>
    <3>1. UNCHANGED running
      BY <2>4 DEF loop
    <3> QED
      BY <1>0, <1>6, <2>1, <2>4, <3>1
  <2> QED
    BY <1>9, <2>3, <2>4, Zenon DEF ProcessNext, MediaTimeout
<1>10. ASSUME NEW r \in Routines, Park(r) PROVE Held' /\ BuffersConserved'
  <2>1. /\ running' = Main /\ held' = 0 /\ buffers' = buffers + held
        /\ UNCHANGED <<packets, buf, dpc>>
    BY <1>10 DEF Park, peers, dispatcher
  <2>2. /\ buffers' \in Nat
        /\ buffers' + held' + Own'
              = buffers + held + Own
    BY <1>1, <2>1 DEF Own
  <2> QED
    BY <1>1, <2>1, <2>2, HeldQuiet
<1>11. CASE Alloc
  <2>1. CASE Dies("null buffer")
    <3>1. UNCHANGED <<packets, buffers, held, buf, running, dpc>>
      BY <2>1, Zenon DEF Dies, peers, dispatcher, loop
    <3> QED
      BY <1>0, <1>6, <3>1
  <2>2. CASE buffers > 0
    <3>0. ~(buffers = 0)
      BY <1>1, <2>2
    <3>1. /\ dpc = "alloc" /\ buffers' = buffers - 1 /\ buf' = TRUE /\ dpc' = "recv"
          /\ UNCHANGED <<packets, held, running>>
      BY <1>11, <3>0, Zenon DEF Alloc, Dispatching, QuietDispatch, peers
    <3>2. /\ buffers' \in Nat /\ ~buf
          /\ buffers' + held' + Own'
                = buffers + held + Own
      BY <1>1, <2>2, <3>1 DEF Own
    <3> QED
      BY <1>1, <3>1, <3>2, HeldQuiet
  <2> QED
    BY <1>11, <2>1, <2>2, Zenon DEF Alloc
<1>12. CASE EndFlush
  <2>1. /\ buffers' = (IF buf THEN buffers + 1 ELSE buffers) /\ buf' = FALSE
        /\ dpc' = "alloc" /\ UNCHANGED <<packets, held, running>>
    BY <1>12 DEF EndFlush, QuietDispatch, peers
  <2>2. /\ buffers' \in Nat
        /\ buffers' + held' + Own'
              = buffers + held + Own
    BY <1>1, <2>1 DEF Own
  <2> QED
    BY <1>1, <2>1, <2>2, HeldQuiet, Zenon
<1>13. ASSUME NEW a \in Addrs, NEW k \in Kinds, NEW u \in Ufrags, RecvFrom(a, k, u)
       PROVE  Held' /\ BuffersConserved'
  <2>1. dpc = "recvfrom" /\ dpc' = "flush" /\ UNCHANGED <<buffers, held, running>>
    BY <1>13 DEF RecvFrom, Dispatching
  <2>2. ASSUME NEW p \in alive, Deliver(p, k) PROVE Held' /\ BuffersConserved'
    <3>1. buf' = FALSE /\ packets' = [packets EXCEPT ![p] = Append(packets[p], k)]
      BY <2>2 DEF Deliver
    <3>2. p \in Peers /\ packets[p] \in Seq(Kinds)
      BY <1>3, Zenon DEF Inv, Table
    <3>3. Append(packets[p], k) \in Seq(Kinds) /\ Len(packets[p]) \in Nat
          /\ Len(Append(packets[p], k)) = Len(packets[p]) + 1
      BY <3>2
    <3>4. PICK j \in Nat : j = Len(packets[p])
      BY <3>3
    <3>5. Own' = 0 /\ Own = 1
      BY <1>1, <2>1, <3>1 DEF Own
    <3>6. PICK y \in Nat : y = Outside' /\ y + 1 = Outside
      <4>1. buffers \in Nat /\ held \in Nat /\ buffers' = buffers /\ held' = held
        BY <1>1, <2>1
      <4> QED
        BY <3>5, <4>1 DEF Outside
    <3>7. j + 1 \in Nat /\ j + 1 = Len(Append(packets[p], k))
      BY <3>3, <3>4
    <3>8. y + 1 \in Nat /\ y + (j + 1) = y + 1 + j
      OBVIOUS
    <3>9. Moved(p, Append(packets[p], k))
      BY <3>4, <3>6, <3>7, <3>8 DEF Moved
    <3> QED
      BY <1>1, <2>1, <3>1, <3>2, <3>3, <3>9, HeldMoved, Zenon
  <2>3. CASE UNCHANGED <<packets, buf>>
    BY <1>0, <1>6, <2>1, <2>3
  <2> QED
    BY <1>13, <2>2, <2>3 DEF RecvFrom
<1>14. CASE TickRecv \/ TickSend \/ RecvAgain \/ RecvInterrupted \/ Sendto \/ SendtoAgain
  <2>1. /\ UNCHANGED <<packets, buffers, held, buf>> /\ running = Dispatcher
        /\ \/ dpc' \in {"flush", "sendto", "blocked"}
           \/ dpc \in {"recv", "recvfrom", "parked"} /\ dpc' # "alloc"
    BY <1>14, Zenon DEF TickRecv, TickSend, CheckTicks, RecvAgain, RecvInterrupted, Sendto,
       SendtoAgain, Dispatching, QuietDispatch, peers
  <2> QED
    BY <1>0, <1>2, <1>6, <2>1
<1>15. CASE \/ RunDispatcher \/ Poll \/ PollIn \/ PollOut \/ EndTurn
            \/ Readable \/ Writable \/ RecvTimeout
  <2>1. /\ UNCHANGED <<packets, buffers, held, buf>> /\ running = Main
        /\ \/ dpc' = dpc \/ dpc' \in {"flush", "sendto", "blocked"}
           \/ dpc \in {"recv", "recvfrom", "parked"} /\ dpc' # "alloc"
    BY <1>15, Zenon DEF RunDispatcher, Poll, PollIn, PollOut, EndTurn, Readable, Writable,
       RecvTimeout, TimersRun, SetPhase, peers, dispatcher
  <2> QED
    BY <1>0, <1>2, <1>6, <2>1
<1>16. CASE \/ \E p \in Peers : RunStart(p) \/ DtlsTimer(p) \/ PliTimer(p)
            \/ \E u \in Ufrags, p \in Peers : Pub(u, p)
            \/ Ended \/ UNCHANGED vars
  <2>1. UNCHANGED <<packets, buffers, held, buf, running, dpc>>
    BY <1>16, Zenon DEF RunStart, DtlsTimer, PliTimer, TimerOutcome, AsyncSend, Pub, Dies,
       Ended, vars, peers, dispatcher, loop
  <2> QED
    BY <1>0, <1>6, <2>1
<1> QED
  BY <1>7, <1>8, <1>9, <1>10, <1>11, <1>12, <1>13, <1>14, <1>15, <1>16, Zenon
     DEF Next, LoopStep, Environment

-----------------------------------------------------------------------------
(* The sessions.                                                           *)

\* Every session is sound.
SoundSessions == session \in [Peers -> Sessions] /\ \A p \in Peers : Sound(session[p])

\* One session is replaced by a sound one.
LEMMA SessionSet ==
    ASSUME SoundSessions, NEW p \in Peers, NEW s, Sound(s), session' = [session EXCEPT ![p] = s]
    PROVE  SoundSessions'
<1>1. s \in Sessions
  BY DEF Sound
<1>2. session' \in [Peers -> Sessions]
  BY <1>1 DEF SoundSessions
<1>3. ASSUME NEW q \in Peers PROVE Sound(session'[q])
  <2>1. session'[q] = IF q = p THEN s ELSE session[q]
    BY DEF SoundSessions
  <2> QED
    BY <2>1 DEF SoundSessions
<1> QED
  BY <1>2, <1>3 DEF SoundSessions

\* Every step keeps the sessions sound.
LEMMA SessionsStep ==
    ASSUME Inv, SoundSessions, [Next]_vars
    PROVE  SoundSessions'
<1>1. UNCHANGED session => SoundSessions'
  BY DEF SoundSessions
<1>2. Sound(NewSession)
  BY Zenon DEF Sound, NewSession, Sessions, Armed
<1>3. ASSUME NEW r \in Routines, EndMedia(r), routine[r] \in Peers PROVE SoundSessions'
  <2>1. session' = [session EXCEPT ![routine[r]] = NewSession]
    BY <1>3, Zenon DEF EndMedia, PeerConnectionDelete
  <2> QED
    BY <1>2, <1>3, <2>1, SessionSet, Zenon
<1>4. ASSUME NEW r \in Routines, ProcessNext(r) PROVE SoundSessions'
  <2>1. routine[r] \in Peers
    BY <1>4, Zenon DEF ProcessNext, Inv, Table
  <2>2. PICK o \in ProcessPacket(session[routine[r]], Head(todo)) :
           EndMedia(r) \/ session' = [session EXCEPT ![routine[r]] = o.s]
    BY <1>4, Zenon DEF ProcessNext
  <2>3. Sound(session[routine[r]])
    BY <2>1 DEF SoundSessions
  <2>4. Sound(o.s)
    BY <2>3, PacketArms, Zenon
  <2> QED
    BY <1>3, <2>1, <2>2, <2>4, SessionSet
<1>5. ASSUME NEW r \in Routines, MediaTimeout(r) PROVE SoundSessions'
  BY <1>3, <1>5, Zenon DEF MediaTimeout, Inv, Table
<1>6. ASSUME NEW p \in Peers, DtlsTimer(p) PROVE SoundSessions'
  <2>1. PICK o \in OnDtlsTimer(session[p]) : session' = [session EXCEPT ![p] = o.s]
    BY <1>6, Zenon DEF DtlsTimer, TimerOutcome
  <2>2. Sound(session[p]) /\ session[p].timer
    BY <1>6 DEF SoundSessions, DtlsTimer
  <2>3. Sound(o.s)
    BY <2>2, DtlsTimerArms, Zenon
  <2> QED
    BY <2>1, <2>3, SessionSet, Zenon
<1>7. ASSUME NEW p \in Peers, PliTimer(p) PROVE SoundSessions'
  <2>1. session' = [session EXCEPT ![p] = session[p]]
    BY <1>7 DEF PliTimer, TimerOutcome, OnPliTimer, Outcome
  <2> QED
    BY <2>1, SessionSet DEF SoundSessions
<1>8. ASSUME NEW p \in Peers, RunStart(p) PROVE SoundSessions'
  BY <1>1, <1>8 DEF RunStart, peers
<1>9. ASSUME NEW r \in Routines, RunCall(r) \/ Park(r) PROVE SoundSessions'
  BY <1>1, <1>9, Zenon DEF RunCall, Park, ResumeMedia, Dies, peers
<1>10. ASSUME NEW a \in Addrs, NEW k \in Kinds, NEW u \in Ufrags, RecvFrom(a, k, u)
       PROVE  SoundSessions'
  BY <1>1, <1>10 DEF RecvFrom
<1>11. ASSUME NEW u \in Ufrags, NEW p \in Peers, Pub(u, p) PROVE SoundSessions'
  BY <1>1, <1>11, Zenon DEF Pub, Dies, peers
<1>12. CASE \/ RunDispatcher \/ RunDrain \/ Poll \/ PollIn \/ PollOut \/ EndTurn
            \/ Readable \/ Writable \/ RecvTimeout
  BY <1>1, <1>12, Zenon DEF RunDispatcher, RunDrain, ResumeMedia, Poll, PollIn, PollOut, EndTurn,
     Readable, Writable, RecvTimeout, SetPhase, peers
<1>13. CASE \/ Alloc \/ TickRecv \/ TickSend \/ RecvAgain \/ RecvInterrupted
            \/ Sendto \/ SendtoAgain \/ EndFlush
  BY <1>1, <1>13, Zenon DEF Alloc, TickRecv, TickSend, CheckTicks, RecvAgain, RecvInterrupted,
     Sendto, SendtoAgain, EndFlush, QuietDispatch, Dies, peers
<1>14. CASE UNCHANGED vars
  BY <1>1, <1>14 DEF vars, peers
<1> QED
  BY <1>4, <1>5, <1>6, <1>7, <1>8, <1>9, <1>10, <1>11, <1>12, <1>13, <1>14, Zenon
     DEF Next, LoopStep, Environment, Ended

-----------------------------------------------------------------------------
(* The initial state, and the theorems.                                    *)

\* At the start the dispatcher's Call is queued, and nothing else.
LEMMA InitFacts ==
    ASSUME Init
    PROVE  Inv /\ Line /\ Held /\ BuffersConserved /\ SoundSessions
<1> DEFINE d == Call(Dispatcher)
<1>1. Inv
  <2>1. <<>> \in Seq(Peers) /\ running \notin Routines
    <3>1. running = Main
      BY DEF Init
    <3> QED
      BY <3>1, MediaAssumption DEF Main
  <2>2. Table
    BY <2>1, MediaAssumption, Zenon DEF Init, Table
  <2>3. PeerReachable
    BY DEF Init, PeerReachable
  <2> QED
    BY <2>2, <2>3 DEF Inv
<1>2. d \in Entries /\ <<d>> \in Seq(Entries) /\ <<>> \in Seq(Entries) /\ <<>> \in Seq(Peers)
      /\ <<>> \in Seq(Kinds)
  BY DEF Entries
<1>3. Queue = <<d>> /\ batch = <<d>> /\ functions = <<>>
  BY DEF Init, Queue
<1>4. \A e : Count(<<>>, e) = 0
  BY FS_EmptySet DEF Count, At
<1> HIDE DEF d
<1>5. <<d>> # <<>> /\ Head(<<d>>) = d /\ Tail(<<d>>) = <<>>
  OBVIOUS
<1>6. ASSUME NEW e PROVE Count(Queue, e) = IF e = d THEN 1 ELSE 0
  <2>1. Count(<<d>>, e) = Count(Tail(<<d>>), e) + (IF Head(<<d>>) = e THEN 1 ELSE 0)
    BY <1>2, <1>5, CountTail, Zenon
  <2> QED
    BY <1>3, <1>4, <1>5, <2>1
<1>7. /\ tasks = <<>> /\ alive = {} /\ phase = "functions" /\ running = Main /\ dpc = "alloc"
      /\ ticks = 0 /\ buffers = BufferNum /\ held = 0 /\ buf = FALSE
      /\ packets = [p \in Peers |-> <<>>] /\ routine = [r \in Routines |-> None]
      /\ session = [p \in Peers |-> NewSession]
  BY Zenon DEF Init
<1>8. \A p \in Peers : RoutineOf(p) = {}
  BY <1>7, MediaAssumption, Zenon DEF RoutineOf
<1>9. Line
  <2>1. ASSUME NEW p \in Peers PROVE Places(p) = 0
    <3>1. Start(p) # d
      BY EntryKinds DEF d
    <3>2. Cardinality(RoutineOf(p)) = 0 /\ Count(tasks, p) = 0 /\ Count(Queue, Start(p)) = 0
      BY <1>4, <1>6, <1>7, <1>8, <3>1, FS_EmptySet, Zenon
    <3> QED
      BY <3>2 DEF Places
  <2>2. packets \in [Peers -> Seq(Kinds)] /\ \A p \in Peers : packets[p] = <<>>
    BY <1>2, <1>7
  <2>3. \A r \in Routines : routine[r] = None
    BY <1>7
  <2> QED
    BY <1>2, <1>3, <1>7, <2>1, <2>2, <2>3, Zenon DEF Line
<1>10. Held
  BY <1>7, MediaAssumption, Zenon DEF Held
<1>11. BuffersConserved
  <2>1. \A p \in Peers : DOMAIN packets[p] = {}
    BY <1>7
  <2>2. Packets(packets, Peers) = {}
    BY <2>1 DEF Packets
  <2>3. BufferNum \in Nat /\ Cardinality(Packets(packets, Peers)) = 0
    BY <2>2, FS_EmptySet, MediaAssumption, Zenon
  <2> QED
    BY <1>7, <2>3 DEF BuffersConserved
<1>12. SoundSessions
  <2>1. Sound(NewSession)
    BY Zenon DEF Sound, NewSession, Sessions, Armed
  <2>2. NewSession \in Sessions
    BY <2>1 DEF Sound
  <2> QED
    BY <1>7, <2>1, <2>2 DEF SoundSessions
<1> QED
  BY <1>1, <1>9, <1>10, <1>11, <1>12

\* A live peer is served by one routine or waits in one place, and once it is
\* served, packets in packets_ have a Call of its routine on its way: the test of
\* empty packets_ before WaitRead and the Schedule after each delivery never miss
\* each other.
THEOREM PeersStayServed == Spec => []PeerServed
<1>1. Init => Inv /\ Line
  BY InitFacts
<1>2. (Inv /\ Line) /\ [Next]_vars => (Inv /\ Line)'
  BY TableStep, LineStep
<1>3. Inv /\ Line => PeerServed
  <2> SUFFICES ASSUME Inv, Line, NEW p \in alive
               PROVE  /\ Places(p) = 1
                      /\ \A r \in RoutineOf(p) : packets[p] # <<>> => Call(r) \in Range(Queue)
    BY Zenon DEF PeerServed, Places, Count
  <2>1. p \in Peers /\ p # None
    BY MediaAssumption, Zenon DEF Inv, Table
  <2> QED
    BY <2>1 DEF Line, RoutineOf
<1> QED
  BY <1>1, <1>2, <1>3, PTL DEF Spec

\* No path of DispatchDataLoop, HandleMedia and PeerConnectionDelete loses a
\* buffer of the pool or gives one back twice.
THEOREM BuffersStayConserved == Spec => []BuffersConserved
<1> DEFINE I == Inv /\ Line /\ Held /\ BuffersConserved
<1>1. Init => I
  BY InitFacts
<1>2. I /\ [Next]_vars => I'
  BY TableStep, LineStep, HeldStep
<1>3. I => BuffersConserved
  OBVIOUS
<1> QED
  BY <1>1, <1>2, <1>3, PTL DEF Spec

\* While a DTLS flight waits, the timer that retransmits it is in the wheel unless
\* the wheel ran it early; after the handshake it is not.
THEOREM RetransmissionStaysArmed == Spec => []RetransmitArmed
<1>1. Init => Inv /\ SoundSessions
  BY InitFacts
<1>2. (Inv /\ SoundSessions) /\ [Next]_vars => (Inv /\ SoundSessions)'
  BY TableStep, SessionsStep
<1>3. Inv /\ SoundSessions => RetransmitArmed
  BY Zenon DEF Inv, Table, SoundSessions, Sound, Armed, RetransmitArmed
<1> QED
  BY <1>1, <1>2, <1>3, PTL DEF Spec
=============================================================================
