---------------------- MODULE AdvertisementPathProofs ----------------------
(***************************************************************************)
(* The path of an advertisement implements LossyFifo, for queues of any    *)
(* size and any number of advertisements, streams and faults.              *)
(*                                                                         *)
(* The inductive invariant is that the queues hold increasing numbers, and *)
(* every queue older ones than all queues before it.                       *)
(***************************************************************************)
EXTENDS AdvertisementPath, TLAPS

Increasing(s) == \A i, j \in 1..Len(s) : i < j => s[i] < s[j]

Before(S, T) == \A a \in S, b \in T : a < b

(* The advertisements in the lists handed to the event loop, and the order *)
(* in which these lists hold them.                                         *)
Joined(l) == UNION {Range(q) : q \in Range(l)}

InSequence(l) ==
    /\ \A k \in 1..Len(l) : Increasing(l[k])
    /\ \A j, k \in 1..Len(l) : j < k => Before(Range(l[j]), Range(l[k]))

(* Every stage of the path holds older advertisements than the stages      *)
(* before it.                                                              *)
Chain(A, N, P, L, B, W, M) ==
    /\ Before(A, N) /\ Before(A, P) /\ Before(A, L) /\ Before(A, B) /\ Before(A, W) /\ Before(A, M)
    /\ Before(N, P) /\ Before(N, L) /\ Before(N, B) /\ Before(N, W) /\ Before(N, M)
    /\ Before(P, L) /\ Before(P, B) /\ Before(P, W) /\ Before(P, M)
    /\ Before(L, B) /\ Before(L, W) /\ Before(L, M)
    /\ Before(B, W) /\ Before(B, M)
    /\ Before(W, M)

Queues ==
    /\ msgq \in Seq(Nat) /\ wire \in Seq(Nat) /\ batch \in Seq(Nat) /\ advQueue \in Seq(Nat)
    /\ net \in Seq(Nat) /\ advQ \in Seq(Nat) /\ mqttQ \in Seq(Nat) /\ log \in Seq(Nat)
    /\ loop \in Seq(Seq(Nat))

(* Typed lines are not collected, so none of them overtakes a batch.       *)
Sorted ==
    /\ typed => batch = <<>>
    /\ Increasing(msgq) /\ Increasing(wire) /\ Increasing(batch) /\ InSequence(loop)
    /\ Increasing(advQueue) /\ Increasing(net) /\ Increasing(advQ)

Ordered ==
    Chain(Range(advQ), Range(net), Range(advQueue), Joined(loop),
          Range(batch), Range(wire), Range(msgq))

Flying ==
    Range(advQ) \cup Range(net) \cup Range(advQueue) \cup Joined(loop)
      \cup Range(batch) \cup Range(wire) \cup Range(msgq)

Reported == Flying \cup Range(mqttQ) \cup Range(log) \subseteq 1..(next - 1)

Control ==
    /\ next \in 1..MaxAdvs + 1
    /\ Len(msgq) <= FwCap /\ Len(wire) <= WireCap /\ Len(batch) < BatchSize
    /\ Len(advQueue) <= PiCap /\ Len(advQ) <= GwCap /\ Len(mqttQ) <= GwCap
    /\ {scanning, typed, flag, mqttUp} \subseteq BOOLEAN
    /\ serving \subseteq Streams
    /\ cur \in serving \cup {NoStream}
    /\ faults \in 0..MaxFaults

IInv == Queues /\ Sorted /\ Ordered /\ Reported /\ Control

-----------------------------------------------------------------------------
(* Sequences of numbers *)

LEMMA RangeIn == \A s \in Seq(Nat) : \A x : x \in Range(s) <=> \E i \in 1..Len(s) : x = s[i]
    BY DEF Range

LEMMA RangeHas ==
    ASSUME NEW s \in Seq(Nat), NEW x \in Range(s)
    PROVE  \E i \in 1..Len(s) : x = s[i]
    BY RangeIn

LEMMA EmptyQueue == /\ <<>> \in Seq(Nat) /\ Len(<<>>) = 0
                    /\ Range(<<>>) = {} /\ Increasing(<<>>)
    BY DEF Range, Increasing

LEMMA OneItem ==
    ASSUME NEW x \in Nat
    PROVE  <<x>> \in Seq(Nat) /\ Len(<<x>>) = 1 /\ Range(<<x>>) = {x} /\ Increasing(<<x>>)
    BY DEF Range, Increasing

LEMMA Taking ==
    ASSUME NEW s \in Seq(Nat), s # <<>>
    PROVE  /\ Head(s) \in Nat /\ Tail(s) \in Seq(Nat)
           /\ Len(s) \in Nat /\ Len(Tail(s)) \in Nat /\ Len(Tail(s)) < Len(s)
           /\ Range(s) = {Head(s)} \cup Range(Tail(s))
           /\ Increasing(s) => Increasing(Tail(s)) /\ Before({Head(s)}, Range(Tail(s)))
<1>1. /\ Head(s) = s[1] /\ Head(s) \in Nat /\ Tail(s) \in Seq(Nat)
      /\ Len(s) >= 1 /\ Len(Tail(s)) = Len(s) - 1
      /\ \A i \in 1..Len(Tail(s)) : i + 1 \in 1..Len(s) /\ Tail(s)[i] = s[i + 1]
    OBVIOUS
<1>2. Range(s) = {Head(s)} \cup Range(Tail(s))
  <2>1. ASSUME NEW i \in 1..Len(s)
        PROVE  s[i] \in {Head(s)} \cup Range(Tail(s))
    <3>1. CASE i = 1
        BY <1>1, <3>1
    <3>2. CASE i # 1
      <4>1. i - 1 \in 1..Len(Tail(s)) /\ s[i] = Tail(s)[i - 1]
          BY <1>1, <3>2
      <4> QED
          BY <1>1, <4>1, RangeIn
    <3> QED
        BY <3>1, <3>2
  <2>2. Range(s) \subseteq {Head(s)} \cup Range(Tail(s))
      BY <2>1, RangeIn
  <2>3. ASSUME NEW x \in Range(Tail(s))
        PROVE  x \in Range(s)
    <3>1. PICK i \in 1..Len(Tail(s)) : x = Tail(s)[i]
        BY <1>1, RangeHas
    <3> QED
        BY <1>1, <3>1, RangeIn
  <2>4. Head(s) \in Range(s)
    <3>1. 1 \in 1..Len(s)
        BY <1>1
    <3> QED
        BY <1>1, <3>1, RangeIn
  <2> QED
      BY <2>2, <2>3, <2>4
<1>3. Increasing(s) => Increasing(Tail(s))
    BY <1>1 DEF Increasing
<1>4. ASSUME Increasing(s), NEW x \in Range(Tail(s))
      PROVE  Head(s) < x
  <2>1. PICK i \in 1..Len(Tail(s)) : x = Tail(s)[i]
      BY <1>1, RangeHas
  <2>2. 1 \in 1..Len(s) /\ i + 1 \in 1..Len(s) /\ 1 < i + 1
      BY <1>1
  <2> QED
      BY <1>1, <1>4, <2>1, <2>2 DEF Increasing
<1> QED
    BY <1>1, <1>2, <1>3, <1>4 DEF Before

LEMMA Joining ==
    ASSUME NEW s \in Seq(Nat), NEW t \in Seq(Nat)
    PROVE  /\ s \o t \in Seq(Nat) /\ Len(s \o t) = Len(s) + Len(t)
           /\ Range(s \o t) = Range(s) \cup Range(t)
           /\ Increasing(s) /\ Increasing(t) /\ Before(Range(s), Range(t)) => Increasing(s \o t)
<1>1. /\ s \o t \in Seq(Nat) /\ Len(s \o t) = Len(s) + Len(t)
      /\ \A i \in 1..Len(s) : (s \o t)[i] = s[i]
      /\ \A i \in 1..Len(t) : (s \o t)[Len(s) + i] = t[i]
      /\ \A i \in 1..Len(s \o t) : \/ i \in 1..Len(s) /\ (s \o t)[i] = s[i]
                                   \/ i - Len(s) \in 1..Len(t) /\ (s \o t)[i] = t[i - Len(s)]
      /\ Len(s) \in Nat /\ Len(t) \in Nat
    OBVIOUS
<1>2. ASSUME NEW x \in Range(s \o t)
      PROVE  x \in Range(s) \cup Range(t)
  <2>1. PICK i \in 1..Len(s \o t) : x = (s \o t)[i]
      BY <1>1, RangeHas
  <2> QED
      BY <1>1, <2>1, RangeIn
<1>3. ASSUME NEW i \in 1..Len(t)
      PROVE  t[i] \in Range(s \o t)
  <2>1. Len(s) + i \in 1..Len(s \o t)
      BY <1>1
  <2> QED
      BY <1>1, <2>1, RangeIn
<1>4. ASSUME NEW i \in 1..Len(s)
      PROVE  s[i] \in Range(s \o t)
  <2>1. i \in 1..Len(s \o t)
      BY <1>1
  <2> QED
      BY <1>1, <2>1, RangeIn
<1>5. Range(s \o t) = Range(s) \cup Range(t)
    BY <1>2, <1>3, <1>4, RangeIn
<1>6. ASSUME Increasing(s), Increasing(t), Before(Range(s), Range(t))
      PROVE  Increasing(s \o t)
  <2> SUFFICES ASSUME NEW i \in 1..Len(s \o t), NEW j \in 1..Len(s \o t), i < j
               PROVE  (s \o t)[i] < (s \o t)[j]
      BY DEF Increasing
  <2>1. CASE j \in 1..Len(s)
      BY <1>1, <1>6, <2>1 DEF Increasing
  <2>2. CASE i \notin 1..Len(s)
    <3>1. /\ i - Len(s) \in 1..Len(t) /\ (s \o t)[i] = t[i - Len(s)]
          /\ j - Len(s) \in 1..Len(t) /\ (s \o t)[j] = t[j - Len(s)]
          /\ i - Len(s) < j - Len(s)
        BY <1>1, <2>2
    <3> QED
        BY <1>6, <3>1 DEF Increasing
  <2>3. CASE i \in 1..Len(s) /\ j \notin 1..Len(s)
    <3>1. (s \o t)[i] \in Range(s) /\ (s \o t)[j] \in Range(t)
        BY <1>1, <2>3, RangeIn
    <3> QED
        BY <1>6, <3>1 DEF Before
  <2> QED
      BY <2>1, <2>2, <2>3
<1> QED
    BY <1>1, <1>5, <1>6

LEMMA Cutting ==
    ASSUME NEW s \in Seq(Nat), NEW m \in 1..(Len(s) + 1), NEW n \in 0..Len(s), m <= n + 1
    PROVE  /\ SubSeq(s, m, n) \in Seq(Nat)
           /\ Len(SubSeq(s, m, n)) = n - m + 1
           /\ Range(SubSeq(s, m, n)) = {s[i] : i \in m..n}
           /\ Increasing(s) => Increasing(SubSeq(s, m, n))
<1>1. /\ SubSeq(s, m, n) \in Seq(Nat) /\ Len(SubSeq(s, m, n)) = n - m + 1
      /\ \A i \in 1..(n - m + 1) : m + i - 1 \in m..n /\ SubSeq(s, m, n)[i] = s[m + i - 1]
    OBVIOUS
<1>2. ASSUME NEW i \in m..n
      PROVE  s[i] \in Range(SubSeq(s, m, n))
  <2>1. i - m + 1 \in 1..(n - m + 1) /\ m + (i - m + 1) - 1 = i
      OBVIOUS
  <2>2. SubSeq(s, m, n)[i - m + 1] = s[i] /\ i - m + 1 \in 1..Len(SubSeq(s, m, n))
      BY <1>1, <2>1
  <2> QED
      BY <1>1, <2>2, RangeIn
<1>3. ASSUME NEW x \in Range(SubSeq(s, m, n))
      PROVE  x \in {s[i] : i \in m..n}
  <2>1. PICK i \in 1..Len(SubSeq(s, m, n)) : x = SubSeq(s, m, n)[i]
      BY <1>1, RangeIn
  <2> QED
      BY <1>1, <2>1
<1>4. Increasing(s) => Increasing(SubSeq(s, m, n))
    BY <1>1 DEF Increasing
<1> QED
    BY <1>1, <1>2, <1>3, <1>4

(* put_nowait() keeps what the queue holds and takes a part of what is     *)
(* offered, in its order.                                                  *)
LEMMA PutNowaitKeeps ==
    ASSUME NEW s \in Seq(Nat), NEW t \in Seq(Nat), NEW cap \in Nat
    PROVE  /\ PutNowait(s, t, cap) \in Seq(Nat)
           /\ Len(s) <= cap => Len(PutNowait(s, t, cap)) <= cap
           /\ Range(s) \subseteq Range(PutNowait(s, t, cap))
           /\ Range(PutNowait(s, t, cap)) \subseteq Range(s) \cup Range(t)
           /\ Increasing(s) /\ Increasing(t) /\ Before(Range(s), Range(t))
                => Increasing(PutNowait(s, t, cap))
<1>1. CASE Len(s) + Len(t) <= cap
  <2>1. PutNowait(s, t, cap) = s \o t
      BY <1>1 DEF PutNowait
  <2> QED
      BY <1>1, <2>1, Joining
<1>2. CASE ~(Len(s) + Len(t) <= cap) /\ Len(s) < cap
  <2> DEFINE p == SubSeq(t, 1, cap - Len(s))
  <2>1. PutNowait(s, t, cap) = s \o p
      BY <1>2 DEF PutNowait
  <2>2. cap - Len(s) \in 0..Len(t) /\ 1 \in 1..(Len(t) + 1)
      BY <1>2
  <2>3. /\ p \in Seq(Nat) /\ Len(p) = cap - Len(s)
        /\ Range(p) \subseteq Range(t)
        /\ Increasing(t) => Increasing(p)
    <3>1. /\ p \in Seq(Nat) /\ Len(p) = (cap - Len(s)) - 1 + 1
          /\ Range(p) = {t[i] : i \in 1..(cap - Len(s))}
          /\ Increasing(t) => Increasing(p)
        BY <2>2, Cutting
    <3>2. \A i \in 1..(cap - Len(s)) : t[i] \in Range(t)
        BY <2>2, RangeIn
    <3> HIDE DEF p
    <3> QED
        BY <2>2, <3>1, <3>2
  <2>4. Before(Range(s), Range(t)) => Before(Range(s), Range(p))
      BY <2>3 DEF Before
  <2> HIDE DEF p
  <2> QED
      BY <2>1, <2>3, <2>4, Joining
<1>3. CASE ~(Len(s) + Len(t) <= cap) /\ ~(Len(s) < cap)
  <2>1. PutNowait(s, t, cap) = s
      BY <1>3 DEF PutNowait
  <2> QED
      BY <2>1
<1> QED
    BY <1>1, <1>2, <1>3

LEMMA Appending ==
    ASSUME NEW s \in Seq(Nat), NEW x \in Nat
    PROVE  /\ Append(s, x) \in Seq(Nat) /\ Len(Append(s, x)) = Len(s) + 1
           /\ Range(Append(s, x)) = Range(s) \cup {x}
           /\ Increasing(s) /\ Before(Range(s), {x}) => Increasing(Append(s, x))
           /\ Last(Append(s, x)) = x
           /\ Append(s, x) # <<>>
<1>1. Append(s, x) = s \o <<x>>
    OBVIOUS
<1>2. Last(Append(s, x)) = x /\ Append(s, x) # <<>>
    BY DEF Last
<1> QED
    BY <1>1, <1>2, OneItem, Joining

-----------------------------------------------------------------------------
(* The lists handed to the event loop *)

LEMMA JoinedIn ==
    \A l \in Seq(Seq(Nat)) : \A x : x \in Joined(l) <=> \E k \in 1..Len(l) : x \in Range(l[k])
<1> SUFFICES ASSUME NEW l \in Seq(Seq(Nat)), NEW x
             PROVE  x \in Joined(l) <=> \E k \in 1..Len(l) : x \in Range(l[k])
    OBVIOUS
<1>1. Range(l) = {l[k] : k \in 1..Len(l)}
    BY DEF Range
<1> QED
    BY <1>1 DEF Joined

LEMMA ListsStayLists ==
    ASSUME NEW S
    PROVE  /\ \A l \in Seq(S), q \in S : Append(l, q) \in Seq(S)
           /\ \A l \in Seq(S) : l # <<>> => Tail(l) \in Seq(S) /\ Head(l) \in S
    OBVIOUS

LEMMA EmptyLoop == <<>> \in Seq(Seq(Nat)) /\ Joined(<<>>) = {} /\ InSequence(<<>>)
    BY DEF Joined, Range, InSequence

LEMMA LoopAppend ==
    ASSUME NEW l \in Seq(Seq(Nat)), NEW q \in Seq(Nat)
    PROVE  /\ Append(l, q) \in Seq(Seq(Nat))
           /\ Joined(Append(l, q)) = Joined(l) \cup Range(q)
           /\ InSequence(l) /\ Increasing(q) /\ Before(Joined(l), Range(q))
                => InSequence(Append(l, q))
<1>1. PICK u \in Seq(Seq(Nat)) : u = Append(l, q)
    BY ListsStayLists
<1>2. /\ Len(u) = Len(l) + 1 /\ Len(l) \in Nat /\ u[Len(l) + 1] = q
      /\ \A k \in 1..Len(l) : u[k] = l[k]
    BY <1>1
<1>3. \A k : k \in 1..Len(u) <=> k \in 1..Len(l) \/ k = Len(l) + 1
    BY <1>2
<1>4. ASSUME NEW x
      PROVE  x \in Joined(u) <=> x \in Joined(l) \/ x \in Range(q)
  <2>1. x \in Joined(u) <=> \E k \in 1..Len(u) : x \in Range(u[k])
      BY JoinedIn
  <2>2. x \in Joined(l) <=> \E k \in 1..Len(l) : x \in Range(l[k])
      BY JoinedIn
  <2> QED
      BY <1>2, <1>3, <2>1, <2>2
<1>5. ASSUME InSequence(l), Increasing(q), Before(Joined(l), Range(q))
      PROVE  InSequence(u)
  <2>1. ASSUME NEW k \in 1..Len(u)
        PROVE  Increasing(u[k])
      BY <1>2, <1>3, <1>5 DEF InSequence
  <2>2. ASSUME NEW j \in 1..Len(u), NEW k \in 1..Len(u), j < k
        PROVE  Before(Range(u[j]), Range(u[k]))
    <3>1. j \in 1..Len(l) /\ u[j] = l[j]
        BY <1>2, <2>2
    <3>2. CASE k \in 1..Len(l)
        BY <1>2, <1>5, <2>2, <3>1, <3>2 DEF InSequence
    <3>3. CASE k = Len(l) + 1
      <4>1. \A x \in Range(l[j]) : x \in Joined(l)
          BY <3>1, JoinedIn
      <4> QED
          BY <1>2, <1>5, <3>1, <3>3, <4>1 DEF Before
    <3> QED
        BY <1>3, <3>2, <3>3
  <2> QED
      BY <2>1, <2>2 DEF InSequence
<1> QED
    BY <1>1, <1>4, <1>5

LEMMA LoopTake ==
    ASSUME NEW l \in Seq(Seq(Nat)), l # <<>>
    PROVE  /\ Head(l) \in Seq(Nat) /\ Tail(l) \in Seq(Seq(Nat))
           /\ Joined(l) = Range(Head(l)) \cup Joined(Tail(l))
           /\ InSequence(l) => /\ Increasing(Head(l)) /\ InSequence(Tail(l))
                               /\ Before(Range(Head(l)), Joined(Tail(l)))
<1>1. PICK u \in Seq(Seq(Nat)) : u = Tail(l)
    BY ListsStayLists
<1>2. /\ Head(l) = l[1] /\ Head(l) \in Seq(Nat) /\ Len(l) \in Nat /\ Len(l) >= 1
      /\ Len(u) = Len(l) - 1
      /\ \A k \in 1..Len(u) : u[k] = l[k + 1]
    BY <1>1
<1>3. /\ 1 \in 1..Len(l)
      /\ \A k \in 1..Len(u) : k + 1 \in 1..Len(l) /\ 1 < k + 1
      /\ \A k \in 1..Len(l) : k = 1 \/ (k - 1 \in 1..Len(u) /\ u[k - 1] = l[k])
    BY <1>2
<1>4. ASSUME NEW x
      PROVE  x \in Joined(l) <=> x \in Range(Head(l)) \/ x \in Joined(u)
  <2>1. x \in Joined(u) <=> \E k \in 1..Len(u) : x \in Range(u[k])
      BY JoinedIn
  <2>2. x \in Joined(l) <=> \E k \in 1..Len(l) : x \in Range(l[k])
      BY JoinedIn
  <2> QED
      BY <1>2, <1>3, <2>1, <2>2
<1>5. ASSUME InSequence(l)
      PROVE  Increasing(Head(l)) /\ InSequence(u) /\ Before(Range(Head(l)), Joined(u))
  <2>1. Increasing(Head(l))
      BY <1>2, <1>3, <1>5 DEF InSequence
  <2>2. InSequence(u)
    <3>1. ASSUME NEW k \in 1..Len(u)
          PROVE  Increasing(u[k])
        BY <1>2, <1>3, <1>5 DEF InSequence
    <3>2. ASSUME NEW j \in 1..Len(u), NEW k \in 1..Len(u), j < k
          PROVE  Before(Range(u[j]), Range(u[k]))
      <4>1. j + 1 < k + 1 /\ j + 1 \in 1..Len(l) /\ k + 1 \in 1..Len(l)
          BY <1>2, <3>2
      <4> QED
          BY <1>2, <1>5, <4>1 DEF InSequence
    <3> QED
        BY <3>1, <3>2 DEF InSequence
  <2>3. ASSUME NEW x \in Joined(u)
        PROVE  \A a \in Range(Head(l)) : a < x
    <3>1. PICK k \in 1..Len(u) : x \in Range(u[k])
        BY JoinedIn
    <3>2. Before(Range(l[1]), Range(l[k + 1]))
        BY <1>3, <1>5 DEF InSequence
    <3> QED
        BY <1>2, <3>1, <3>2 DEF Before
  <2> QED
      BY <2>1, <2>2, <2>3 DEF Before
<1> QED
    BY <1>1, <1>4, <1>5

-----------------------------------------------------------------------------
(* The path *)

LEMMA Sizes ==
    /\ FwCap \in Nat /\ WireCap \in Nat /\ BatchSize \in Nat /\ PiCap \in Nat
    /\ ChunkSize \in Nat /\ GwCap \in Nat /\ MaxAdvs \in Nat /\ MaxFaults \in Nat
    /\ FwCap > 0 /\ WireCap > 0 /\ BatchSize > 0 /\ PiCap > 0 /\ ChunkSize > 0 /\ GwCap > 0
    BY PathBounds

LEMMA FlightIsFlying == InFlight = Flying
    BY DEF InFlight, Flying, Joined

LEMMA NextFlightIsFlying == InFlight' = Flying'
    BY DEF InFlight, Flying, Joined

(* Losing advertisements, from whatever queue, keeps the order of the rest.*)
LEMMA ChainShrinks ==
    ASSUME NEW A, NEW N, NEW P, NEW L, NEW B, NEW W, NEW M, Chain(A, N, P, L, B, W, M),
           NEW A1 \in SUBSET A, NEW N1 \in SUBSET N, NEW P1 \in SUBSET P, NEW L1 \in SUBSET L,
           NEW B1 \in SUBSET B, NEW W1 \in SUBSET W, NEW M1 \in SUBSET M
    PROVE  Chain(A1, N1, P1, L1, B1, W1, M1)
<1>1. \A S, T : \A S1 \in SUBSET S, T1 \in SUBSET T : Before(S, T) => Before(S1, T1)
    BY DEF Before
<1> QED
    BY <1>1 DEF Chain

(* A step that loses or keeps what it handles.                             *)
Loses == Flying' \subseteq Flying /\ UNCHANGED <<next, log>>

LEMMA InitHolds == Init => IInv /\ Fifo!Init
<1> SUFFICES ASSUME Init
             PROVE  IInv /\ Fifo!Init
    OBVIOUS
<1> USE DEF Init
<1>1. Flying = {} /\ Range(mqttQ) = {} /\ Range(log) = {}
    BY EmptyQueue, EmptyLoop DEF Flying
<1>2. Queues /\ Sorted
    BY EmptyQueue, EmptyLoop DEF Queues, Sorted
<1>3. Ordered
    BY EmptyQueue, EmptyLoop DEF Ordered, Chain, Before
<1>4. Reported
    BY <1>1 DEF Reported
<1>5. Control
    BY EmptyQueue, Sizes DEF Control
<1>6. Fifo!Init
    BY <1>1, FlightIsFlying DEF Fifo!Init
<1> QED
    BY <1>2, <1>3, <1>4, <1>5, <1>6 DEF IInv

LEMMA ScanKeeps ==
    ASSUME IInv, Scan
    PROVE  IInv' /\ Fifo!Send
<1> USE DEF IInv
<1>1. /\ next \in Nat /\ next \in 1..MaxAdvs /\ next' = next + 1
      /\ \A x \in Flying : x < next
      /\ msgq \in Seq(Nat) /\ Increasing(msgq)
    BY Sizes DEF Scan, Control, Reported, Queues, Sorted
<1>2. <<next>> \in Seq(Nat) /\ Len(<<next>>) = 1 /\ Range(<<next>>) = {next} /\ Increasing(<<next>>)
    BY <1>1, OneItem
<1>3. Before(Range(msgq), Range(<<next>>))
    BY <1>1, <1>2 DEF Before, Flying
<1>4. /\ msgq' \in Seq(Nat) /\ Len(msgq') <= FwCap /\ Increasing(msgq')
      /\ Range(msgq) \subseteq Range(msgq')
      /\ Range(msgq') \subseteq Range(msgq) \cup {next}
  <2>1. Len(msgq) <= FwCap /\ msgq' = PutNowait(msgq, <<next>>, FwCap)
      BY DEF Scan, Control
  <2> QED
      BY <1>1, <1>2, <1>3, <2>1, PutNowaitKeeps, Sizes
<1>5. Flying' \subseteq Flying \cup {next} /\ Flying \subseteq Flying'
    BY <1>4 DEF Flying, Scan, piVars, gwVars
<1>6. Queues' /\ Sorted'
    BY <1>4 DEF Queues, Sorted, Scan, piVars, gwVars
<1>7. Ordered'
  <2>1. /\ Before(Range(advQ), {next}) /\ Before(Range(net), {next})
        /\ Before(Range(advQueue), {next}) /\ Before(Joined(loop), {next})
        /\ Before(Range(batch), {next}) /\ Before(Range(wire), {next})
      BY <1>1 DEF Flying, Before
  <2>2. UNCHANGED <<advQ, net, advQueue, loop, batch, wire>>
      BY DEF Scan, piVars, gwVars
  <2>3. \A S : Before(S, Range(msgq)) /\ Before(S, {next}) => Before(S, Range(msgq'))
      BY <1>4 DEF Before
  <2> QED
      BY <2>1, <2>2, <2>3 DEF Ordered, Chain
<1>8. Reported'
    BY <1>1, <1>5 DEF Reported, Scan, gwVars
<1>9. Control'
    BY <1>1, <1>4, Sizes DEF Control, Scan, piVars, gwVars
<1>10. Fifo!Send
  <2>1. InFlight' \in {InFlight, InFlight \cup {next}}
      BY <1>5, FlightIsFlying, NextFlightIsFlying
  <2>2. UNCHANGED log
      BY DEF Scan, gwVars
  <2> QED
      BY <1>1, <2>1, <2>2 DEF Fifo!Send
<1> QED
    BY <1>6, <1>7, <1>8, <1>9, <1>10

LEMMA UsbAdvKeeps ==
    ASSUME IInv, UsbAdv
    PROVE  IInv' /\ Loses
<1> USE DEF IInv
<1> DEFINE h == Head(msgq)
<1>1. /\ msgq \in Seq(Nat) /\ msgq # <<>> /\ msgq' = Tail(msgq) /\ Increasing(msgq)
      /\ wire \in Seq(Nat) /\ Increasing(wire) /\ Before(Range(wire), Range(msgq))
      /\ Len(msgq) <= FwCap /\ Len(wire) <= WireCap
    BY DEF UsbAdv, Queues, Sorted, Ordered, Chain, Control
<1>2. /\ h \in Nat /\ msgq' \in Seq(Nat) /\ Len(msgq') <= FwCap
      /\ Range(msgq) = {h} \cup Range(msgq') /\ Increasing(msgq') /\ Before({h}, Range(msgq'))
  <2>1. Len(msgq) \in Nat /\ Len(msgq') \in Nat /\ Len(msgq') < Len(msgq)
      BY <1>1, Taking
  <2>2. Len(msgq') <= FwCap
      BY <1>1, <2>1, Sizes
  <2> QED
      BY <1>1, <2>2, Taking
<1>3. /\ wire' \in Seq(Nat) /\ Len(wire') <= WireCap /\ Increasing(wire')
      /\ Range(wire') \subseteq Range(wire) \cup {h}
  <2>1. CASE serving = {}
      BY <1>1, <2>1 DEF UsbAdv
  <2>2. CASE serving # {}
    <3>1. wire' = Append(wire, h) /\ Len(wire) < WireCap
        BY <2>2 DEF UsbAdv
    <3>2. Before(Range(wire), {h})
        BY <1>1, <1>2 DEF Before
    <3> HIDE DEF h
    <3> QED
        BY <1>1, <1>2, <3>1, <3>2, Appending, Sizes
  <2> QED
      BY <2>1, <2>2
<1> HIDE DEF h
<1>4. UNCHANGED <<next, scanning, typed, batch, loop, serving, flag, advQueue, cur, net, advQ,
                  mqttQ, mqttUp, log, faults>>
    BY DEF UsbAdv, gwVars
<1>5. Loses
    BY <1>2, <1>3, <1>4 DEF Loses, Flying
<1>6. Queues' /\ Sorted'
    BY <1>2, <1>3, <1>4 DEF Queues, Sorted
<1>7. Ordered'
  <2>1. \A S : Before(S, Range(msgq)) /\ Before(S, Range(wire)) => Before(S, Range(wire'))
      BY <1>2, <1>3 DEF Before
  <2>2. \A S : Before(S, Range(msgq)) => Before(S, Range(msgq'))
      BY <1>2 DEF Before
  <2>3. Before(Range(wire'), Range(msgq'))
      BY <1>1, <1>2, <1>3 DEF Before
  <2> QED
      BY <1>4, <2>1, <2>2, <2>3 DEF Ordered, Chain
<1>8. Reported'
    BY <1>4, <1>5 DEF Reported, Loses
<1>9. Control'
    BY <1>2, <1>3, <1>4 DEF Control
<1> QED
    BY <1>5, <1>6, <1>7, <1>8, <1>9

LEMMA StopScanKeeps ==
    ASSUME IInv, StopScan
    PROVE  IInv' /\ Loses
<1> USE DEF IInv
<1>1. /\ msgq' \in Seq(Nat) /\ Len(msgq') <= FwCap /\ Increasing(msgq')
      /\ Range(msgq') \subseteq Range(msgq)
  <2>1. CASE msgq' = msgq
      BY <2>1 DEF Queues, Sorted, Control
  <2>2. CASE msgq' = <<>>
      BY <2>2, EmptyQueue, Sizes
  <2> QED
      BY <2>1, <2>2 DEF StopScan
<1>2. UNCHANGED <<next, typed, wire, batch, loop, serving, flag, advQueue, cur, net, advQ,
                  mqttQ, mqttUp, log, faults>>
    BY DEF StopScan, piVars, gwVars
<1>3. Loses
    BY <1>1, <1>2 DEF Loses, Flying
<1>4. Queues' /\ Sorted'
    BY <1>1, <1>2 DEF Queues, Sorted
<1>5. Ordered'
    BY <1>1, <1>2, ChainShrinks DEF Ordered
<1>6. Reported'
    BY <1>2, <1>3 DEF Reported, Loses
<1>7. Control'
    BY <1>1, <1>2 DEF Control, StopScan
<1> QED
    BY <1>3, <1>4, <1>5, <1>6, <1>7

LEMMA RestartScanKeeps ==
    ASSUME IInv, RestartScan
    PROVE  IInv' /\ Loses
<1>1. UNCHANGED <<next, msgq, typed, wire, batch, loop, serving, flag, advQueue, cur, net, advQ,
                  mqttQ, mqttUp, log, faults>>
    BY DEF RestartScan, piVars, gwVars
<1>2. Queues' /\ Sorted' /\ Ordered' /\ Reported' /\ Loses
    BY <1>1 DEF IInv, Queues, Sorted, Ordered, Reported, Flying, Loses
<1>3. Control'
    BY <1>1 DEF IInv, Control, RestartScan
<1> QED
    BY <1>2, <1>3 DEF IInv

(* The line goes to the event loop at once, ends a batch or joins it.      *)
LEMMA ReadLineKeeps ==
    ASSUME IInv, ReadLine
    PROVE  IInv' /\ Loses
<1> USE DEF IInv
<1> DEFINE h == Head(wire)
           b == Append(batch, h)
<1>1. /\ wire \in Seq(Nat) /\ wire # <<>> /\ wire' = Tail(wire) /\ Increasing(wire)
      /\ batch \in Seq(Nat) /\ Increasing(batch) /\ Before(Range(batch), Range(wire))
      /\ loop \in Seq(Seq(Nat)) /\ InSequence(loop)
      /\ Before(Joined(loop), Range(batch)) /\ Before(Joined(loop), Range(wire))
      /\ Len(wire) <= WireCap /\ Len(batch) < BatchSize
      /\ typed => batch = <<>>
    BY DEF ReadLine, Queues, Sorted, Ordered, Chain, Control
<1>2. /\ h \in Nat /\ wire' \in Seq(Nat) /\ Len(wire') <= WireCap
      /\ Range(wire) = {h} \cup Range(wire') /\ Increasing(wire') /\ Before({h}, Range(wire'))
  <2>1. Len(wire) \in Nat /\ Len(wire') \in Nat /\ Len(wire') < Len(wire)
      BY <1>1, Taking
  <2>2. Len(wire') <= WireCap
      BY <1>1, <2>1, Sizes
  <2> QED
      BY <1>1, <2>2, Taking
<1>3. /\ typed => loop' = Append(loop, <<h>>) /\ batch' = batch
      /\ ~typed => \/ batch' = <<>> /\ loop' = Append(loop, b)
                   \/ Len(b) < BatchSize /\ batch' = b /\ loop' = loop
    BY DEF ReadLine
<1> HIDE DEF h
<1>4. /\ b \in Seq(Nat) /\ Range(b) = Range(batch) \cup {h} /\ Increasing(b)
  <2>1. Before(Range(batch), {h})
      BY <1>1, <1>2 DEF Before
  <2> QED
      BY <1>1, <1>2, <2>1, Appending
<1> HIDE DEF b
<1>5. UNCHANGED <<next, scanning, msgq, typed, serving, flag, advQueue, cur, net, advQ,
                  mqttQ, mqttUp, log, faults>>
    BY DEF ReadLine, fwVars, gwVars
(* What the three ways have in common.                                     *)
<1>6. /\ batch' \in Seq(Nat) /\ Len(batch') < BatchSize /\ Increasing(batch')
      /\ loop' \in Seq(Seq(Nat)) /\ InSequence(loop')
      /\ Range(batch') \subseteq Range(batch) \cup {h}
      /\ Joined(loop') \subseteq Joined(loop) \cup Range(batch) \cup {h}
      /\ Before(Joined(loop'), Range(batch'))
  <2>1. CASE typed
    <3>1. <<h>> \in Seq(Nat) /\ Range(<<h>>) = {h} /\ Increasing(<<h>>)
        BY <1>2, OneItem
    <3>2. Before(Joined(loop), {h})
        BY <1>1, <1>2 DEF Before
    <3>3. /\ loop' \in Seq(Seq(Nat)) /\ InSequence(loop')
          /\ Joined(loop') = Joined(loop) \cup {h}
        BY <1>1, <1>3, <2>1, <3>1, <3>2, LoopAppend
    <3>4. batch' = <<>> /\ Range(batch') = {} /\ Len(batch') = 0
        BY <1>1, <1>3, <2>1, EmptyQueue
    <3> QED
        BY <3>3, <3>4, EmptyQueue, Sizes DEF Before
  <2>2. CASE ~typed /\ batch' = <<>> /\ loop' = Append(loop, b)
    <3>1. Before(Joined(loop), Range(b))
        BY <1>1, <1>2, <1>4 DEF Before
    <3>2. /\ loop' \in Seq(Seq(Nat)) /\ InSequence(loop')
          /\ Joined(loop') = Joined(loop) \cup Range(b)
        BY <1>1, <1>4, <2>2, <3>1, LoopAppend
    <3>3. Before(Joined(loop'), Range(batch'))
        BY <2>2, EmptyQueue DEF Before
    <3> QED
        BY <1>4, <2>2, <3>2, <3>3, EmptyQueue, Sizes
  <2>3. CASE ~typed /\ Len(b) < BatchSize /\ batch' = b /\ loop' = loop
    <3>1. Before(Joined(loop), Range(b))
        BY <1>1, <1>2, <1>4 DEF Before
    <3> QED
        BY <1>1, <1>4, <2>3, <3>1
  <2> QED
      BY <1>3, <2>1, <2>2, <2>3
<1>7. Loses
    BY <1>2, <1>5, <1>6 DEF Loses, Flying
<1>8. Queues' /\ Sorted'
    BY <1>1, <1>2, <1>3, <1>5, <1>6 DEF Queues, Sorted
<1>9. Ordered'
  <2>1. \A S : Before(S, Range(wire)) /\ Before(S, Range(batch)) => Before(S, Range(batch'))
      BY <1>2, <1>6 DEF Before
  <2>2. \A S : Before(S, Range(wire)) /\ Before(S, Range(batch)) /\ Before(S, Joined(loop))
                 => Before(S, Joined(loop'))
      BY <1>2, <1>6 DEF Before
  <2>3. \A S : Before(S, Range(wire)) => Before(S, Range(wire'))
      BY <1>2 DEF Before
  <2>4. \A T : Before(Range(wire), T) => Before({h}, T) /\ Before(Range(wire'), T)
      BY <1>2 DEF Before
  <2>5. \A T : Before({h}, T) /\ Before(Range(batch), T) => Before(Range(batch'), T)
      BY <1>6 DEF Before
  <2>6. \A T : Before({h}, T) /\ Before(Range(batch), T) /\ Before(Joined(loop), T)
                 => Before(Joined(loop'), T)
      BY <1>6 DEF Before
  <2>7. Before(Range(batch), Range(wire')) /\ Before(Joined(loop), Range(wire'))
      BY <1>1, <2>3
  <2>8. Before(Range(batch'), Range(wire')) /\ Before(Joined(loop'), Range(wire'))
      BY <1>2, <2>5, <2>6, <2>7
  <2> QED
      BY <1>5, <1>6, <2>1, <2>2, <2>3, <2>4, <2>5, <2>6, <2>8 DEF Ordered, Chain
<1>10. Reported'
    BY <1>5, <1>7 DEF Reported, Loses
<1>11. Control'
    BY <1>2, <1>5, <1>6 DEF Control
<1> QED
    BY <1>7, <1>8, <1>9, <1>10, <1>11

LEMMA FlushAdvsKeeps ==
    ASSUME IInv, FlushAdvs
    PROVE  IInv' /\ Loses
<1> USE DEF IInv
<1>1. /\ batch \in Seq(Nat) /\ Increasing(batch) /\ loop \in Seq(Seq(Nat)) /\ InSequence(loop)
      /\ Before(Joined(loop), Range(batch))
      /\ loop' = Append(loop, batch) /\ batch' = <<>>
    BY DEF FlushAdvs, Queues, Sorted, Ordered, Chain
<1>2. /\ loop' \in Seq(Seq(Nat)) /\ InSequence(loop')
      /\ Joined(loop') = Joined(loop) \cup Range(batch)
    BY <1>1, LoopAppend
<1>3. batch' \in Seq(Nat) /\ Len(batch') = 0 /\ Range(batch') = {} /\ Increasing(batch')
    BY <1>1, EmptyQueue
<1>4. UNCHANGED <<next, scanning, msgq, typed, wire, serving, flag, advQueue, cur, net, advQ,
                  mqttQ, mqttUp, log, faults>>
    BY DEF FlushAdvs, fwVars, gwVars
<1>5. Loses
    BY <1>2, <1>3, <1>4 DEF Loses, Flying
<1>6. Queues' /\ Sorted'
    BY <1>1, <1>2, <1>3, <1>4 DEF Queues, Sorted
<1>7. Ordered'
  <2>1. \A S : Before(S, Joined(loop)) /\ Before(S, Range(batch)) => Before(S, Joined(loop'))
      BY <1>2 DEF Before
  <2>2. \A T : Before(Joined(loop), T) /\ Before(Range(batch), T) => Before(Joined(loop'), T)
      BY <1>2 DEF Before
  <2>3. \A S : Before(S, Range(batch')) /\ Before(Range(batch'), S)
      BY <1>3 DEF Before
  <2> QED
      BY <1>4, <2>1, <2>2, <2>3 DEF Ordered, Chain
<1>8. Reported'
    BY <1>4, <1>5 DEF Reported, Loses
<1>9. Control'
    BY <1>3, <1>4, Sizes DEF Control
<1> QED
    BY <1>5, <1>6, <1>7, <1>8, <1>9

LEMMA DispatchKeeps ==
    ASSUME IInv, Dispatch
    PROVE  IInv' /\ Loses
<1> USE DEF IInv
<1> DEFINE h == Head(loop)
<1>1. /\ loop \in Seq(Seq(Nat)) /\ loop # <<>> /\ InSequence(loop) /\ loop' = Tail(loop)
      /\ advQueue \in Seq(Nat) /\ Increasing(advQueue) /\ Len(advQueue) <= PiCap
      /\ Before(Range(advQueue), Joined(loop))
    BY DEF Dispatch, Queues, Sorted, Ordered, Chain, Control
<1>2. /\ h \in Seq(Nat) /\ loop' \in Seq(Seq(Nat))
      /\ Joined(loop) = Range(h) \cup Joined(loop')
      /\ Increasing(h) /\ InSequence(loop') /\ Before(Range(h), Joined(loop'))
    BY <1>1, LoopTake
<1>3. advQueue' = PutNowait(advQueue, h, PiCap) \/ advQueue' = advQueue
    BY DEF Dispatch
<1> HIDE DEF h
<1>4. /\ advQueue' \in Seq(Nat) /\ Len(advQueue') <= PiCap /\ Increasing(advQueue')
      /\ Range(advQueue') \subseteq Range(advQueue) \cup Range(h)
  <2>1. Before(Range(advQueue), Range(h))
      BY <1>1, <1>2 DEF Before
  <2> QED
      BY <1>1, <1>2, <1>3, <2>1, PutNowaitKeeps, Sizes
<1>5. UNCHANGED <<next, scanning, msgq, typed, wire, batch, serving, flag, cur, net, advQ,
                  mqttQ, mqttUp, log, faults>>
    BY DEF Dispatch, fwVars, gwVars
<1>6. Loses
    BY <1>2, <1>4, <1>5 DEF Loses, Flying
<1>7. Queues' /\ Sorted'
    BY <1>2, <1>4, <1>5 DEF Queues, Sorted
<1>8. Ordered'
  <2>1. \A S : Before(S, Range(advQueue)) /\ Before(S, Joined(loop))
                 => Before(S, Range(advQueue')) /\ Before(S, Joined(loop'))
      BY <1>2, <1>4 DEF Before
  <2>2. \A T : Before(Range(advQueue), T) /\ Before(Joined(loop), T)
                 => Before(Range(advQueue'), T) /\ Before(Joined(loop'), T)
      BY <1>2, <1>4 DEF Before
  <2>3. Before(Range(advQueue'), Joined(loop'))
      BY <1>1, <1>2, <1>4 DEF Before
  <2> QED
      BY <1>5, <2>1, <2>2, <2>3 DEF Ordered, Chain
<1>9. Reported'
    BY <1>5, <1>6 DEF Reported, Loses
<1>10. Control'
    BY <1>4, <1>5 DEF Control
<1> QED
    BY <1>6, <1>7, <1>8, <1>9, <1>10

(* A chunk leaves the Pi's queue, into the stream or into nothing.         *)
LEMMA YieldKeeps ==
    ASSUME IInv, NEW s \in Streams, Yield(s)
    PROVE  IInv' /\ Loses
<1> USE DEF IInv
<1> DEFINE n == Taken
           c == SubSeq(advQueue, 1, n)
<1>1. /\ advQueue \in Seq(Nat) /\ Increasing(advQueue) /\ Len(advQueue) <= PiCap
      /\ net \in Seq(Nat) /\ Increasing(net) /\ Before(Range(net), Range(advQueue))
    BY DEF Queues, Sorted, Ordered, Chain, Control
<1>2. n \in 0..Len(advQueue) /\ n + 1 \in 1..(Len(advQueue) + 1)
    BY <1>1, Sizes DEF Taken
<1>3. /\ advQueue' = SubSeq(advQueue, n + 1, Len(advQueue))
      /\ net' = net \o c \/ net' = net
    BY DEF Yield
<1> HIDE DEF n
<1>4. /\ c \in Seq(Nat) /\ Range(c) = {advQueue[i] : i \in 1..n} /\ Increasing(c)
  <2>1. 1 \in 1..(Len(advQueue) + 1) /\ 1 <= n + 1
      BY <1>1, <1>2
  <2> QED
      BY <1>1, <1>2, <2>1, Cutting
<1>5. /\ advQueue' \in Seq(Nat) /\ Len(advQueue') = Len(advQueue) - (n + 1) + 1
      /\ Range(advQueue') = {advQueue[i] : i \in n + 1..Len(advQueue)} /\ Increasing(advQueue')
  <2>1. Len(advQueue) \in 0..Len(advQueue) /\ n + 1 <= Len(advQueue) + 1
      BY <1>1, <1>2
  <2> QED
      BY <1>1, <1>2, <1>3, <2>1, Cutting
<1>6. Range(c) \subseteq Range(advQueue) /\ Range(advQueue') \subseteq Range(advQueue)
  <2>1. \A i \in 1..Len(advQueue) : advQueue[i] \in Range(advQueue)
      BY <1>1, RangeIn
  <2>2. \A i \in 1..n : i \in 1..Len(advQueue)
      BY <1>1, <1>2
  <2>3. \A i \in n + 1..Len(advQueue) : i \in 1..Len(advQueue)
      BY <1>1, <1>2
  <2> QED
      BY <1>4, <1>5, <2>1, <2>2, <2>3
<1>7. Before(Range(c), Range(advQueue'))
  <2> SUFFICES ASSUME NEW i \in 1..n, NEW j \in n + 1..Len(advQueue)
               PROVE  advQueue[i] < advQueue[j]
      BY <1>4, <1>5 DEF Before
  <2>1. i \in 1..Len(advQueue) /\ j \in 1..Len(advQueue) /\ i < j
      BY <1>1, <1>2
  <2> QED
      BY <1>1, <2>1 DEF Increasing
<1>8. Len(advQueue') <= PiCap
    BY <1>1, <1>2, <1>5, Sizes
<1> HIDE DEF c
<1>9. /\ net' \in Seq(Nat) /\ Increasing(net')
      /\ Range(net') \subseteq Range(net) \cup Range(c)
  <2>1. Before(Range(net), Range(c))
      BY <1>1, <1>6 DEF Before
  <2> QED
      BY <1>1, <1>3, <1>4, <2>1, Joining
<1>10. UNCHANGED <<next, scanning, msgq, typed, wire, batch, loop, serving, flag, cur, advQ,
                   mqttQ, mqttUp, log, faults>>
    BY DEF Yield, fwVars
<1>11. Loses
    BY <1>6, <1>9, <1>10 DEF Loses, Flying
<1>12. Queues' /\ Sorted'
    BY <1>5, <1>9, <1>10 DEF Queues, Sorted
<1>13. Ordered'
  <2>1. \A S : Before(S, Range(net)) /\ Before(S, Range(advQueue))
                 => Before(S, Range(net')) /\ Before(S, Range(advQueue'))
      BY <1>6, <1>9 DEF Before
  <2>2. \A T : Before(Range(net), T) /\ Before(Range(advQueue), T)
                 => Before(Range(net'), T) /\ Before(Range(advQueue'), T)
      BY <1>6, <1>9 DEF Before
  <2>3. Before(Range(net'), Range(advQueue'))
      BY <1>1, <1>6, <1>7, <1>9 DEF Before
  <2> QED
      BY <1>10, <2>1, <2>2, <2>3 DEF Ordered, Chain
<1>14. Reported'
    BY <1>10, <1>11 DEF Reported, Loses
<1>15. Control'
    BY <1>8, <1>10 DEF Control
<1> QED
    BY <1>11, <1>12, <1>13, <1>14, <1>15

LEMMA CancelledKeeps ==
    ASSUME IInv, NEW s \in Streams, Cancelled(s)
    PROVE  IInv' /\ Loses
<1> USE DEF IInv
<1>1. /\ wire \in Seq(Nat) /\ Increasing(wire) /\ Len(wire) <= WireCap
      /\ batch \in Seq(Nat) /\ Increasing(batch) /\ Len(batch) < BatchSize
      /\ (wire' = <<>> /\ batch' = <<>>) \/ (wire' = wire /\ batch' = batch)
    BY DEF Cancelled, Queues, Sorted, Control
<1>2. /\ wire' \in Seq(Nat) /\ Increasing(wire') /\ Len(wire') <= WireCap
      /\ Range(wire') \subseteq Range(wire)
  <2>1. CASE wire' = <<>>
      BY <2>1, EmptyQueue, Sizes
  <2>2. CASE wire' = wire
      BY <1>1, <2>2
  <2> QED
      BY <1>1, <2>1, <2>2
<1>3. /\ batch' \in Seq(Nat) /\ Increasing(batch') /\ Len(batch') < BatchSize
      /\ Range(batch') \subseteq Range(batch)
      /\ batch = <<>> => batch' = <<>>
  <2>1. CASE batch' = <<>>
      BY <2>1, EmptyQueue, Sizes
  <2>2. CASE batch' = batch
      BY <1>1, <2>2
  <2> QED
      BY <1>1, <2>1, <2>2
<1>4. UNCHANGED <<next, scanning, msgq, typed, loop, advQueue, cur, net, advQ,
                  mqttQ, mqttUp, log, faults>>
    BY DEF Cancelled, fwVars, gwVars
<1>5. Loses
    BY <1>2, <1>3, <1>4 DEF Loses, Flying
<1>6. Queues' /\ Sorted'
    BY <1>2, <1>3, <1>4 DEF Queues, Sorted
<1>7. Ordered'
    BY <1>2, <1>3, <1>4, ChainShrinks DEF Ordered
<1>8. Reported'
    BY <1>4, <1>5 DEF Reported, Loses
<1>9. Control'
    BY <1>2, <1>3, <1>4 DEF Control, Cancelled
<1> QED
    BY <1>5, <1>6, <1>7, <1>8, <1>9

LEMMA ReceiveKeeps ==
    ASSUME IInv, Receive
    PROVE  IInv' /\ Loses
<1> USE DEF IInv
<1> DEFINE h == Head(net)
<1>1. /\ net \in Seq(Nat) /\ net # <<>> /\ net' = Tail(net) /\ Increasing(net)
      /\ advQ \in Seq(Nat) /\ Increasing(advQ) /\ Before(Range(advQ), Range(net))
      /\ Len(advQ) <= GwCap /\ advQ' = PutNowait(advQ, <<h>>, GwCap)
    BY DEF Receive, Queues, Sorted, Ordered, Chain, Control
<1>2. /\ h \in Nat /\ net' \in Seq(Nat)
      /\ Range(net) = {h} \cup Range(net') /\ Increasing(net') /\ Before({h}, Range(net'))
    BY <1>1, Taking
<1> HIDE DEF h
<1>3. /\ advQ' \in Seq(Nat) /\ Len(advQ') <= GwCap /\ Increasing(advQ')
      /\ Range(advQ') \subseteq Range(advQ) \cup {h}
  <2>1. Before(Range(advQ), {h})
      BY <1>1, <1>2 DEF Before
  <2>2. <<h>> \in Seq(Nat) /\ Range(<<h>>) = {h} /\ Increasing(<<h>>)
      BY <1>2, OneItem
  <2> QED
      BY <1>1, <2>1, <2>2, PutNowaitKeeps, Sizes
<1>4. UNCHANGED <<next, scanning, msgq, typed, wire, batch, loop, serving, flag, advQueue, cur,
                  mqttQ, mqttUp, log, faults>>
    BY DEF Receive, fwVars, piVars
<1>5. Loses
    BY <1>2, <1>3, <1>4 DEF Loses, Flying
<1>6. Queues' /\ Sorted'
    BY <1>2, <1>3, <1>4 DEF Queues, Sorted
<1>7. Ordered'
  <2>1. \A T : Before(Range(net), T) /\ Before(Range(advQ), T)
                 => Before(Range(net'), T) /\ Before(Range(advQ'), T)
      BY <1>2, <1>3 DEF Before
  <2>2. Before(Range(advQ'), Range(net'))
      BY <1>1, <1>2, <1>3 DEF Before
  <2> QED
      BY <1>4, <2>1, <2>2 DEF Ordered, Chain
<1>8. Reported'
    BY <1>4, <1>5 DEF Reported, Loses
<1>9. Control'
    BY <1>3, <1>4 DEF Control
<1> QED
    BY <1>5, <1>6, <1>7, <1>8, <1>9

(* The log receives the oldest advertisement in flight, and no queue holds *)
(* another copy of it.                                                     *)
LEMMA WriteLogKeeps ==
    ASSUME IInv, WriteLog
    PROVE  IInv' /\ \E n \in InFlight : Fifo!Deliver(n)
<1> USE DEF IInv
<1> DEFINE h == Head(advQ)
<1>1. /\ advQ \in Seq(Nat) /\ advQ # <<>> /\ advQ' = Tail(advQ) /\ Increasing(advQ)
      /\ mqttQ \in Seq(Nat) /\ Len(mqttQ) <= GwCap /\ mqttQ' = PutNowait(mqttQ, <<h>>, GwCap)
      /\ log \in Seq(Nat) /\ log' = Append(log, h) /\ Len(advQ) <= GwCap
    BY DEF WriteLog, Queues, Sorted, Control
<1>2. /\ h \in Nat /\ advQ' \in Seq(Nat) /\ Len(advQ') <= GwCap
      /\ Range(advQ) = {h} \cup Range(advQ') /\ Increasing(advQ') /\ Before({h}, Range(advQ'))
  <2>1. Len(advQ) \in Nat /\ Len(advQ') \in Nat /\ Len(advQ') < Len(advQ)
      BY <1>1, Taking
  <2>2. Len(advQ') <= GwCap
      BY <1>1, <2>1, Sizes
  <2> QED
      BY <1>1, <2>2, Taking
<1> HIDE DEF h
<1>3. /\ log' \in Seq(Nat) /\ Range(log') = Range(log) \cup {h}
      /\ log' # <<>> /\ Last(log') = h
    BY <1>1, <1>2, Appending
<1>4. /\ mqttQ' \in Seq(Nat) /\ Len(mqttQ') <= GwCap
      /\ Range(mqttQ') \subseteq Range(mqttQ) \cup {h}
  <2>1. <<h>> \in Seq(Nat) /\ Range(<<h>>) = {h}
      BY <1>2, OneItem
  <2> QED
      BY <1>1, <2>1, PutNowaitKeeps, Sizes
<1>5. UNCHANGED <<next, scanning, msgq, typed, wire, batch, loop, serving, flag, advQueue, cur,
                  net, mqttUp, faults>>
    BY DEF WriteLog, fwVars, piVars
<1>6. Queues' /\ Sorted'
    BY <1>2, <1>3, <1>4, <1>5 DEF Queues, Sorted
<1>7. Ordered'
    BY <1>2, <1>5, ChainShrinks DEF Ordered
<1>8. h \in Flying /\ Flying' \subseteq Flying
    BY <1>2, <1>5 DEF Flying
<1>9. Reported'
  <2>1. Flying \cup Range(mqttQ) \cup Range(log) \subseteq 1..(next - 1)
      BY DEF Reported
  <2> QED
      BY <1>3, <1>4, <1>5, <1>8, <2>1 DEF Reported
<1>10. Control'
    BY <1>2, <1>4, <1>5 DEF Control
<1>11. /\ \A x \in Flying' : h < x
       /\ Flying = {h} \cup Flying'
  <2> DEFINE rest == Range(net) \cup Range(advQueue) \cup Joined(loop)
                       \cup Range(batch) \cup Range(wire) \cup Range(msgq)
  <2>1. Before(Range(advQ), rest)
      BY DEF Ordered, Chain, Before
  <2>2. Flying = Range(advQ) \cup rest /\ Flying' = Range(advQ') \cup rest
      BY <1>5 DEF Flying
  <2> HIDE DEF rest
  <2> QED
      BY <1>2, <2>1, <2>2 DEF Before
<1>12. Fifo!Deliver(h)
  <2>1. InFlight' = InFlight \ {h}
    <3>1. h \notin Flying'
        BY <1>2, <1>11
    <3> QED
        BY <1>11, <3>1, FlightIsFlying, NextFlightIsFlying
  <2>2. \A k \in InFlight : h <= k
    <3>1. \A k \in Flying : k \in Nat
        BY DEF Reported, Control
    <3> QED
        BY <1>2, <1>11, <3>1, FlightIsFlying
  <2>3. h \in InFlight
      BY <1>8, FlightIsFlying
  <2>4. next' = next
      BY <1>5
  <2> QED
      BY <1>3, <2>1, <2>2, <2>3, <2>4 DEF Fifo!Deliver
<1> QED
    BY <1>6, <1>7, <1>8, <1>9, <1>10, <1>12, FlightIsFlying

LEMMA PublishKeeps ==
    ASSUME IInv, Publish
    PROVE  IInv' /\ Loses
<1> USE DEF IInv
<1>1. mqttQ \in Seq(Nat) /\ mqttQ # <<>> /\ mqttQ' = Tail(mqttQ) /\ Len(mqttQ) <= GwCap
    BY DEF Publish, Queues, Control
<1>2. mqttQ' \in Seq(Nat) /\ Range(mqttQ') \subseteq Range(mqttQ)
    BY <1>1, Taking
<1>3. Len(mqttQ') <= GwCap
  <2>1. Len(mqttQ) \in Nat /\ Len(mqttQ') \in Nat /\ Len(mqttQ') < Len(mqttQ)
      BY <1>1, Taking
  <2> QED
      BY <1>1, <2>1, Sizes
<1>4. UNCHANGED <<next, scanning, msgq, typed, wire, batch, loop, serving, flag, advQueue, cur,
                  net, advQ, log, faults>>
    BY DEF Publish, fwVars, piVars
<1>5. Queues' /\ Sorted' /\ Ordered' /\ Loses
    BY <1>2, <1>4 DEF Queues, Sorted, Ordered, Loses, Flying
<1>6. Reported'
    BY <1>2, <1>4 DEF Reported, Flying
<1>7. Control'
    BY <1>3, <1>4 DEF Control, Publish
<1> QED
    BY <1>5, <1>6, <1>7

LEMMA StreamBreaksKeeps ==
    ASSUME IInv, StreamBreaks
    PROVE  IInv' /\ Loses
<1> USE DEF IInv
<1>1. net' \in Seq(Nat) /\ Range(net') = {} /\ Increasing(net')
    BY EmptyQueue DEF StreamBreaks
<1>2. UNCHANGED <<next, scanning, msgq, typed, wire, batch, loop, serving, flag, advQueue,
                  advQ, mqttQ, mqttUp, log>>
    BY DEF StreamBreaks, fwVars, piVars
<1>3. Queues' /\ Sorted'
    BY <1>1, <1>2 DEF Queues, Sorted
<1>4. Ordered'
    BY <1>1, <1>2, ChainShrinks DEF Ordered
<1>5. Loses
    BY <1>1, <1>2 DEF Loses, Flying
<1>6. Reported'
    BY <1>2, <1>5 DEF Reported, Loses
<1>7. Control'
    BY <1>2, Sizes DEF Control, StreamBreaks, Fault
<1> QED
    BY <1>3, <1>4, <1>5, <1>6, <1>7

LEMMA GatewayRestartsKeeps ==
    ASSUME IInv, NEW s \in Streams, GatewayRestarts(s)
    PROVE  IInv' /\ Loses
<1> USE DEF IInv
<1>1. /\ net' \in Seq(Nat) /\ Range(net') = {} /\ Increasing(net')
      /\ advQ' \in Seq(Nat) /\ Range(advQ') = {} /\ Increasing(advQ') /\ Len(advQ') = 0
      /\ mqttQ' \in Seq(Nat) /\ Range(mqttQ') = {} /\ Len(mqttQ') = 0
    BY EmptyQueue DEF GatewayRestarts
<1>2. UNCHANGED <<next, scanning, msgq, typed, wire, batch, loop, advQueue, log>>
    BY DEF GatewayRestarts, fwVars
<1>3. Queues' /\ Sorted'
    BY <1>1, <1>2 DEF Queues, Sorted
<1>4. Ordered'
    BY <1>1, <1>2, ChainShrinks DEF Ordered
<1>5. Loses
    BY <1>1, <1>2 DEF Loses, Flying
<1>6. Reported'
    BY <1>1, <1>2, <1>5 DEF Reported, Loses
<1>7. Control'
    BY <1>1, <1>2, Sizes DEF Control, GatewayRestarts, Fault
<1> QED
    BY <1>3, <1>4, <1>5, <1>6, <1>7

-----------------------------------------------------------------------------
LEMMA StutterKeeps ==
    ASSUME IInv, UNCHANGED vars
    PROVE  IInv' /\ Loses
    BY DEF IInv, Queues, Sorted, Ordered, Reported, Flying, Control, Loses,
           vars, fwVars, piVars, gwVars

LEMMA LosingIsLose ==
    ASSUME Loses
    PROVE  Fifo!Next
<1>1. InFlight' \in SUBSET InFlight /\ next' = next /\ log' = log
    BY FlightIsFlying, NextFlightIsFlying DEF Loses
<1>2. Fifo!Lose
    BY <1>1 DEF Fifo!Lose
<1> QED
    BY <1>2 DEF Fifo!Next

LEMMA StepKeeps ==
    ASSUME IInv, [Next]_vars
    PROVE  IInv' /\ Fifo!Next
<1>1. CASE Scan
    BY <1>1, ScanKeeps DEF Fifo!Next
<1>2. CASE WriteLog
    BY <1>2, WriteLogKeeps DEF Fifo!Next
<1>3. CASE UsbAdv
    BY <1>3, UsbAdvKeeps, LosingIsLose
<1>4. CASE StopScan
    BY <1>4, StopScanKeeps, LosingIsLose
<1>5. CASE RestartScan
    BY <1>5, RestartScanKeeps, LosingIsLose
<1>6. CASE ReadLine
    BY <1>6, ReadLineKeeps, LosingIsLose
<1>7. CASE FlushAdvs
    BY <1>7, FlushAdvsKeeps, LosingIsLose
<1>8. CASE Dispatch
    BY <1>8, DispatchKeeps, LosingIsLose
<1>9. CASE \E s \in Streams : Yield(s)
    BY <1>9, YieldKeeps, LosingIsLose
<1>10. CASE \E s \in Streams : Cancelled(s)
    BY <1>10, CancelledKeeps, LosingIsLose
<1>11. CASE \E s \in Streams : GatewayRestarts(s)
    BY <1>11, GatewayRestartsKeeps, LosingIsLose
<1>12. CASE Receive
    BY <1>12, ReceiveKeeps, LosingIsLose
<1>13. CASE Publish
    BY <1>13, PublishKeeps, LosingIsLose
<1>14. CASE StreamBreaks
    BY <1>14, StreamBreaksKeeps, LosingIsLose
<1>15. CASE UNCHANGED vars
    BY <1>15, StutterKeeps, LosingIsLose
<1> QED
    BY <1>1, <1>2, <1>3, <1>4, <1>5, <1>6, <1>7, <1>8, <1>9, <1>10, <1>11, <1>12, <1>13,
       <1>14, <1>15 DEF Next

(* The queues of the dongle, the Pi and the gateway hold the               *)
(* advertisements in the order of the scanner's reports, each once.        *)
THEOREM PathInOrder == Spec => []IInv
<1>1. IInv /\ [Next]_vars => IInv'
    BY StepKeeps
<1> QED
    BY InitHolds, <1>1, PTL DEF Spec

LEMMA IInvTypes == IInv => TypeOK
<1> SUFFICES ASSUME IInv
             PROVE  TypeOK
    OBVIOUS
<1>1. \A x \in 1..(next - 1) : x \in 1..MaxAdvs
    BY Sizes DEF IInv, Control
<1>2. InFlight \cup Range(mqttQ) \cup Range(log) \subseteq 1..MaxAdvs
    BY <1>1, FlightIsFlying DEF IInv, Reported
<1> QED
    BY <1>2 DEF IInv, Control, TypeOK

(* No queue of the path (adv_msgq, the serial line, _pending, adv_queue,   *)
(* adv_q, mqtt_q) ever holds more than its size, and nothing is in one of  *)
(* them or in ads_log.txt that was not scanned.                            *)
THEOREM PathTypeCorrect == Spec => []TypeOK
    BY PathInOrder, IInvTypes, PTL

(* The threads and processes between scan_cb and ads_log.txt implement one *)
(* lossy queue, through drops, purges, the two formats of a line, broken   *)
(* streams, streams that overlap and restarts of the gateway.              *)
THEOREM PathIsLossyFifo == Spec => LogIsLossyFifo
<1>1. Init => Fifo!Init
    BY InitHolds
<1>2. IInv /\ [Next]_vars => [Fifo!Next]_(Fifo!vars)
    BY StepKeeps
<1> QED
    BY <1>1, <1>2, PathInOrder, PTL DEF Spec, LogIsLossyFifo, Fifo!Spec
=============================================================================
