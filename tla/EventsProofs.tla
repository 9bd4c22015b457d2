----------------------------- MODULE EventsProofs -----------------------------
(***************************************************************************)
(* What holds of the event fan-out for every number of windows, ids,       *)
(* targets and events, and for every queue limit.                          *)
(***************************************************************************)
EXTENDS Events, TLAPS, FiniteSetTheorems, SequenceTheorems, WellFoundedInduction

-----------------------------------------------------------------------------
(* The inductive invariant. *)

(* The messages offered to a session are those its pump took, those dropped  *)
(* since and those queued, in that order.                                    *)
Contiguous ==
  \A w \in Windows :
    /\ issued[w] = pump[w].serial + dropped[w] + Len(queue[w])
    /\ \A i \in 1..Len(queue[w]) : queue[w][i].serial = pump[w].serial + dropped[w] + i

(* A session belongs to a window that is open under its id, and a window that *)
(* was not accepted has sent and lost nothing.                                *)
Fresh ==
  /\ \A i \in Ids : sessions[i] # "none" =>
       window[sessions[i]].st = "open" /\ window[sessions[i]].id = i
  /\ \A w \in Windows :
       /\ window[w].st = "new" <=> window[w].id = "none"
       /\ window[w].st \in {"new", "accepting"} =>
            pump[w].st = "none" /\ pump[w].serial = 0 /\ dropped[w] = 0

Wants(w, a, b) == {n \in (a + 1)..b : log[n] \in Wanted[w]}

AllOffered ==
  \A w \in Windows :
    /\ since[w] <= Len(log)
    /\ Registered(w) => issued[w] = 1 + Cardinality(Wants(w, since[w], Len(log)))

InOrder ==
  \A w \in Windows : \A i \in 1..Len(queue[w]) :
    /\ queue[w][i].event <= Len(log)
    /\ queue[w][i].event # Hello => log[queue[w][i].event] \in Wanted[w]
    /\ \A j \in 1..Len(queue[w]) : i < j => queue[w][i].event < queue[w][j].event

IInv == TypeOK /\ Contiguous /\ Fresh /\ AllOffered /\ InOrder

-----------------------------------------------------------------------------
(* Counting. *)

LEMMA Least ==
  ASSUME NEW T \in SUBSET Nat, T # {}
  PROVE  \E x \in T : \A y \in T : x <= y
<1> DEFINE R == OpToRel(<, Nat)
<1>1. IsWellFoundedOn(R, Nat)
  BY NatLessThanWellFounded
<1>2. PICK x \in T : \A y \in T : ~(<<y, x>> \in R)
  <2> HIDE DEF R
  <2> QED BY <1>1, WFMin
<1>3. ASSUME NEW y \in T PROVE x <= y
  <2>1. x \in Nat /\ y \in Nat
    OBVIOUS
  <2>2. y < x => <<y, x>> \in R
    BY <2>1 DEF OpToRel
  <2>3. ~(y < x)
    <3> HIDE DEF R
    <3> QED BY <1>2, <2>2
  <2> HIDE DEF R
  <2> QED BY <2>1, <2>3, SMT
<1> QED BY <1>3

(* The i-th of a finite set of numbers is a member that i - 1 others precede. *)
LEMMA NthExists ==
  ASSUME NEW S \in SUBSET Nat, IsFiniteSet(S), NEW b \in Nat, \A n \in S : n <= b,
         NEW i \in 1..Cardinality(S)
  PROVE  /\ Nth(i, S) \in S
         /\ Cardinality({m \in S : m < Nth(i, S)}) = i - 1
<1> DEFINE below(k) == {m \in S : m < k}
           T == {k \in Nat : i <= Cardinality(below(k))}
<1>0. Cardinality(S) \in Nat /\ i \in Nat /\ 1 <= i /\ i <= Cardinality(S)
  BY FS_CardinalityType
<1>1. ASSUME NEW k \in Nat PROVE IsFiniteSet(below(k)) /\ Cardinality(below(k)) \in Nat
  BY FS_Subset, FS_CardinalityType
<1>2. below(b + 1) = S
  <2>1. \A n \in S : n < b + 1
    OBVIOUS
  <2> QED BY <2>1
<1>3. b + 1 \in T
  BY <1>0, <1>2
<1>4. PICK k \in T : \A y \in T : k <= y
  <2> HIDE DEF T
  <2>1. T \in SUBSET Nat
    BY DEF T
  <2> QED BY <1>3, <2>1, Least
<1>5. below(0) = {}
  <2>1. \A n \in S : ~(n < 0)
    OBVIOUS
  <2> QED BY <2>1
<1>6. 0 \notin T
  BY <1>0, <1>5, FS_EmptySet
<1>7. k \in Nat /\ k # 0 /\ k - 1 \in Nat /\ k - 1 \notin T
  BY <1>4, <1>6
<1>8. Cardinality(below(k - 1)) < i /\ i <= Cardinality(below(k))
  BY <1>0, <1>1, <1>7, <1>4
<1>9. below(k) = IF k - 1 \in S THEN below(k - 1) \cup {k - 1} ELSE below(k - 1)
  <2>1. \A n \in S : n < k <=> n < k - 1 \/ n = k - 1
    BY <1>7
  <2>2. ~(k - 1 < k - 1)
    BY <1>7
  <2>3. CASE k - 1 \in S
    <3>1. \A n : n \in below(k) <=> n \in below(k - 1) \cup {k - 1}
      BY <2>1, <2>3
    <3> HIDE DEF below
    <3> QED BY <3>1, <2>3
  <2>4. CASE k - 1 \notin S
    <3>1. \A n : n \in below(k) <=> n \in below(k - 1)
      BY <2>1, <2>4
    <3> HIDE DEF below
    <3> QED BY <3>1, <2>4
  <2> QED BY <2>3, <2>4
<1>10. k - 1 \in S /\ Cardinality(below(k)) = Cardinality(below(k - 1)) + 1
  <2>1. k - 1 \in S
    BY <1>7, <1>8, <1>9, <1>1, <1>0
  <2>2. k - 1 \notin below(k - 1)
    BY <1>7
  <2>3. IsFiniteSet(below(k - 1))
    BY <1>1, <1>7
  <2> HIDE DEF below
  <2> QED BY <2>1, <2>2, <2>3, <1>9, FS_AddElement
<1>11. Cardinality(below(k - 1)) = i - 1
  BY <1>10, <1>8, <1>1, <1>7, <1>0
<1>12. \E n \in S : Cardinality({m \in S : m < n}) = i - 1
  BY <1>10, <1>11
<1> QED BY <1>12 DEF Nth

(* ... and they come in ascending order. *)
LEMMA NthOrdered ==
  ASSUME NEW S \in SUBSET Nat, IsFiniteSet(S), NEW b \in Nat, \A n \in S : n <= b,
         NEW i \in 1..Cardinality(S), NEW j \in 1..Cardinality(S), i < j
  PROVE  Nth(i, S) < Nth(j, S)
<1> DEFINE x == Nth(i, S)
           y == Nth(j, S)
           below(k) == {m \in S : m < k}
<1>0. Cardinality(S) \in Nat
  BY FS_CardinalityType
<1>1. x \in S /\ Cardinality(below(x)) = i - 1
  BY NthExists
<1>2. y \in S /\ Cardinality(below(y)) = j - 1
  BY NthExists
<1> HIDE DEF x, y
<1>3. ASSUME y <= x PROVE FALSE
  <2>0. \A m \in S : m < y => m < x
    BY <1>1, <1>2, <1>3
  <2>1. below(y) \in SUBSET below(x) /\ below(x) \in SUBSET S
    BY <2>0
  <2>2. IsFiniteSet(below(x))
    BY <2>1, FS_Subset
  <2>3. Cardinality(below(y)) <= Cardinality(below(x))
    BY <2>1, <2>2, FS_Subset
  <2> QED BY <2>3, <1>1, <1>2, <1>0
<1>4. x \in Nat /\ y \in Nat
  BY <1>1, <1>2
<1>5. x < y
  BY <1>3, <1>4
<1> QED BY <1>5 DEF x, y

-----------------------------------------------------------------------------
(* The queue. *)

(* A full queue loses its head before the message goes to its end. *)
Lost(w) == IF Len(queue[w]) = QueueMax THEN 1 ELSE 0

LEMMA OfferedShape ==
  ASSUME TypeOK, NEW w \in Windows, NEW e \in Nat
  PROVE  /\ Offered(w, e) \in Seq(Message)
         /\ Len(Offered(w, e)) = Len(queue[w]) + 1 - Lost(w)
         /\ Len(Offered(w, e)) <= QueueMax
         /\ \A i \in 1..(Len(Offered(w, e)) - 1) : Offered(w, e)[i] = queue[w][i + Lost(w)]
         /\ Offered(w, e)[Len(Offered(w, e))] = [serial |-> issued[w] + 1, event |-> e]
<1> DEFINE q == queue[w]
           m == [serial |-> issued[w] + 1, event |-> e]
           rest == IF Len(q) = QueueMax THEN Tail(q) ELSE q
<1>1. q \in Seq(Message) /\ Len(q) <= QueueMax /\ m \in Message
  BY DEF TypeOK, Message
<1>2. Len(q) \in Nat /\ QueueMax \in Nat /\ 1 <= QueueMax
  BY <1>1, EventsAssumption
<1>3. /\ rest \in Seq(Message)
      /\ Len(rest) = Len(q) - Lost(w)
      /\ \A i \in 1..Len(rest) : rest[i] = q[i + Lost(w)]
  <2>1. CASE Len(q) = QueueMax
    <3>1. q # <<>>
      BY <2>1, <1>2
    <3>2. rest = Tail(q) /\ Lost(w) = 1
      BY <2>1 DEF Lost
    <3> HIDE DEF q, rest
    <3> QED BY <3>1, <3>2, <1>1, HeadTailProperties
  <2>2. CASE Len(q) # QueueMax
    <3>1. rest = q /\ Lost(w) = 0
      BY <2>2 DEF Lost
    <3>2. \A i \in 1..Len(q) : i + 0 = i
      BY <1>2
    <3> HIDE DEF q, rest
    <3> QED BY <3>1, <3>2, <1>1, <1>2
  <2> QED BY <2>1, <2>2
<1>4. Offered(w, e) = Append(rest, m)
  BY DEF Offered
<1>5. Lost(w) \in {0, 1} /\ (Lost(w) = 0 => Len(q) # QueueMax)
  BY DEF Lost
<1> HIDE DEF q, m, rest
<1>6. /\ Append(rest, m) \in Seq(Message)
      /\ Len(Append(rest, m)) = Len(rest) + 1
      /\ \A i \in 1..Len(rest) : Append(rest, m)[i] = rest[i]
      /\ Append(rest, m)[Len(rest) + 1] = m
  BY <1>1, <1>3, AppendProperties
<1>7. Len(rest) \in Nat
  BY <1>3
<1>8. /\ Len(Append(rest, m)) = Len(q) + 1 - Lost(w)
      /\ Len(Append(rest, m)) <= QueueMax
      /\ Len(Append(rest, m)) - 1 = Len(rest)
  BY <1>1, <1>2, <1>3, <1>5, <1>6, <1>7
<1>9. \A i \in 1..Len(rest) : Append(rest, m)[i] = q[i + Lost(w)]
  BY <1>3, <1>6
<1>10. Append(rest, m)[Len(Append(rest, m))] = m
  BY <1>6
<1> QED BY <1>4, <1>6, <1>8, <1>9, <1>10 DEF q, m

LEMMA RecentFinite ==
  ASSUME TypeOK, NEW w \in Windows
  PROVE  /\ ReplayFrom \in 0..Len(log) /\ Len(log) - ReplayFrom <= Replay
         /\ Recent(w) \in SUBSET Nat /\ IsFiniteSet(Recent(w))
         /\ \A n \in Recent(w) : n \in 1..Len(log) /\ log[n] \in Wanted[w]
         /\ Cardinality(Recent(w)) \in 0..Replay
<1>1. Len(log) \in Nat /\ Replay \in Nat
  BY EventsAssumption DEF TypeOK
<1>2. ReplayFrom \in 0..Len(log) /\ Len(log) - ReplayFrom <= Replay
  BY <1>1 DEF ReplayFrom
<1>3. \A n \in Recent(w) : n \in 1..Len(log) /\ log[n] \in Wanted[w]
  BY <1>1, <1>2 DEF Recent
<1>4. Recent(w) \in SUBSET ((ReplayFrom + 1)..Len(log)) /\ Recent(w) \in SUBSET Nat
  BY <1>1, <1>2, <1>3 DEF Recent
<1>5. /\ IsFiniteSet((ReplayFrom + 1)..Len(log))
      /\ Cardinality((ReplayFrom + 1)..Len(log)) <= Replay
  <2>1. ReplayFrom + 1 \in Int /\ Len(log) \in Int
    BY <1>1, <1>2
  <2>2. /\ IsFiniteSet((ReplayFrom + 1)..Len(log))
        /\ Cardinality((ReplayFrom + 1)..Len(log)) =
             IF ReplayFrom + 1 > Len(log) THEN 0 ELSE Len(log) - (ReplayFrom + 1) + 1
    BY <2>1, FS_Interval
  <2> QED BY <2>2, <1>1, <1>2
<1>6. /\ IsFiniteSet(Recent(w))
      /\ Cardinality(Recent(w)) <= Cardinality((ReplayFrom + 1)..Len(log))
  BY <1>4, <1>5, FS_Subset
<1>7. Cardinality(Recent(w)) \in Nat /\ Cardinality((ReplayFrom + 1)..Len(log)) \in Nat
  BY <1>5, <1>6, FS_CardinalityType
<1> QED BY <1>1, <1>2, <1>3, <1>4, <1>5, <1>6, <1>7

(* What connect() queues. *)
LEMMA GreetingShape ==
  ASSUME TypeOK, NEW w \in Windows
  PROVE  /\ Greeting(w) \in Seq(Message)
         /\ Len(Greeting(w)) = Cardinality(Recent(w)) + 1
         /\ Len(Greeting(w)) <= QueueMax
         /\ \A i \in 1..Len(Greeting(w)) :
              /\ Greeting(w)[i].serial = i
              /\ Greeting(w)[i].event <= Len(log)
              /\ Greeting(w)[i].event # Hello => log[Greeting(w)[i].event] \in Wanted[w]
              /\ \A j \in 1..Len(Greeting(w)) :
                   i < j => Greeting(w)[i].event < Greeting(w)[j].event
<1> DEFINE S == Recent(w)
           N == Cardinality(S)
           g == Greeting(w)
<1>0. Len(log) \in Nat /\ Replay \in Nat /\ QueueMax \in Nat /\ Replay < QueueMax
  BY EventsAssumption DEF TypeOK
<1>1. /\ S \in SUBSET Nat /\ IsFiniteSet(S) /\ N \in Nat /\ N <= Replay
      /\ \A n \in S : n \in 1..Len(log) /\ log[n] \in Wanted[w]
  BY <1>0, RecentFinite
<1>a. \A n \in S : n <= Len(log)
  BY <1>0, <1>1
<1>2. ASSUME NEW i \in 1..N PROVE Nth(i, S) \in S
  <2>1. i \in 1..Cardinality(S)
    OBVIOUS
  <2> HIDE DEF S, N
  <2> QED BY <2>1, <1>0, <1>1, <1>a, NthExists
<1>3. ASSUME NEW i \in 1..N, NEW j \in 1..N, i < j PROVE Nth(i, S) < Nth(j, S)
  <2>1. i \in 1..Cardinality(S) /\ j \in 1..Cardinality(S)
    OBVIOUS
  <2> HIDE DEF S, N
  <2> QED BY <2>1, <1>0, <1>1, <1>a, <1>3, NthOrdered
<1>4. g = [i \in 1..(N + 1) |-> [serial |-> i, event |-> IF i = 1 THEN Hello ELSE Nth(i - 1, S)]]
  BY DEF Greeting
<1> HIDE DEF S, N, g
<1>5. ASSUME NEW i \in 1..(N + 1)
      PROVE  /\ g[i].serial = i
             /\ i = 1 => g[i].event = 0
             /\ i # 1 => i - 1 \in 1..N /\ g[i].event = Nth(i - 1, S)
             /\ g[i] \in Message
  <2>1. g[i] = [serial |-> i, event |-> IF i = 1 THEN Hello ELSE Nth(i - 1, S)]
    BY <1>4
  <2>2. i \in Nat /\ (i # 1 => i - 1 \in 1..N)
    BY <1>1
  <2>3. (IF i = 1 THEN Hello ELSE Nth(i - 1, S)) \in Nat
    BY <2>2, <1>1, <1>2 DEF Hello
  <2> QED BY <2>1, <2>2, <2>3 DEF Hello, Message
<1>6. g \in Seq(Message) /\ Len(g) = N + 1
  <2>1. DOMAIN g = 1..(N + 1) /\ N + 1 \in Nat
    BY <1>1, <1>4
  <2>2. g \in [1..(N + 1) -> Message]
    BY <1>4, <1>5
  <2> QED BY <2>1, <2>2, <1>1, LenProperties, ElementOfSeq, SeqDef
<1>7. ASSUME NEW i \in 1..(N + 1)
      PROVE  /\ g[i].event <= Len(log)
             /\ g[i].event # Hello => log[g[i].event] \in Wanted[w]
  BY <1>0, <1>1, <1>2, <1>5 DEF Hello
<1>8. ASSUME NEW i \in 1..(N + 1), NEW j \in 1..(N + 1), i < j
      PROVE  g[i].event < g[j].event
  <2>1. j # 1 /\ j - 1 \in 1..N /\ g[j].event = Nth(j - 1, S)
    BY <1>1, <1>5, <1>8
  <2>2. CASE i = 1
    <3>1. Nth(j - 1, S) \in S /\ g[i].event = 0
      BY <2>1, <2>2, <1>2, <1>5
    <3>2. Nth(j - 1, S) \in 1..Len(log)
      BY <3>1, <1>1
    <3> QED BY <3>1, <3>2, <2>1, <1>0
  <2>3. CASE i # 1
    <3>1. i - 1 \in 1..N /\ g[i].event = Nth(i - 1, S) /\ i - 1 < j - 1
      BY <2>3, <1>1, <1>5, <1>8
    <3>2. Nth(i - 1, S) < Nth(j - 1, S)
      BY <3>1, <2>1, <1>3
    <3> QED BY <3>1, <3>2, <2>1
  <2> QED BY <2>2, <2>3
<1>9. Len(g) <= QueueMax
  BY <1>0, <1>1, <1>6
<1> QED BY <1>5, <1>6, <1>7, <1>8, <1>9 DEF S, N, g

-----------------------------------------------------------------------------
(* The invariant holds initially and every action keeps it. *)

LEMMA InitInv == Init => IInv
<1> SUFFICES ASSUME Init PROVE IInv
  OBVIOUS
<1> USE DEF Init
<1>1. Len(<<>>) = 0
  OBVIOUS
<1>2. TypeOK
  BY <1>1, EventsAssumption DEF TypeOK, Handler, Pump
<1>3. Contiguous
  BY <1>1 DEF Contiguous
<1>4. Fresh
  BY DEF Fresh
<1>5. AllOffered
  BY <1>1 DEF AllOffered, Registered
<1>6. InOrder
  BY <1>1 DEF InOrder
<1> QED BY <1>2, <1>3, <1>4, <1>5, <1>6 DEF IInv

LEMMA EmitInv ==
  ASSUME IInv, NEW t \in Targets, Emit(t)
  PROVE  IInv'
<1> DEFINE e == Len(log) + 1
<1>0. TypeOK /\ Contiguous /\ Fresh /\ AllOffered /\ InOrder
  BY DEF IInv
<1>1. /\ e <= MaxEvents
      /\ log' = Append(log, t)
      /\ queue' = [w \in Windows |-> IF w \in Audience(t) THEN Offered(w, e) ELSE queue[w]]
      /\ dropped' = [w \in Windows |-> IF w \in Audience(t) THEN DroppedBy(w) ELSE dropped[w]]
      /\ issued' = [w \in Windows |-> IF w \in Audience(t) THEN issued[w] + 1 ELSE issued[w]]
      /\ sessions' = sessions /\ window' = window /\ pump' = pump
      /\ since' = since /\ newest' = newest
  BY DEF Emit
<1>2. log \in Seq(Targets) /\ Len(log) \in Nat /\ MaxEvents \in Nat
  BY <1>0, EventsAssumption DEF TypeOK
<1>3. /\ log' \in Seq(Targets) /\ Len(log') = e
      /\ \A n \in 1..Len(log) : log'[n] = log[n]
      /\ log'[e] = t
  BY <1>1, <1>2, AppendProperties
<1>4. e \in Nat
  BY <1>2
<1> HIDE DEF e
<1>5. \A w \in Windows : queue[w] \in Seq(Message) /\ Len(queue[w]) \in Nat
  BY <1>0 DEF TypeOK
<1>6. \A w \in Windows : Registered(w)' <=> Registered(w)
  BY <1>1 DEF Registered
<1>7. TypeOK'
  <2>1. queue' \in [Windows -> Seq(Message)] /\ \A w \in Windows : Len(queue'[w]) <= QueueMax
    <3>1. ASSUME NEW w \in Windows
          PROVE  /\ (IF w \in Audience(t) THEN Offered(w, e) ELSE queue[w]) \in Seq(Message)
                 /\ Len(IF w \in Audience(t) THEN Offered(w, e) ELSE queue[w]) <= QueueMax
      <4>1. Len(queue[w]) <= QueueMax
        BY <1>0 DEF TypeOK
      <4> QED BY <1>0, <1>4, <1>5, <4>1, OfferedShape
    <3> QED BY <3>1, <1>1
  <2>2. dropped' \in [Windows -> Nat]
    BY <1>0, <1>1 DEF TypeOK, DroppedBy
  <2>3. issued' \in [Windows -> Nat]
    BY <1>0, <1>1 DEF TypeOK
  <2> QED BY <2>1, <2>2, <2>3, <1>0, <1>1, <1>3 DEF TypeOK
<1>8. Contiguous'
  <2> SUFFICES ASSUME NEW w \in Windows
               PROVE  /\ issued'[w] = pump'[w].serial + dropped'[w] + Len(queue'[w])
                      /\ \A i \in 1..Len(queue'[w]) :
                           queue'[w][i].serial = pump'[w].serial + dropped'[w] + i
    BY DEF Contiguous
  <2>0. /\ pump[w].serial \in Nat /\ dropped[w] \in Nat /\ issued[w] \in Nat
    BY <1>0 DEF TypeOK, Pump
  <2>1. /\ issued[w] = pump[w].serial + dropped[w] + Len(queue[w])
        /\ \A i \in 1..Len(queue[w]) : queue[w][i].serial = pump[w].serial + dropped[w] + i
    BY <1>0 DEF Contiguous
  <2>2. CASE w \notin Audience(t)
    BY <2>1, <2>2, <1>1
  <2>3. CASE w \in Audience(t)
    <3>1. queue'[w] = Offered(w, e) /\ issued'[w] = issued[w] + 1 /\ pump'[w] = pump[w]
      BY <2>3, <1>1
    <3>2. dropped'[w] = dropped[w] + Lost(w) /\ Lost(w) \in {0, 1}
      BY <2>0, <2>3, <1>1 DEF DroppedBy, Lost
    <3>3. /\ Len(queue'[w]) = Len(queue[w]) + 1 - Lost(w)
          /\ \A i \in 1..(Len(queue'[w]) - 1) : queue'[w][i] = queue[w][i + Lost(w)]
          /\ queue'[w][Len(queue'[w])] = [serial |-> issued[w] + 1, event |-> e]
      BY <3>1, <1>0, <1>4, OfferedShape
    <3>4. issued'[w] = pump'[w].serial + dropped'[w] + Len(queue'[w])
      <4>1. pump'[w].serial = pump[w].serial
        BY <3>1
      <4>2. Len(queue[w]) \in Nat
        BY <1>5
      <4>3. issued[w] + 1 = pump[w].serial + (dropped[w] + Lost(w)) + (Len(queue[w]) + 1 - Lost(w))
        BY <4>2, <3>2, <2>0, <2>1
      <4> QED BY <4>1, <4>3, <3>1, <3>2, <3>3
    <3>5. ASSUME NEW i \in 1..Len(queue'[w])
          PROVE  queue'[w][i].serial = pump'[w].serial + dropped'[w] + i
      <4>1. CASE i = Len(queue'[w])
        <5>1. queue'[w][i].serial = issued[w] + 1
          BY <4>1, <3>3
        <5>2. queue'[w][i].serial = issued'[w]
          BY <5>1, <3>1
        <5>3. pump'[w].serial + dropped'[w] + i = issued'[w]
          BY <4>1, <3>4
        <5> QED BY <5>2, <5>3
      <4>2. CASE i # Len(queue'[w])
        <5>1. i \in 1..(Len(queue'[w]) - 1) /\ i + Lost(w) \in 1..Len(queue[w])
          BY <4>2, <3>2, <3>3, <1>5
        <5>2. queue'[w][i] = queue[w][i + Lost(w)]
          BY <5>1, <3>3
        <5>3. queue[w][i + Lost(w)].serial = pump[w].serial + dropped[w] + (i + Lost(w))
          BY <5>1, <2>1
        <5>4. i \in Int /\ Lost(w) \in Int
          BY <3>2
        <5>5. pump[w].serial + dropped[w] + (i + Lost(w)) = pump[w].serial + (dropped[w] + Lost(w)) + i
          BY <5>4, <2>0
        <5>6. queue'[w][i].serial = pump[w].serial + (dropped[w] + Lost(w)) + i
          BY <5>2, <5>3, <5>5
        <5> QED BY <5>6, <3>1, <3>2
      <4> QED BY <4>1, <4>2
    <3> QED BY <3>4, <3>5
  <2> QED BY <2>2, <2>3
<1>9. Fresh'
  <2>1. \A w \in Windows : window[w].st \in {"new", "accepting"} => w \notin Audience(t)
    <3> SUFFICES ASSUME NEW w \in Windows, w \in Audience(t)
                 PROVE  window[w].st = "open"
      OBVIOUS
    <3>1. window[w].id # "none" /\ sessions[window[w].id] = w /\ w # "none"
      BY EventsAssumption DEF Audience, Registered
    <3>2. window[w].id \in Ids
      BY <3>1, <1>0 DEF TypeOK, Handler
    <3> QED BY <3>1, <3>2, <1>0 DEF Fresh
  <2> QED BY <2>1, <1>0, <1>1 DEF Fresh
<1>10. AllOffered'
  <2> SUFFICES ASSUME NEW w \in Windows
               PROVE  /\ since'[w] <= Len(log')
                      /\ Registered(w)' =>
                           issued'[w] = 1 + Cardinality({n \in (since[w] + 1)..e : log'[n] \in Wanted[w]})
    BY <1>1, <1>3 DEF AllOffered, Wants
  <2> DEFINE before == Wants(w, since[w], Len(log))
             after == {n \in (since[w] + 1)..e : log'[n] \in Wanted[w]}
  <2>1. since[w] \in Nat /\ since[w] <= Len(log)
    BY <1>0 DEF TypeOK, AllOffered
  <2>2. /\ e \notin before
        /\ \A n : n \in after <=> n \in before \/ (n = e /\ t \in Wanted[w])
    <3>1. \A n : n \in (since[w] + 1)..e <=> n \in (since[w] + 1)..Len(log) \/ n = e
      BY <2>1, <1>2 DEF e
    <3>2. \A n \in (since[w] + 1)..Len(log) : log'[n] = log[n] /\ n # e
      BY <2>1, <1>2, <1>3 DEF e
    <3>3. /\ \A n : n \in after <=> n \in (since[w] + 1)..e /\ log'[n] \in Wanted[w]
          /\ \A n : n \in before <=> n \in (since[w] + 1)..Len(log) /\ log[n] \in Wanted[w]
      BY DEF Wants
    <3> HIDE DEF after, before
    <3> QED BY <3>1, <3>2, <3>3, <1>3
  <2>3. IsFiniteSet(before)
    <3>1. IsFiniteSet((since[w] + 1)..Len(log))
      BY SMTT(30), <2>1, <1>2, FS_Interval
    <3>2. before \in SUBSET ((since[w] + 1)..Len(log))
      BY DEF Wants
    <3> QED BY <3>1, <3>2, FS_Subset
  <2> HIDE DEF before, after
  <2>4. Cardinality(after) = Cardinality(before) + (IF t \in Wanted[w] THEN 1 ELSE 0)
    <3>0. Cardinality(before) \in Nat
      BY <2>3, FS_CardinalityType
    <3>1. CASE t \in Wanted[w]
      <4>1. after = before \cup {e}
        BY <2>2, <3>1
      <4> QED BY <4>1, <3>1, <2>2, <2>3, FS_AddElement
    <3>2. CASE t \notin Wanted[w]
      <4>1. after = before
        BY <2>2, <3>2
      <4> QED BY <4>1, <3>2, <3>0
    <3> QED BY <3>1, <3>2
  <2>5. since'[w] <= Len(log')
    BY <2>1, <1>1, <1>2, <1>3 DEF e
  <2>6. ASSUME Registered(w)
        PROVE  issued'[w] = 1 + Cardinality(after)
    <3>1. issued[w] = 1 + Cardinality(before) /\ Cardinality(before) \in Nat
      BY <2>3, <2>6, <1>0, FS_CardinalityType DEF AllOffered, before
    <3>2. w \in Audience(t) <=> t \in Wanted[w]
      BY <2>6 DEF Audience
    <3>3. issued'[w] = issued[w] + (IF t \in Wanted[w] THEN 1 ELSE 0)
      BY <3>1, <3>2, <1>1
    <3> QED BY <3>1, <3>3, <2>4
  <2> QED BY <2>5, <2>6, <1>6 DEF after
<1>11. InOrder'
  <2> SUFFICES ASSUME NEW w \in Windows, NEW i \in 1..Len(queue'[w])
               PROVE  /\ queue'[w][i].event <= Len(log')
                      /\ queue'[w][i].event # Hello => log'[queue'[w][i].event] \in Wanted[w]
                      /\ \A j \in 1..Len(queue'[w]) :
                           i < j => queue'[w][i].event < queue'[w][j].event
    BY DEF InOrder
  <2>0. ASSUME NEW k \in 1..Len(queue[w])
        PROVE  /\ queue[w][k].event \in Nat
               /\ queue[w][k].event < e
               /\ queue[w][k].event # Hello => log'[queue[w][k].event] \in Wanted[w]
    <3>1. queue[w][k] \in Message
      BY <1>5, ElementOfSeq
    <3>2. queue[w][k].event \in Nat
      BY <3>1 DEF Message
    <3>3. queue[w][k].event <= Len(log)
      BY <1>0 DEF InOrder
    <3>4. queue[w][k].event # Hello => log[queue[w][k].event] \in Wanted[w]
      BY <1>0 DEF InOrder
    <3>5. queue[w][k].event # Hello => queue[w][k].event \in 1..Len(log)
      BY <3>2, <3>3, <1>2 DEF Hello
    <3> QED BY <3>2, <3>3, <3>4, <3>5, <1>2, <1>3 DEF e
  <2>1. CASE w \notin Audience(t)
    <3>1. queue'[w] = queue[w]
      BY <2>1, <1>1
    <3> QED BY <3>1, <2>0, <1>0, <1>2, <1>3, <1>4 DEF InOrder
  <2>2. CASE w \in Audience(t)
    <3>1. queue'[w] = Offered(w, e) /\ t \in Wanted[w] /\ Lost(w) \in {0, 1}
      BY <2>2, <1>1 DEF Audience, Lost
    <3>2. /\ Len(queue'[w]) = Len(queue[w]) + 1 - Lost(w)
          /\ \A k \in 1..(Len(queue'[w]) - 1) : queue'[w][k] = queue[w][k + Lost(w)]
          /\ queue'[w][Len(queue'[w])] = [serial |-> issued[w] + 1, event |-> e]
      BY <3>1, <1>0, <1>4, OfferedShape
    <3>3. ASSUME NEW k \in 1..Len(queue'[w]), k # Len(queue'[w])
          PROVE  k + Lost(w) \in 1..Len(queue[w]) /\ queue'[w][k] = queue[w][k + Lost(w)]
      <4>1. k \in 1..(Len(queue'[w]) - 1) /\ k + Lost(w) \in 1..Len(queue[w])
        BY <3>1, <3>2, <3>3, <1>5
      <4> QED BY <4>1, <3>2
    <3>4. CASE i = Len(queue'[w])
      <4>1. queue'[w][i].event = e
        BY <3>2, <3>4
      <4>2. \A j \in 1..Len(queue'[w]) : ~(i < j)
        BY <3>2, <3>4, <3>1, <1>5
      <4> QED BY <4>1, <4>2, <3>1, <1>3, <1>4
    <3>5. CASE i # Len(queue'[w])
      <4>1. i + Lost(w) \in 1..Len(queue[w]) /\ queue'[w][i] = queue[w][i + Lost(w)]
        BY <3>3, <3>5
      <4>2. ASSUME NEW j \in 1..Len(queue'[w]), i < j
            PROVE  queue'[w][i].event < queue'[w][j].event
        <5>1. CASE j = Len(queue'[w])
          <6>1. queue'[w][j].event = e
            BY <5>1, <3>2
          <6> QED BY <6>1, <4>1, <2>0
        <5>2. CASE j # Len(queue'[w])
          <6>1. j + Lost(w) \in 1..Len(queue[w]) /\ queue'[w][j] = queue[w][j + Lost(w)]
            BY <3>3, <5>2
          <6>2. i + Lost(w) < j + Lost(w)
            BY <4>2, <3>1
          <6>3. queue[w][i + Lost(w)].event < queue[w][j + Lost(w)].event
            BY <4>1, <6>1, <6>2, <1>0 DEF InOrder
          <6> QED BY <6>1, <6>3, <4>1
        <5> QED BY <5>1, <5>2
      <4>3. queue'[w][i].event <= Len(log')
        BY <4>1, <2>0, <1>3, <1>4
      <4>4. queue'[w][i].event # Hello => log'[queue'[w][i].event] \in Wanted[w]
        BY <4>1, <2>0
      <4> QED BY <4>2, <4>3, <4>4
    <3> QED BY <3>4, <3>5
  <2> QED BY <2>1, <2>2
<1> QED BY <1>7, <1>8, <1>9, <1>10, <1>11 DEF IInv

(* The actions that leave the log alone: the offers of a session they do not *)
(* touch stay as they are.                                                   *)
LEMMA Untouched ==
  ASSUME IInv, log' = log, NEW w \in Windows,
         queue'[w] = queue[w], dropped'[w] = dropped[w], pump'[w].serial = pump[w].serial,
         issued'[w] = issued[w], since'[w] = since[w], Registered(w)' => Registered(w)
  PROVE  /\ issued'[w] = pump'[w].serial + dropped'[w] + Len(queue'[w])
         /\ \A i \in 1..Len(queue'[w]) : queue'[w][i].serial = pump'[w].serial + dropped'[w] + i
         /\ since'[w] <= Len(log')
         /\ Registered(w)' => issued'[w] = 1 + Cardinality(Wants(w, since[w], Len(log))')
         /\ \A i \in 1..Len(queue'[w]) :
              /\ queue'[w][i].event <= Len(log')
              /\ queue'[w][i].event # Hello => log'[queue'[w][i].event] \in Wanted[w]
              /\ \A j \in 1..Len(queue'[w]) : i < j => queue'[w][i].event < queue'[w][j].event
<1>1. Contiguous /\ AllOffered /\ InOrder
  BY DEF IInv
<1>2. Wants(w, since[w], Len(log))' = Wants(w, since[w], Len(log))
  BY DEF Wants
<1>3. /\ issued'[w] = pump'[w].serial + dropped'[w] + Len(queue'[w])
      /\ \A i \in 1..Len(queue'[w]) : queue'[w][i].serial = pump'[w].serial + dropped'[w] + i
  BY <1>1 DEF Contiguous
<1>4. /\ since'[w] <= Len(log')
      /\ Registered(w)' => issued'[w] = 1 + Cardinality(Wants(w, since[w], Len(log))')
  BY <1>1, <1>2 DEF AllOffered
<1>5. \A i \in 1..Len(queue'[w]) :
        /\ queue'[w][i].event <= Len(log')
        /\ queue'[w][i].event # Hello => log'[queue'[w][i].event] \in Wanted[w]
        /\ \A j \in 1..Len(queue'[w]) : i < j => queue'[w][i].event < queue'[w][j].event
  BY <1>1 DEF InOrder
<1> QED BY <1>3, <1>4, <1>5

LEMMA StillInv ==
  ASSUME IInv, log' = log, queue' = queue, dropped' = dropped, issued' = issued, since' = since,
         \A w \in Windows : pump'[w].serial = pump[w].serial,
         \A w \in Windows : Registered(w)' => Registered(w)
  PROVE  Contiguous' /\ AllOffered' /\ InOrder'
<1>1. Contiguous'
  BY Untouched DEF Contiguous
<1>2. AllOffered'
  BY Untouched DEF AllOffered
<1>3. InOrder'
  BY Untouched DEF InOrder
<1> QED BY <1>1, <1>2, <1>3

(* Steps of one handler or of one pump that neither register nor pop. *)
LEMMA QuietInv ==
  ASSUME IInv, NEW w \in Windows,
         \/ \E i \in Ids : Open(w, i)
         \/ Vanish(w) \/ Refused(w) \/ Sent(w) \/ SendFails(w)
  PROVE  IInv'
<1>0. TypeOK /\ Fresh /\ Contiguous
  BY DEF IInv
<1>1. window[w] \in Handler /\ pump[w] \in Pump
  BY <1>0 DEF TypeOK
<1>2. /\ log' = log /\ queue' = queue /\ dropped' = dropped /\ issued' = issued
      /\ since' = since /\ sessions' = sessions /\ newest' = newest
  BY DEF Open, Vanish, Refused, Sent, SendFails
<1>3. \A v \in Windows : ~(window[v].st \in {"new", "accepting"} /\ \E i \in Ids : sessions[i] = v)
  <2> SUFFICES ASSUME NEW v \in Windows, NEW i \in Ids, sessions[i] = v
               PROVE  window[v].st = "open"
    OBVIOUS
  <2> QED BY <1>0, EventsAssumption DEF Fresh
<1>4. CASE \E i \in Ids : Open(w, i)
  <2>1. PICK i \in Ids : window' = [window EXCEPT ![w] = [st |-> "accepting", id |-> i, gone |-> FALSE]]
    BY <1>4 DEF Open
  <2>2. window[w].st = "new" /\ window[w].id = "none" /\ pump' = pump /\ i # "none"
    BY <1>0, <1>4, EventsAssumption DEF Open, Fresh
  <2>3. TypeOK'
    BY <1>0, <1>2, <2>1, <2>2 DEF TypeOK, Handler
  <2>4. \A v \in Windows : Registered(v)' => Registered(v)
    <3> SUFFICES ASSUME NEW v \in Windows, Registered(v)'
                 PROVE  Registered(v)
      OBVIOUS
    <3>1. CASE v = w
      <4>1. sessions[i] = w
        BY <1>0, <1>2, <2>1, <3>1 DEF Registered, TypeOK
      <4> QED BY <4>1, <1>3, <2>2
    <3>2. CASE v # w
      <4>1. window'[v] = window[v]
        BY <1>0, <2>1, <3>2 DEF TypeOK
      <4> QED BY <4>1, <1>2 DEF Registered
    <3> QED BY <3>1, <3>2
  <2>5. Fresh'
    <3>1. ASSUME NEW j \in Ids, sessions'[j] # "none"
          PROVE  window'[sessions'[j]].st = "open" /\ window'[sessions'[j]].id = j
      <4>1. sessions[j] \in Windows
        BY <1>0, <1>2, <3>1 DEF TypeOK
      <4>2. sessions[j] # w
        BY <4>1, <1>3, <2>2
      <4>3. window'[sessions[j]] = window[sessions[j]]
        BY <4>1, <4>2, <1>0, <2>1 DEF TypeOK
      <4> QED BY <4>3, <3>1, <1>0, <1>2 DEF Fresh
    <3>2. ASSUME NEW v \in Windows
          PROVE  /\ window'[v].st = "new" <=> window'[v].id = "none"
                 /\ window'[v].st \in {"new", "accepting"} =>
                      pump'[v].st = "none" /\ pump'[v].serial = 0 /\ dropped'[v] = 0
      <4>1. CASE v = w
        <5>1. window'[v].st = "accepting" /\ window'[v].id = i
          BY <4>1, <1>0, <2>1 DEF TypeOK
        <5> QED BY <5>1, <4>1, <2>2, <1>0, <1>2 DEF Fresh
      <4>2. CASE v # w
        <5>1. window'[v] = window[v]
          BY <4>2, <1>0, <2>1 DEF TypeOK
        <5> QED BY <5>1, <2>2, <1>0, <1>2 DEF Fresh
      <4> QED BY <4>1, <4>2
    <3> QED BY <3>1, <3>2 DEF Fresh
  <2> QED BY <2>2, <2>3, <2>4, <2>5, <1>2, StillInv DEF IInv
<1>5. CASE Vanish(w) \/ Refused(w)
  <2>1. PICK h \in Handler :
          /\ window' = [window EXCEPT ![w] = h]
          /\ h.id = window[w].id /\ h.st # "new" /\ window[w].st # "new"
          /\ h.st = "accepting" => window[w].st = "accepting"
          /\ window[w].st = "open" => h.st = "open"
    <3>1. CASE Vanish(w)
      <4>1. [window[w] EXCEPT !.gone = TRUE] \in Handler
        BY <1>1 DEF Handler
      <4> QED BY <4>1, <3>1, <1>1 DEF Vanish, Handler
    <3>2. CASE Refused(w)
      <4>1. [window[w] EXCEPT !.st = "closed"] \in Handler
        BY <1>1 DEF Handler
      <4> QED BY <4>1, <3>2, <1>1 DEF Refused, Handler
    <3> QED BY <1>5, <3>1, <3>2
  <2>2. pump' = pump
    BY <1>5 DEF Vanish, Refused
  <2>3. TypeOK'
    BY <1>0, <1>2, <2>1, <2>2 DEF TypeOK
  <2>4. \A v \in Windows : window'[v].id = window[v].id
    BY <1>0, <2>1 DEF TypeOK
  <2>5. \A v \in Windows : Registered(v)' => Registered(v)
    BY <2>4, <1>2 DEF Registered
  <2>6. \A v \in Windows :
          /\ window'[v].st = "new" <=> window[v].st = "new"
          /\ window'[v].st = "accepting" => window[v].st = "accepting"
          /\ window[v].st = "open" => window'[v].st = "open"
    BY <1>0, <2>1 DEF TypeOK
  <2>7. \A i \in Ids : sessions[i] # "none" => sessions[i] \in Windows
    BY <1>0 DEF TypeOK
  <2>8. Fresh'
    BY <2>2, <2>4, <2>6, <2>7, <1>0, <1>2 DEF Fresh
  <2> QED BY <2>2, <2>3, <2>5, <2>8, <1>2, StillInv DEF IInv
<1>6. CASE Sent(w) \/ SendFails(w)
  <2>1. PICK s \in {"idle", "failed"} : pump' = [pump EXCEPT ![w].st = s]
    BY <1>6 DEF Sent, SendFails
  <2>2. window' = window /\ pump[w].st = "sending"
    BY <1>6 DEF Sent, SendFails
  <2>3. [pump[w] EXCEPT !.st = s] \in Pump
    BY <1>1 DEF Pump
  <2>4. TypeOK'
    BY <1>0, <1>2, <2>1, <2>2, <2>3 DEF TypeOK
  <2>5. \A v \in Windows : pump'[v].serial = pump[v].serial /\ (v # w => pump'[v] = pump[v])
    BY <1>0, <1>1, <2>1 DEF TypeOK, Pump
  <2>6. \A v \in Windows : Registered(v)' => Registered(v)
    BY <2>2, <1>2 DEF Registered
  <2>7. window[w].st \notin {"new", "accepting"}
    BY <2>2, <1>0 DEF Fresh
  <2>8. Fresh'
    BY <2>2, <2>5, <2>7, <1>0, <1>2 DEF Fresh
  <2> QED BY <2>4, <2>5, <2>6, <2>8, <1>2, StillInv DEF IInv
<1> QED BY <1>4, <1>5, <1>6

LEMMA TakeInv ==
  ASSUME IInv, NEW w \in Windows, Take(w)
  PROVE  IInv' /\ pump'[w].serial = pump[w].serial + dropped[w] + 1 /\ pump'[w].gap = dropped[w]
<1> DEFINE q == queue[w]
<1>0. TypeOK /\ Contiguous /\ Fresh /\ AllOffered /\ InOrder
  BY DEF IInv
<1>1. /\ pump[w].st = "idle" /\ q # <<>>
      /\ pump' = [pump EXCEPT ![w] = [st |-> "sending", serial |-> Head(q).serial, gap |-> dropped[w]]]
      /\ queue' = [queue EXCEPT ![w] = Tail(q)]
      /\ dropped' = [dropped EXCEPT ![w] = 0]
      /\ log' = log /\ sessions' = sessions /\ window' = window /\ issued' = issued
      /\ since' = since /\ newest' = newest
  BY DEF Take
<1>2. /\ q \in Seq(Message) /\ Len(q) \in Nat /\ Len(q) <= QueueMax
      /\ pump[w].serial \in Nat /\ dropped[w] \in Nat
      /\ queue \in [Windows -> Seq(Message)] /\ dropped \in [Windows -> Nat]
      /\ pump \in [Windows -> Pump]
  BY <1>0 DEF TypeOK, Pump
<1>3. Len(q) >= 1 /\ Head(q) = q[1]
  <2> HIDE DEF q
  <2> QED BY <1>1, <1>2
<1>4. /\ Head(q) \in Message /\ Tail(q) \in Seq(Message)
      /\ Len(Tail(q)) = Len(q) - 1
      /\ \A i \in 1..Len(Tail(q)) : Tail(q)[i] = q[i + 1]
  <2> HIDE DEF q
  <2> QED BY <1>1, <1>2, HeadTailProperties
<1>5. /\ issued[w] = pump[w].serial + dropped[w] + Len(q)
      /\ \A i \in 1..Len(q) : q[i].serial = pump[w].serial + dropped[w] + i
  BY <1>0 DEF Contiguous
<1>6. Head(q).serial = pump[w].serial + dropped[w] + 1
  <2>1. 1 \in 1..Len(q)
    BY <1>2, <1>3
  <2> QED BY <2>1, <1>3, <1>5
<1>7. queue'[w] = Tail(q) /\ dropped'[w] = 0 /\ pump'[w].serial = Head(q).serial
  BY <1>1, <1>2
<1>8. \A v \in Windows : v # w =>
        queue'[v] = queue[v] /\ dropped'[v] = dropped[v] /\ pump'[v] = pump[v]
  BY <1>1, <1>2
<1>9. \A v \in Windows : Registered(v)' => Registered(v)
  BY <1>1 DEF Registered
<1> HIDE DEF q
<1>10. TypeOK'
  <2>1. [st |-> "sending", serial |-> Head(q).serial, gap |-> dropped[w]] \in Pump
    BY <1>2, <1>4 DEF Pump, Message
  <2>2. Len(Tail(q)) <= QueueMax
    BY <1>2, <1>4, EventsAssumption
  <2>3. pump' \in [Windows -> Pump]
    BY <2>1, <1>1, <1>2
  <2>4. queue' \in [Windows -> Seq(Message)] /\ \A v \in Windows : Len(queue'[v]) <= QueueMax
    <3>1. \A v \in Windows : Len(queue[v]) <= QueueMax
      BY <1>0 DEF TypeOK
    <3> QED BY <2>2, <3>1, <1>1, <1>2, <1>4, <1>7, <1>8
  <2>5. dropped' \in [Windows -> Nat]
    BY <1>1, <1>2
  <2> QED BY <2>3, <2>4, <2>5, <1>0, <1>1 DEF TypeOK
<1>11. \A i \in 1..Len(queue'[w]) : i + 1 \in 1..Len(q) /\ queue'[w][i] = q[i + 1]
  BY <1>2, <1>4, <1>7
<1>12. Contiguous'
  <2>1. issued'[w] = pump'[w].serial + dropped'[w] + Len(queue'[w])
    BY <1>1, <1>2, <1>4, <1>5, <1>6, <1>7
  <2>2. ASSUME NEW i \in 1..Len(queue'[w])
        PROVE  queue'[w][i].serial = pump'[w].serial + dropped'[w] + i
    <3>1. queue'[w][i].serial = pump[w].serial + dropped[w] + (i + 1)
      BY <1>5, <1>11
    <3>2. i \in Int
      OBVIOUS
    <3>3. pump[w].serial + dropped[w] + (i + 1) = pump[w].serial + dropped[w] + 1 + 0 + i
      BY <3>2, <1>2
    <3> QED BY <3>1, <3>3, <1>6, <1>7
  <2> QED BY <2>1, <2>2, <1>1, <1>8, <1>9, Untouched DEF Contiguous
<1>13. Fresh'
  <2>1. window[w].st \notin {"new", "accepting"}
    BY <1>0, <1>1 DEF Fresh
  <2> QED BY <2>1, <1>0, <1>1, <1>8 DEF Fresh
<1>14. AllOffered'
  <2>1. \A v \in Windows : Wants(v, since[v], Len(log))' = Wants(v, since[v], Len(log))
    BY <1>1 DEF Wants
  <2> QED BY <2>1, <1>0, <1>1, <1>9 DEF AllOffered
<1>15. InOrder'
  <2>1. ASSUME NEW i \in 1..Len(queue'[w])
        PROVE  /\ queue'[w][i].event <= Len(log')
               /\ queue'[w][i].event # Hello => log'[queue'[w][i].event] \in Wanted[w]
               /\ \A j \in 1..Len(queue'[w]) : i < j => queue'[w][i].event < queue'[w][j].event
    <3>1. i + 1 \in 1..Len(q) /\ queue'[w][i] = q[i + 1]
      BY <1>11
    <3>2. /\ q[i + 1].event <= Len(log)
          /\ q[i + 1].event # Hello => log[q[i + 1].event] \in Wanted[w]
          /\ \A k \in 1..Len(q) : i + 1 < k => q[i + 1].event < q[k].event
      BY <3>1, <1>0 DEF InOrder, q
    <3>3. ASSUME NEW j \in 1..Len(queue'[w]), i < j
          PROVE  queue'[w][i].event < queue'[w][j].event
      <4>1. j + 1 \in 1..Len(q) /\ queue'[w][j] = q[j + 1]
        BY <1>11
      <4>2. i + 1 < j + 1
        BY <3>3
      <4> QED BY <4>1, <4>2, <3>1, <3>2
    <3> QED BY <3>1, <3>2, <3>3, <1>1
  <2> QED BY ZenonT(30), <2>1, <1>1, <1>8, <1>9, Untouched DEF InOrder
<1>16. pump'[w].gap = dropped[w]
  BY <1>1, <1>2
<1> QED BY <1>6, <1>7, <1>10, <1>12, <1>13, <1>14, <1>15, <1>16 DEF IInv

LEMMA AcceptInv ==
  ASSUME IInv, NEW w \in Windows, Accept(w)
  PROVE  IInv' /\ pump'[w].serial = pump[w].serial
<1> DEFINE i == window[w].id
           g == Greeting(w)
           N == Cardinality(Recent(w))
<1>0. TypeOK /\ Contiguous /\ Fresh /\ AllOffered /\ InOrder
  BY DEF IInv
<1>1. /\ window[w].st = "accepting"
      /\ window' = [window EXCEPT ![w].st = "open"]
      /\ sessions' = [sessions EXCEPT ![i] = w]
      /\ newest' = [newest EXCEPT ![i] = w]
      /\ pump' = [pump EXCEPT ![w].st = "idle"]
      /\ queue' = [queue EXCEPT ![w] = g]
      /\ issued' = [issued EXCEPT ![w] = N + 1]
      /\ since' = [since EXCEPT ![w] = ReplayFrom]
      /\ log' = log /\ dropped' = dropped
  BY DEF Accept
<1>2. /\ g \in Seq(Message) /\ Len(g) = N + 1 /\ Len(g) <= QueueMax
      /\ \A k \in 1..Len(g) :
           /\ g[k].serial = k
           /\ g[k].event <= Len(log)
           /\ g[k].event # Hello => log[g[k].event] \in Wanted[w]
           /\ \A j \in 1..Len(g) : k < j => g[k].event < g[j].event
  BY <1>0, GreetingShape
<1>3. ReplayFrom \in 0..Len(log) /\ N \in Nat /\ Len(log) \in Nat /\ Len(log) <= MaxEvents
  BY <1>0, RecentFinite, EventsAssumption DEF TypeOK
<1>4. /\ window \in [Windows -> Handler] /\ pump \in [Windows -> Pump]
      /\ queue \in [Windows -> Seq(Message)] /\ issued \in [Windows -> Nat]
      /\ since \in [Windows -> 0..MaxEvents]
      /\ sessions \in [Ids -> Windows \cup {"none"}] /\ newest \in [Ids -> Windows \cup {"none"}]
      /\ \A v \in Windows : Len(queue[v]) <= QueueMax
  BY <1>0 DEF TypeOK
<1>5. i \in Ids /\ pump[w].st = "none" /\ pump[w].serial = 0 /\ dropped[w] = 0
  BY <1>0, <1>1, <1>4 DEF Fresh, Handler
<1> HIDE DEF i, g, N
<1>6. /\ queue'[w] = g /\ issued'[w] = N + 1 /\ since'[w] = ReplayFrom
      /\ dropped'[w] = 0 /\ pump'[w].serial = 0 /\ pump'[w].st = "idle"
      /\ window'[w].st = "open" /\ window'[w].id = i
  BY <1>1, <1>4, <1>5 DEF Pump, Handler, i
<1>7. \A v \in Windows : v # w =>
        /\ queue'[v] = queue[v] /\ issued'[v] = issued[v] /\ since'[v] = since[v]
        /\ dropped'[v] = dropped[v] /\ pump'[v] = pump[v] /\ window'[v] = window[v]
  BY <1>1, <1>4
<1>8. \A v \in Windows : v # w => (Registered(v)' => Registered(v))
  <2> SUFFICES ASSUME NEW v \in Windows, v # w, Registered(v)'
               PROVE  Registered(v)
    OBVIOUS
  <2>1. window'[v] = window[v] /\ window[v].id # "none" /\ sessions'[window[v].id] = v
    BY <1>7 DEF Registered
  <2>2. window[v].id \in Ids
    BY <2>1, <1>4 DEF Handler
  <2>3. sessions[window[v].id] = v
    BY <2>1, <2>2, <1>1, <1>4
  <2> QED BY <2>1, <2>3 DEF Registered
<1>9. TypeOK'
  <2>1. window' \in [Windows -> Handler]
    <3>1. [window[w] EXCEPT !.st = "open"] \in Handler
      BY <1>4 DEF Handler
    <3> QED BY <3>1, <1>1, <1>4
  <2>2. pump' \in [Windows -> Pump]
    <3>1. [pump[w] EXCEPT !.st = "idle"] \in Pump
      BY <1>4 DEF Pump
    <3> QED BY <3>1, <1>1, <1>4
  <2>3. queue' \in [Windows -> Seq(Message)] /\ \A v \in Windows : Len(queue'[v]) <= QueueMax
    BY <1>1, <1>2, <1>4, <1>6, <1>7
  <2>4. issued' \in [Windows -> Nat] /\ since' \in [Windows -> 0..MaxEvents]
    <3>1. N + 1 \in Nat /\ ReplayFrom \in 0..MaxEvents
      BY <1>3, EventsAssumption
    <3> QED BY <3>1, <1>1, <1>4
  <2>5. /\ sessions' \in [Ids -> Windows \cup {"none"}]
        /\ newest' \in [Ids -> Windows \cup {"none"}]
    BY <1>1, <1>4
  <2> QED BY <2>1, <2>2, <2>3, <2>4, <2>5, <1>0, <1>1 DEF TypeOK
<1>10. Contiguous'
  <2>1. issued'[w] = pump'[w].serial + dropped'[w] + Len(queue'[w])
    BY <1>2, <1>3, <1>6
  <2>2. \A k \in 1..Len(queue'[w]) : queue'[w][k].serial = pump'[w].serial + dropped'[w] + k
    BY <1>2, <1>6
  <2> QED BY <2>1, <2>2, <1>1, <1>7, <1>8, Untouched DEF Contiguous
<1>11. Fresh'
  <2>1. ASSUME NEW j \in Ids, sessions'[j] # "none"
        PROVE  window'[sessions'[j]].st = "open" /\ window'[sessions'[j]].id = j
    <3>1. CASE j = i
      BY <3>1, <1>1, <1>4, <1>5, <1>6
    <3>2. CASE j # i
      <4>1. sessions'[j] = sessions[j] /\ sessions[j] \in Windows
        BY <3>2, <2>1, <1>1, <1>4, <1>5
      <4>2. window[sessions[j]].st = "open" /\ window[sessions[j]].id = j
        BY <4>1, <2>1, <1>0 DEF Fresh
      <4>3. window'[sessions[j]] = window[sessions[j]]
        BY <4>1, <4>2, <1>1, <1>7
      <4> QED BY <4>1, <4>2, <4>3
    <3> QED BY <3>1, <3>2
  <2>2. i # "none"
    BY <1>5, EventsAssumption
  <2> QED BY <2>1, <2>2, <1>0, <1>6, <1>7 DEF Fresh
<1>12. AllOffered'
  <2>1. issued'[w] = 1 + Cardinality(Wants(w, since[w], Len(log))')
    <3>1. Wants(w, since[w], Len(log))' = Recent(w)
      BY <1>1, <1>6 DEF Wants, Recent
    <3>2. 1 + Cardinality(Recent(w)) = N + 1
      BY <1>3 DEF N
    <3> QED BY <3>1, <3>2, <1>6
  <2>2. since'[w] <= Len(log')
    BY <1>1, <1>3, <1>6
  <2> QED BY <2>1, <2>2, <1>1, <1>7, <1>8, Untouched DEF AllOffered
<1>13. InOrder'
  <2>1. \A k \in 1..Len(queue'[w]) :
          /\ queue'[w][k].event <= Len(log')
          /\ queue'[w][k].event # Hello => log'[queue'[w][k].event] \in Wanted[w]
          /\ \A j \in 1..Len(queue'[w]) : k < j => queue'[w][k].event < queue'[w][j].event
    BY <1>1, <1>2, <1>6
  <2> QED BY <2>1, <1>1, <1>7, <1>8, Untouched DEF InOrder
<1> QED BY <1>5, <1>6, <1>9, <1>10, <1>11, <1>12, <1>13 DEF IInv

LEMMA DisconnectInv ==
  ASSUME IInv, NEW w \in Windows, Disconnect(w)
  PROVE  IInv' /\ \A v \in Windows : pump'[v].serial = pump[v].serial
<1> DEFINE i == window[w].id
<1>0. TypeOK /\ Fresh
  BY DEF IInv
<1>1. /\ window[w].st = "open"
      /\ window' = [window EXCEPT ![w].st = "closed"]
      /\ sessions' = [sessions EXCEPT ![i] = "none"]
      /\ pump' = [v \in Windows |->
                    IF v = sessions[i] /\ pump[v].st \in {"idle", "sending"}
                      THEN [pump[v] EXCEPT !.st = "stopped"] ELSE pump[v]]
      /\ log' = log /\ queue' = queue /\ dropped' = dropped /\ issued' = issued
      /\ since' = since /\ newest' = newest
  BY DEF Disconnect
<1>2. /\ window \in [Windows -> Handler] /\ pump \in [Windows -> Pump]
      /\ sessions \in [Ids -> Windows \cup {"none"}]
  BY <1>0 DEF TypeOK
<1>3. i \in Ids /\ i # "none"
  BY <1>0, <1>1, <1>2, EventsAssumption DEF Fresh, Handler
<1> HIDE DEF i
<1>4. \A v \in Windows : /\ window'[v].id = window[v].id
                         /\ v # w => window'[v] = window[v]
  BY <1>1, <1>2 DEF Handler
<1>5. window'[w].st = "closed"
  BY <1>1, <1>2 DEF Handler
<1>6. \A v \in Windows : /\ pump'[v] \in Pump
                         /\ pump'[v].serial = pump[v].serial
                         /\ pump[v].st = "none" => pump'[v].st = "none"
  <2> SUFFICES ASSUME NEW v \in Windows
               PROVE  /\ pump'[v] \in Pump
                      /\ pump'[v].serial = pump[v].serial
                      /\ pump[v].st = "none" => pump'[v].st = "none"
    OBVIOUS
  <2>1. pump'[v] = pump[v] \/ (pump[v].st # "none" /\ pump'[v] = [pump[v] EXCEPT !.st = "stopped"])
    BY <1>1
  <2> QED BY <2>1, <1>2 DEF Pump
<1>7. TypeOK'
  <2>1. window' \in [Windows -> Handler]
    <3>1. [window[w] EXCEPT !.st = "closed"] \in Handler
      BY <1>2 DEF Handler
    <3> QED BY <3>1, <1>1, <1>2
  <2>2. pump' \in [Windows -> Pump]
    BY <1>1, <1>6
  <2>3. sessions' \in [Ids -> Windows \cup {"none"}]
    BY <1>1, <1>2
  <2> QED BY <2>1, <2>2, <2>3, <1>0, <1>1 DEF TypeOK
<1>8. \A v \in Windows : Registered(v)' => Registered(v)
  <2> SUFFICES ASSUME NEW v \in Windows, Registered(v)'
               PROVE  Registered(v)
    OBVIOUS
  <2>1. window[v].id # "none" /\ sessions'[window[v].id] = v /\ v # "none"
    BY <1>4, EventsAssumption DEF Registered
  <2>2. window[v].id \in Ids
    BY <2>1, <1>2 DEF Handler
  <2>3. sessions[window[v].id] = v
    BY <2>1, <2>2, <1>1, <1>2
  <2> QED BY <2>1, <2>3 DEF Registered
<1>9. Fresh'
  <2>1. ASSUME NEW j \in Ids, sessions'[j] # "none"
        PROVE  window'[sessions'[j]].st = "open" /\ window'[sessions'[j]].id = j
    <3>1. j # i /\ sessions'[j] = sessions[j] /\ sessions[j] \in Windows
      BY <2>1, <1>1, <1>2, <1>3
    <3>2. window[sessions[j]].st = "open" /\ window[sessions[j]].id = j
      BY <2>1, <3>1, <1>0 DEF Fresh
    <3>3. sessions[j] # w
      BY <3>1, <3>2 DEF i
    <3> QED BY <3>1, <3>2, <3>3, <1>4
  <2>2. window[w].id # "none"
    BY <1>3 DEF i
  <2> QED BY <2>1, <2>2, <1>0, <1>1, <1>4, <1>5, <1>6 DEF Fresh
<1>10. Contiguous' /\ AllOffered' /\ InOrder'
  BY <1>1, <1>6, <1>8, StillInv
<1> QED BY <1>6, <1>7, <1>9, <1>10 DEF IInv

LEMMA Inductive == IInv /\ [Next]_vars => IInv'
<1> SUFFICES ASSUME IInv, [Next]_vars PROVE IInv'
  OBVIOUS
<1>1. CASE UNCHANGED vars
  <2>1. \A w \in Windows : Registered(w)' <=> Registered(w)
    BY <1>1 DEF vars, Registered
  <2>2. Contiguous' /\ AllOffered' /\ InOrder'
    BY <1>1, <2>1, StillInv DEF vars
  <2>3. TypeOK' /\ Fresh'
    BY <1>1 DEF vars, IInv, TypeOK, Fresh
  <2> QED BY <2>2, <2>3 DEF IInv
<1>2. CASE \E t \in Targets : Emit(t)
  BY <1>2, EmitInv
<1>3. CASE \E w \in Windows, i \in Ids : Open(w, i)
  BY <1>3, QuietInv
<1>4. CASE \E w \in Windows : Vanish(w) \/ Refused(w) \/ Sent(w) \/ SendFails(w)
  BY <1>4, QuietInv
<1>5. CASE \E w \in Windows : Accept(w)
  BY <1>5, AcceptInv
<1>6. CASE \E w \in Windows : Take(w)
  BY <1>6, TakeInv
<1>7. CASE \E w \in Windows : Disconnect(w)
  BY <1>7, DisconnectInv
<1> QED BY <1>1, <1>2, <1>3, <1>4, <1>5, <1>6, <1>7 DEF Next

-----------------------------------------------------------------------------
(* The theorems. *)

(* The state of the fan-out has its types, and no queue exceeds QUEUE_MAX. *)
THEOREM TypeCorrect == Spec => []TypeOK
<1>1. IInv => TypeOK
  BY DEF IInv
<1> QED BY <1>1, InitInv, Inductive, PTL DEF Spec

(* No event falls between the replay and the live stream of a registered     *)
(* session, and none comes twice: connect(), broadcast() and offer().        *)
THEOREM EveryEventOfferedAlways == Spec => []EveryEventOffered
<1>1. IInv => EveryEventOffered
  BY DEF IInv, AllOffered, Contiguous, EveryEventOffered, Wants
<1> QED BY <1>1, InitInv, Inductive, PTL DEF Spec

(* The queue of a window holds events it may see, in the order of the log.   *)
THEOREM OrderedAndInScopeAlways == Spec => []OrderedAndInScope
<1>1. IInv => OrderedAndInScope
  <2> SUFFICES ASSUME IInv, NEW w \in Windows
               PROVE  \A i \in DOMAIN queue[w] :
                        /\ queue[w][i].event # Hello => log[queue[w][i].event] \in Wanted[w]
                        /\ \A j \in DOMAIN queue[w] : i < j => queue[w][i].event < queue[w][j].event
    BY DEF OrderedAndInScope
  <2>1. DOMAIN queue[w] = 1..Len(queue[w])
    BY DEF IInv, TypeOK
  <2> QED BY <2>1 DEF IInv, InOrder
<1> QED BY <1>1, InitInv, Inductive, PTL DEF Spec

(* _dropped_before tells a window exactly how many messages it missed before *)
(* the one it comes with: offer() and _pump().                               *)
THEOREM GapsAreMarkedAlways == Spec => GapsAreMarked
<1> DEFINE Told == \A w \in Windows :
             pump'[w].serial # pump[w].serial => pump'[w].serial = pump[w].serial + pump'[w].gap + 1
<1>1. IInv /\ [Next]_vars => [Told]_vars
  <2> SUFFICES ASSUME IInv, Next PROVE Told
    OBVIOUS
  <2>0. pump \in [Windows -> Pump]
    BY DEF IInv, TypeOK
  <2>1. CASE \E t \in Targets : Emit(t)
    BY <2>1 DEF Emit
  <2>2. CASE \E w \in Windows, i \in Ids : Open(w, i)
    BY <2>2 DEF Open
  <2>3. CASE \E w \in Windows : Vanish(w) \/ Refused(w)
    BY <2>3 DEF Vanish, Refused
  <2>4. CASE \E w \in Windows : Sent(w) \/ SendFails(w)
    BY <2>0, <2>4 DEF Sent, SendFails, Pump
  <2>5. CASE \E w \in Windows : Accept(w)
    BY <2>0, <2>5 DEF Accept, Pump
  <2>6. CASE \E w \in Windows : Take(w)
    <3>1. PICK w \in Windows : Take(w)
      BY <2>6
    <3>2. pump'[w].serial = pump[w].serial + dropped[w] + 1 /\ pump'[w].gap = dropped[w]
      BY <3>1, TakeInv
    <3>3. \A v \in Windows : v # w => pump'[v] = pump[v]
      BY <2>0, <3>1 DEF Take
    <3> QED BY <3>2, <3>3
  <2>7. CASE \E w \in Windows : Disconnect(w)
    BY <2>7, DisconnectInv
  <2> QED BY <2>1, <2>2, <2>3, <2>4, <2>5, <2>6, <2>7 DEF Next
<1> QED BY <1>1, InitInv, Inductive, PTL DEF Spec, GapsAreMarked
=============================================================================
