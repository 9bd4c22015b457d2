------------------------------ MODULE GateProofs ------------------------------
(***************************************************************************)
(* What holds of the gate for every setting of RECONKG_TOKENS, every set   *)
(* of addresses and patterns, and every lifetime, capacity and cap.        *)
(***************************************************************************)
EXTENDS Gate, TLAPS, FiniteSetTheorems, SequenceTheorems, WellFoundedInduction

-------------------------------------------------------------------------------
(* The inductive invariant. *)

Types ==
  /\ entries \in Seq(Entry)
  /\ running \in {"starting", "up", "refused"}
  /\ clock \in 0..MaxClock
  /\ tickets \in SUBSET Ticket
  /\ minted \in Nat
  /\ bucket \in [Names -> Bucket]
  /\ hosts \in SUBSET Addresses
  /\ events \in [Addresses -> Nat]
  /\ scanning \in [Addresses -> Nat]
  /\ reports \in Seq(Addresses)
  /\ sockets \in Seq(Socket)
  /\ requests \in 0..MaxRequests

(* The table holds an allowance of each principal and the cap in all.         *)
TableFits ==
  /\ Cardinality(tickets) <= AllTickets
  /\ \A n \in Names : Cardinality({t \in tickets : OwnerOf(t) = n}) <= OwnTickets

(* Nothing is handed out before the credentials are found unambiguous.        *)
Unambiguous ==
  IF running = "up" THEN Loads(entries) ELSE tickets = {} /\ sockets = <<>>

(* Serials tell tickets apart, and each was issued while its credential held. *)
Issued(t) ==
  /\ t.serial \in 1..minted
  /\ t.expires - TTL \in 0..clock
  /\ t.expires - TTL < PrincipalOf(t.token).expires

TicketsAreIssued ==
  /\ IsFiniteSet(tickets)
  /\ \A t \in tickets : Issued(t)
  /\ \A t, o \in tickets : t.serial = o.serial => t = o

(* What was taken from a bucket and what it holds is no more than its         *)
(* capacity and what was refilled up to its last refill.                      *)
Balanced(b) ==
  /\ b.tokens <= Capacity
  /\ b.created <= b.updated /\ b.updated <= clock
  /\ b.admitted + b.tokens <= Capacity + (b.updated - b.created)

BucketsBalance == \A n \in Names : bucket[n].on => Balanced(bucket[n])

(* The ticket of a window is out of the table.                                *)
TicketsAreSpent ==
  \A i \in 1..Len(sockets) :
    /\ sockets[i].ticket <= minted
    /\ \A t \in tickets : t.serial # sockets[i].ticket

ReportsFit == Len(reports) <= MaxReports

IInv ==
  /\ Types
  /\ Unambiguous
  /\ TicketsAreIssued
  /\ TableFits
  /\ BucketsBalance
  /\ TicketsAreSpent
  /\ WindowsAreBacked
  /\ ReportsFit

-------------------------------------------------------------------------------
(* The constants, and who a token stands for. *)

LEMMA ConstantsOK ==
  /\ TTL \in Nat /\ OwnTickets \in Nat /\ AllTickets \in Nat /\ Capacity \in Nat
  /\ ScanCost \in Nat /\ MaxBuckets \in Nat /\ MaxTargets \in Nat /\ MaxReports \in Nat
  /\ MaxClock \in Nat /\ MaxRequests \in Nat /\ Never \in Nat
  /\ OwnTickets > 0 /\ MaxReports > 0
  /\ Covers \in [Patterns -> SUBSET Addresses] /\ Settings \subseteq Seq(Entry)
BY GateAssumption

LEMMA PrincipalsAreEntries ==
  ASSUME Types
  PROVE  Principals \subseteq Entry
<1>1. \A i \in 1..Len(entries) : entries[i] \in Entry
  <2> HIDE DEF Entry
  <2> QED BY DEF Types
<1> HIDE DEF Entry
<1> QED BY <1>1 DEF Principals

(* A token that some entry has stands for an entry with that token. *)
LEMMA PrincipalOfToken ==
  ASSUME NEW token, \E p \in Principals : p.token = token
  PROVE  PrincipalOf(token) \in Principals /\ PrincipalOf(token).token = token
<1> HIDE DEF Principals
<1> QED BY DEF PrincipalOf

(* Entries that load have no token in common, so each is its token's own.     *)
LEMMA OnlyPrincipal ==
  ASSUME Types, Loads(entries), NEW p \in Principals
  PROVE  PrincipalOf(p.token) = p
<1>1. PrincipalOf(p.token) \in Principals /\ PrincipalOf(p.token).token = p.token
  BY PrincipalOfToken
<1> DEFINE q == PrincipalOf(p.token)
<1>2. PICK i \in 1..Len(entries) : p = entries[i]
  BY DEF Principals
<1>3. PICK j \in 1..Len(entries) : q = entries[j]
  BY <1>1 DEF Principals
<1>4. i = j
  BY <1>1, <1>2, <1>3 DEF Loads
<1> QED BY <1>2, <1>3, <1>4

(* While the setting does not change, a token stands for the same principal. *)
LEMMA SamePrincipals ==
  ASSUME entries' = entries
  PROVE  /\ Principals' = Principals
         /\ \A token : PrincipalOf(token)' = PrincipalOf(token)
         /\ \A t : OwnerOf(t)' = OwnerOf(t)
<1>1. Principals' = Principals
  BY DEF Principals
<1>2. ASSUME NEW token PROVE PrincipalOf(token)' = PrincipalOf(token)
  BY <1>1 DEF PrincipalOf
<1>3. ASSUME NEW t PROVE OwnerOf(t)' = OwnerOf(t)
  BY <1>1 DEF OwnerOf, PrincipalOf
<1> QED BY <1>1, <1>2, <1>3

-------------------------------------------------------------------------------
(* Counting tickets. *)

LEMMA Least ==
  ASSUME NEW T \in SUBSET Nat, T # {}
  PROVE  \E x \in T : \A y \in T : x <= y
<1> DEFINE R == OpToRel(<, Nat)
<1>1. IsWellFoundedOn(R, Nat)
  BY NatLessThanWellFounded
<1>2. PICK x \in T : \A y \in T : ~(<<y, x>> \in R)
  <2> HIDE DEF R
  <2> QED BY <1>1, WFMin
<1>3. ASSUME NEW y \in T PROVE x <= y
  <2>1. x \in Nat /\ y \in Nat
    OBVIOUS
  <2>2. y < x => <<y, x>> \in R
    BY <2>1 DEF OpToRel
  <2>3. ~(y < x)
    <3> HIDE DEF R
    <3> QED BY <1>2, <2>2
  <2> HIDE DEF R
  <2> QED BY <2>1, <2>3, SMT
<1> QED BY <1>3

(* Of tickets with distinct serials, k at most have fewer than k newer ones.  *)
LEMMA NewestCount ==
  ASSUME NEW S, IsFiniteSet(S), \A t \in S : t.serial \in Nat,
         \A t, o \in S : t.serial = o.serial => t = o, NEW k \in Nat
  PROVE  Cardinality({t \in S : Cardinality({o \in S : o.serial > t.serial}) < k}) <= k
<1> DEFINE newer(t) == {o \in S : o.serial > t.serial}
           K == {t \in S : Cardinality(newer(t)) < k}
<1> SUFFICES Cardinality(K) <= k
  OBVIOUS
<1>1. K \subseteq S
  OBVIOUS
<1>2. IsFiniteSet(K) /\ Cardinality(K) \in Nat
  <2> HIDE DEF K
  <2> QED BY <1>1, FS_Subset, FS_CardinalityType
<1>3. CASE K = {}
  <2> HIDE DEF K
  <2> QED BY <1>3, FS_EmptySet
<1>4. CASE K # {}
  <2> DEFINE T == {t.serial : t \in K}
  <2>1. T \in SUBSET Nat /\ T # {}
    BY <1>4
  <2>2. PICK x \in T : \A y \in T : x <= y
    <3> HIDE DEF T
    <3> QED BY <2>1, Least
  <2>3. PICK t \in K : t.serial = x
    OBVIOUS
  <2>4. ASSUME NEW o \in K PROVE t.serial <= o.serial
    <3> HIDE DEF K
    <3>1. o.serial \in T
      OBVIOUS
    <3> HIDE DEF T
    <3> QED BY <2>2, <2>3, <3>1
  <2>5. K \ {t} \subseteq newer(t)
    <3> SUFFICES ASSUME NEW o \in K, o # t PROVE o \in newer(t)
      OBVIOUS
    <3>1. o.serial # t.serial /\ o.serial \in Nat /\ t.serial \in Nat
      BY <1>1
    <3> QED BY <2>4, <3>1
  <2>6. Cardinality(newer(t)) < k
    OBVIOUS
  <2>7. IsFiniteSet(newer(t)) /\ Cardinality(newer(t)) \in Nat
    <3>1. newer(t) \subseteq S
      OBVIOUS
    <3> HIDE DEF newer
    <3> QED BY <3>1, FS_Subset, FS_CardinalityType
  <2>8. Cardinality(K \ {t}) <= Cardinality(newer(t))
    <3> HIDE DEF newer, K
    <3> QED BY <2>5, <2>7, FS_Subset
  <2>9. Cardinality(K) = Cardinality(K \ {t}) + 1 /\ Cardinality(K \ {t}) \in Nat
    <3>1. IsFiniteSet(K \ {t}) /\ Cardinality(K \ {t}) = Cardinality(K) - 1
      <4> HIDE DEF K
      <4> QED BY <1>2, <2>3, FS_RemoveElement
    <3>2. Cardinality(K \ {t}) \in Nat
      <4> HIDE DEF K
      <4> QED BY <3>1, FS_CardinalityType
    <3> HIDE DEF K
    <3> QED BY <1>2, <3>1, <3>2
  <2> HIDE DEF K, newer
  <2> QED BY <1>2, <2>6, <2>7, <2>8, <2>9
<1> QED BY <1>3, <1>4

LEMMA LiveTickets ==
  ASSUME Types, TicketsAreIssued
  PROVE  /\ Live \subseteq tickets
         /\ \A S : S \subseteq tickets =>
              /\ IsFiniteSet(S) /\ Cardinality(S) \in Nat /\ Cardinality(S) <= Cardinality(tickets)
              /\ S # tickets => Cardinality(S) < Cardinality(tickets)
         /\ Cardinality(tickets) \in Nat
<1>1. IsFiniteSet(tickets)
  BY DEF TicketsAreIssued
<1>2. ASSUME NEW S, S \subseteq tickets
      PROVE  /\ IsFiniteSet(S) /\ Cardinality(S) \in Nat /\ Cardinality(S) <= Cardinality(tickets)
             /\ S # tickets => Cardinality(S) < Cardinality(tickets)
  BY <1>1, <1>2, FS_Subset, FS_CardinalityType
<1> QED BY <1>1, <1>2, FS_CardinalityType DEF Live

(* What issue_ticket() keeps of the caller's own tickets leaves room for one. *)
LEMMA SparedTickets ==
  ASSUME Types, TicketsAreIssued, NEW n
  PROVE  /\ Spared(n) \subseteq Live
         /\ Cardinality({t \in Spared(n) : OwnerOf(t) = n}) < OwnTickets
         /\ \A t \in Live : OwnerOf(t) # n => t \in Spared(n)
<1> DEFINE S == Own(n)
           k == OwnTickets - 1
           K == {t \in S : Cardinality({o \in S : o.serial > t.serial}) < k}
<1>1. S \subseteq tickets
  BY LiveTickets DEF Own
<1>2. IsFiniteSet(S)
  <2> HIDE DEF S
  <2> QED BY <1>1, LiveTickets
<1>3. /\ \A t \in S : t.serial \in Nat
      /\ \A t, o \in S : t.serial = o.serial => t = o
  <2> HIDE DEF S
  <2> QED BY <1>1 DEF TicketsAreIssued, Types, Ticket
<1>4. k \in Nat
  BY ConstantsOK
<1>5. Cardinality(K) <= k
  <2> HIDE DEF S, k
  <2> QED BY <1>2, <1>3, <1>4, NewestCount
<1>6. {t \in Spared(n) : OwnerOf(t) = n} = K
  BY DEF Spared, Own
<1>7. Cardinality(K) \in Nat
  <2>1. K \subseteq tickets
    BY <1>1
  <2> HIDE DEF K
  <2> QED BY <2>1, LiveTickets
<1>8. Cardinality({t \in Spared(n) : OwnerOf(t) = n}) < OwnTickets
  <2>1. Cardinality({t \in Spared(n) : OwnerOf(t) = n}) = Cardinality(K)
    BY <1>6
  <2> HIDE DEF K
  <2> QED BY <1>5, <2>1, <1>7, ConstantsOK
<1> QED BY <1>8 DEF Spared

-------------------------------------------------------------------------------
(* What a step leaves alone. *)

LEMMA Frame ==
  ASSUME IInv, [Next]_vars
  PROVE  /\ entries' = entries
         /\ clock' \in 0..MaxClock /\ clock <= clock'
         /\ hosts' \in SUBSET Addresses
         /\ events' \in [Addresses -> Nat]
         /\ scanning' \in [Addresses -> Nat]
         /\ requests' \in 0..MaxRequests
<1> DEFINE Kept == /\ entries' = entries
                   /\ clock' \in 0..MaxClock /\ clock <= clock'
                   /\ hosts' \in SUBSET Addresses
                   /\ events' \in [Addresses -> Nat]
                   /\ scanning' \in [Addresses -> Nat]
                   /\ requests' \in 0..MaxRequests
<1> SUFFICES Kept
  OBVIOUS
<1>0. /\ clock \in 0..MaxClock /\ clock \in Nat /\ hosts \in SUBSET Addresses
      /\ events \in [Addresses -> Nat] /\ scanning \in [Addresses -> Nat]
      /\ requests \in 0..MaxRequests /\ MaxClock \in Nat /\ MaxRequests \in Nat
  BY ConstantsOK DEF IInv, Types
<1>1. CASE Configure
  BY <1>0, <1>1 DEF Configure
<1>2. CASE Tick
  BY <1>0, <1>2 DEF Tick
<1>3. ASSUME NEW token \in Tokens, NEW a \in Addresses, CreateTarget(token, a)
      PROVE  Kept
  <2>1. /\ entries' = entries /\ clock' = clock /\ scanning' = scanning
        /\ requests' \in 0..MaxRequests
    BY <1>0, <1>3 DEF CreateTarget, Request
  <2>2. \/ hosts' = hosts \cup {a} /\ events' = [events EXCEPT ![a] = @ + 1]
        \/ hosts' = hosts /\ events' = events
    BY <1>3 DEF CreateTarget
  <2> QED BY <1>0, <2>1, <2>2
<1>4. ASSUME NEW token \in Tokens, NEW a \in Addresses, PutEvidence(token, a)
      PROVE  Kept
  BY <1>0, <1>4 DEF PutEvidence, Request
<1>5. ASSUME NEW token \in Tokens, NEW a \in Addresses, Scan(token, a)
      PROVE  Kept
  BY <1>0, <1>5 DEF Scan, Request
<1>6. ASSUME NEW a \in Addresses, ScanDone(a)
      PROVE  Kept
  BY <1>0, <1>6 DEF ScanDone
<1>7. ASSUME NEW token \in Tokens, IssueTicket(token)
      PROVE  Kept
  BY <1>0, <1>7 DEF IssueTicket, Request
<1>8. ASSUME NEW serial \in 1..minted, NEW target \in Addresses \cup {"all"}, NEW late \in BOOLEAN,
             Redeem(serial, target, late)
      PROVE  Kept
  BY <1>0, <1>8 DEF Redeem, Request
<1>9. ASSUME NEW token \in Tokens, NEW target \in Addresses \cup {"all"}, Handshake(token, target)
      PROVE  Kept
  BY <1>0, <1>9 DEF Handshake, Request
<1>10. CASE UNCHANGED vars
  BY <1>0, <1>10 DEF vars
<1> HIDE DEF Kept
<1>11. CASE \E token \in Tokens, a \in Addresses :
              CreateTarget(token, a) \/ PutEvidence(token, a) \/ Scan(token, a)
  BY <1>3, <1>4, <1>5, <1>11
<1>12. CASE \E serial \in 1..minted, target \in Addresses \cup {"all"}, late \in BOOLEAN :
              Redeem(serial, target, late)
  BY <1>8, <1>12
<1>13. CASE \E token \in Tokens, target \in Addresses \cup {"all"} : Handshake(token, target)
  BY <1>9, <1>13
<1> QED BY <1>1, <1>2, <1>11, <1>6, <1>7, <1>12, <1>13, <1>10
        DEF Next

(* Tickets and windows change only when a ticket is issued or a handshake     *)
(* arrives, buckets only when a route charges, reports when a scan ends.      *)
LEMMA Untouched ==
  ASSUME [Next]_vars
  PROVE  /\ \/ \E token \in Tokens : IssueTicket(token)
            \/ \E serial \in 1..minted, target \in Addresses \cup {"all"}, late \in BOOLEAN :
                 Redeem(serial, target, late)
            \/ \E token \in Tokens, target \in Addresses \cup {"all"} : Handshake(token, target)
            \/ UNCHANGED <<tickets, minted, sockets>>
         /\ \/ \E n : \E cost \in {1, ScanCost} : Check(n, cost) /\ clock' = clock
            \/ UNCHANGED bucket
         /\ (\E a \in Addresses : ScanDone(a)) \/ UNCHANGED reports
         /\ running' # running => Configure
<1>1. CASE Configure \/ Tick \/ UNCHANGED vars
  BY <1>1 DEF Configure, Tick, vars
<1>2. CASE \E token \in Tokens, a \in Addresses :
             CreateTarget(token, a) \/ PutEvidence(token, a) \/ Scan(token, a)
  <2>1. PICK token \in Tokens, a \in Addresses :
          CreateTarget(token, a) \/ PutEvidence(token, a) \/ Scan(token, a)
    BY <1>2
  <2>2. UNCHANGED <<tickets, minted, sockets, clock, reports, running>>
    BY <2>1 DEF CreateTarget, PutEvidence, Scan
  <2>3. Check(PrincipalOf(token).name, 1) \/ Check(PrincipalOf(token).name, ScanCost)
    BY <2>1 DEF CreateTarget, PutEvidence, Scan
  <2> QED BY <2>2, <2>3
<1>3. CASE \E a \in Addresses : ScanDone(a)
  BY <1>3 DEF ScanDone
<1>4. CASE \E token \in Tokens : IssueTicket(token)
  BY <1>4 DEF IssueTicket
<1>5. CASE \E serial \in 1..minted, target \in Addresses \cup {"all"}, late \in BOOLEAN :
             Redeem(serial, target, late)
  BY <1>5 DEF Redeem
<1>6. CASE \E token \in Tokens, target \in Addresses \cup {"all"} : Handshake(token, target)
  BY <1>6 DEF Handshake
<1> QED BY <1>1, <1>2, <1>3, <1>4, <1>5, <1>6 DEF Next

-------------------------------------------------------------------------------
(* Buckets. *)

LEMMA RefilledBalances ==
  ASSUME Types, NEW b \in Bucket, b.on, Balanced(b), NEW cost \in Nat
  PROVE  /\ Refilled(b, cost) \in Bucket
         /\ Refilled(b, cost).on
         /\ Balanced(Refilled(b, cost))
<1> DEFINE level == Lesser(Capacity, b.tokens + (clock - b.updated))
<1>1. /\ b.tokens \in Nat /\ b.updated \in Nat /\ b.created \in Nat /\ b.admitted \in Nat
      /\ clock \in Nat /\ Capacity \in Nat
  BY ConstantsOK DEF Bucket, Types
<1>2. /\ level \in Nat /\ level <= Capacity
      /\ level <= b.tokens + (clock - b.updated)
  BY <1>1 DEF Lesser, Balanced
<1>3. b.admitted + level <= Capacity + (clock - b.created)
  <2> HIDE DEF level
  <2> QED BY <1>1, <1>2 DEF Balanced
<1>4. CASE level < cost
  <2> DEFINE r == [b EXCEPT !.updated = clock, !.tokens = level]
  <2>1. Refilled(b, cost) = r
    BY <1>4 DEF Refilled
  <2>2. r \in Bucket /\ r.on /\ r.tokens = level /\ r.updated = clock
        /\ r.created = b.created /\ r.admitted = b.admitted
    <3> HIDE DEF level
    <3> QED BY <1>1, <1>2 DEF Bucket
  <2> HIDE DEF r, level
  <2> QED BY <1>1, <1>2, <1>3, <2>1, <2>2 DEF Balanced
<1>5. CASE ~(level < cost)
  <2> DEFINE r == [b EXCEPT !.updated = clock, !.tokens = level - cost, !.admitted = @ + cost]
  <2>1. Refilled(b, cost) = r
    BY <1>5 DEF Refilled
  <2>2. level - cost \in Nat /\ b.admitted + cost \in Nat
        /\ (b.admitted + cost) + (level - cost) = b.admitted + level
        /\ level - cost <= Capacity
    <3> HIDE DEF level
    <3> QED BY <1>1, <1>2, <1>5
  <2>3. r \in Bucket /\ r.on /\ r.tokens = level - cost /\ r.updated = clock
        /\ r.created = b.created /\ r.admitted = b.admitted + cost
    <3> HIDE DEF level
    <3> QED BY <1>1, <2>2 DEF Bucket
  <2> HIDE DEF r, level
  <2> QED BY <1>1, <1>2, <1>3, <2>1, <2>2, <2>3 DEF Balanced
<1> QED BY <1>4, <1>5

LEMMA BucketStep ==
  ASSUME IInv, [Next]_vars
  PROVE  bucket' \in [Names -> Bucket] /\ BucketsBalance'
<1>1. /\ bucket \in [Names -> Bucket] /\ Types
      /\ \A n \in Names : bucket[n].on => Balanced(bucket[n])
      /\ clock \in Nat /\ clock' \in Nat /\ clock <= clock'
  BY Frame, ConstantsOK DEF IInv, BucketsBalance, Types
<1>2. CASE UNCHANGED bucket
  <2>1. ASSUME NEW n \in Names, bucket[n].on PROVE Balanced(bucket[n])'
    <3>1. bucket[n].updated \in Nat
      BY <1>1 DEF Bucket
    <3> QED BY <1>1, <1>2, <2>1, <3>1 DEF Balanced
  <2> QED BY <1>1, <1>2, <2>1 DEF BucketsBalance
<1>3. ASSUME NEW n, NEW cost \in {1, ScanCost}, Check(n, cost), clock' = clock
      PROVE  bucket' \in [Names -> Bucket] /\ BucketsBalance'
  <2>1. PICK D \in SUBSET Names :
          bucket' = [m \in Names |-> IF m = n THEN Refilled(Current(n), cost)
                                     ELSE IF m \in D THEN NoBucket ELSE bucket[m]]
    BY <1>3 DEF Check
  <2>2. ASSUME NEW m \in Names
        PROVE  bucket'[m] \in Bucket /\ (bucket'[m].on => Balanced(bucket'[m]))
    <3>1. CASE m = n
      <4>1. cost \in Nat
        BY ConstantsOK
      <4>2. Current(n) \in Bucket /\ Current(n).on /\ Balanced(Current(n))
        <5>1. Fresh \in Bucket /\ Fresh.on /\ Balanced(Fresh)
          BY <1>1, ConstantsOK DEF Fresh, Bucket, Balanced
        <5> QED BY <1>1, <3>1, <5>1 DEF Current
      <4> QED BY <1>1, <2>1, <3>1, <4>1, <4>2, RefilledBalances
    <3>2. CASE m # n /\ m \in D
      <4>1. NoBucket \in Bucket /\ NoBucket.on = FALSE
        BY DEF NoBucket, Bucket
      <4> QED BY <2>1, <3>2, <4>1
    <3>3. CASE m # n /\ m \notin D
      BY <1>1, <2>1, <3>3
    <3> QED BY <3>1, <3>2, <3>3
  <2>3. bucket' \in [Names -> Bucket]
    BY <2>1, <2>2
  <2> QED BY <1>3, <2>2, <2>3 DEF BucketsBalance, Balanced
<1> QED BY <1>2, <1>3, Untouched

-------------------------------------------------------------------------------
(* Tickets. *)

NewTicket(token) == [serial |-> minted + 1, token |-> token, expires |-> clock + TTL]

(* A token that resolves has one principal, whose credential still holds.     *)
LEMMA ResolvedPrincipal ==
  ASSUME IInv, NEW token, Resolves(token)
  PROVE  /\ running = "up"
         /\ PrincipalOf(token) \in Entry
         /\ PrincipalOf(token).name \in Names
         /\ clock < PrincipalOf(token).expires
<1>1. running = "up" /\ Types /\ Loads(entries)
  BY DEF Resolves, IInv, Unambiguous
<1>2. PICK p \in Principals : p.token = token /\ clock < p.expires
  BY DEF Resolves
<1>3. PrincipalOf(token) = p
  BY <1>1, <1>2, OnlyPrincipal
<1>4. p \in Entry
  BY <1>1, PrincipalsAreEntries
<1> QED BY <1>1, <1>2, <1>3, <1>4 DEF Entry

LEMMA IssueCases ==
  ASSUME IInv, NEW token \in Tokens, IssueTicket(token), NEW n, n = PrincipalOf(token).name
  PROVE  /\ n \in Names /\ clock < PrincipalOf(token).expires /\ running = "up"
         /\ IF Cardinality(Spared(n)) >= AllTickets
            THEN tickets' = Spared(n) /\ minted' = minted
            ELSE tickets' = Spared(n) \cup {NewTicket(token)} /\ minted' = minted + 1
         /\ UNCHANGED <<entries, clock, sockets>>
<1>1. Resolves(token)
  BY DEF IssueTicket, Permitted
<1>2. n \in Names /\ clock < PrincipalOf(token).expires /\ running = "up"
  BY <1>1, ResolvedPrincipal
<1> HIDE DEF Spared, PrincipalOf
<1> QED BY <1>2 DEF IssueTicket, NewTicket

LEMMA RedeemCases ==
  ASSUME NEW serial, NEW target, NEW late, Redeem(serial, target, late)
  PROVE  /\ running = "up"
         /\ UNCHANGED <<entries, clock, minted>>
         /\ \/ /\ ~\E t \in Live : t.serial = serial
               /\ tickets' = Live /\ sockets' = sockets
            \/ \E t \in Live : /\ t.serial = serial
                               /\ tickets' = Live \ {t}
                               /\ \/ sockets' = sockets
                                  \/ Opened(serial, t.token, t.expires - TTL, target)
<1>1. running = "up" /\ UNCHANGED <<entries, clock, minted>>
  BY DEF Redeem
<1>2. CASE \E t \in Live : t.serial = serial
  <2> DEFINE t == CHOOSE t \in Live : t.serial = serial
  <2>1. t \in Live /\ t.serial = serial
    <3> HIDE DEF Live
    <3> QED BY <1>2
  <2>2. tickets' = Live \ {t} /\ (sockets' = sockets \/ Opened(serial, t.token, t.expires - TTL, target))
    <3> HIDE DEF Live, Opened
    <3> QED BY <1>2 DEF Redeem, Redeemed
  <2> HIDE DEF t
  <2> QED BY <1>1, <2>1, <2>2
<1>3. CASE ~\E t \in Live : t.serial = serial
  <2> HIDE DEF Live, Opened
  <2> QED BY <1>1, <1>3 DEF Redeem
<1> QED BY <1>2, <1>3

LEMMA NewTicketIssued ==
  ASSUME Types, NEW token \in Tokens, clock < PrincipalOf(token).expires
  PROVE  /\ NewTicket(token) \in Ticket
         /\ NewTicket(token).serial = minted + 1
         /\ NewTicket(token).token = token
         /\ NewTicket(token).expires - TTL = clock
<1>1. clock \in Nat /\ minted \in Nat /\ TTL \in Nat
  BY ConstantsOK DEF Types
<1> QED BY <1>1 DEF NewTicket, Ticket

LEMMA TicketStep ==
  ASSUME IInv, [Next]_vars
  PROVE  /\ tickets' \in SUBSET Ticket
         /\ minted' \in Nat /\ minted <= minted'
         /\ TicketsAreIssued'
<1>1. /\ Types /\ TicketsAreIssued /\ minted \in Nat /\ clock \in Nat /\ clock' \in Nat
      /\ clock <= clock' /\ entries' = entries /\ TTL \in Nat
      /\ tickets \in SUBSET Ticket
  BY Frame, ConstantsOK DEF IInv, Types
<1>2. \A token : PrincipalOf(token)' = PrincipalOf(token)
  BY <1>1, SamePrincipals
(* Tickets of the old table are still what they were. *)
<1>3. ASSUME NEW t \in tickets, minted' \in Nat, minted <= minted'
      PROVE  Issued(t)'
  <2>1. Issued(t) /\ t.serial \in Nat /\ t.expires \in Nat
    BY <1>1 DEF TicketsAreIssued, Ticket
  <2>2. PrincipalOf(t.token)' = PrincipalOf(t.token)
    BY <1>2
  <2>3. t.expires - TTL \in 0..clock'
    BY <1>1, <2>1 DEF Issued
  <2>4. t.serial \in 1..minted'
    BY <1>1, <1>3, <2>1 DEF Issued
  <2> QED BY <2>1, <2>2, <2>3, <2>4 DEF Issued
<1>4. ASSUME tickets' \subseteq tickets, minted' = minted
      PROVE  tickets' \in SUBSET Ticket /\ minted' \in Nat /\ minted <= minted' /\ TicketsAreIssued'
  <2>1. IsFiniteSet(tickets')
    BY <1>1, <1>4, LiveTickets
  <2>2. \A t \in tickets' : Issued(t)'
    BY <1>1, <1>3, <1>4
  <2> QED BY <1>1, <1>4, <2>1, <2>2 DEF TicketsAreIssued
<1>5. ASSUME NEW token \in Tokens, IssueTicket(token)
      PROVE  tickets' \in SUBSET Ticket /\ minted' \in Nat /\ minted <= minted' /\ TicketsAreIssued'
  <2>0. PICK n, new : n = PrincipalOf(token).name /\ new = NewTicket(token)
    OBVIOUS
  <2>1. /\ n \in Names /\ clock < PrincipalOf(token).expires /\ clock' = clock
        /\ IF Cardinality(Spared(n)) >= AllTickets
           THEN tickets' = Spared(n) /\ minted' = minted
           ELSE tickets' = Spared(n) \cup {new} /\ minted' = minted + 1
    BY <1>5, <2>0, IssueCases
  <2>2. Spared(n) \subseteq tickets
    BY <1>1, SparedTickets, LiveTickets
  <2>3. CASE tickets' = Spared(n) /\ minted' = minted
    BY <1>4, <2>2, <2>3
  <2>4. CASE tickets' = Spared(n) \cup {new} /\ minted' = minted + 1
    <3>1. /\ new \in Ticket /\ new.serial = minted + 1 /\ new.token = token
          /\ new.expires - TTL = clock
      BY <1>1, <2>0, <2>1, NewTicketIssued
    <3>2. Issued(new)'
      <4>1. PrincipalOf(new.token)' = PrincipalOf(token)
        BY <1>2, <3>1
      <4>2. new.serial \in 1..minted'
        BY <1>1, <2>4, <3>1
      <4>3. new.expires - TTL \in 0..clock'
        BY <1>1, <2>1, <3>1
      <4> QED BY <2>1, <3>1, <4>1, <4>2, <4>3 DEF Issued
    <3>3. \A t \in Spared(n) : Issued(t)'
      BY <1>1, <1>3, <2>2, <2>4
    <3>4. IsFiniteSet(tickets')
      <4>1. IsFiniteSet(Spared(n))
        BY <1>1, <2>2, LiveTickets
      <4> QED BY <2>4, <4>1, FS_AddElement
    <3>5. \A t \in Spared(n) : t.serial # new.serial
      <4> SUFFICES ASSUME NEW t \in Spared(n) PROVE t.serial # new.serial
        OBVIOUS
      <4>1. Issued(t)
        BY <1>1, <2>2 DEF TicketsAreIssued
      <4> QED BY <1>1, <3>1, <4>1 DEF Issued
    <3>6. \A t, o \in tickets' : t.serial = o.serial => t = o
      <4>1. \A t, o \in Spared(n) : t.serial = o.serial => t = o
        BY <1>1, <2>2 DEF TicketsAreIssued
      <4> QED BY <2>4, <3>5, <4>1
    <3>7. tickets' \in SUBSET Ticket /\ minted' \in Nat /\ minted <= minted'
      <4> QED BY <1>1, <2>2, <2>4, <3>1
    <3>8. \A t \in tickets' : Issued(t)'
      <4> QED BY <2>4, <3>2, <3>3
    <3> QED BY <3>4, <3>6, <3>7, <3>8 DEF TicketsAreIssued
  <2> QED BY <2>1, <2>3, <2>4
<1>6. ASSUME NEW serial, NEW target, NEW late, Redeem(serial, target, late)
      PROVE  tickets' \in SUBSET Ticket /\ minted' \in Nat /\ minted <= minted' /\ TicketsAreIssued'
  <2>1. tickets' \subseteq Live /\ minted' = minted
    BY <1>6, RedeemCases
  <2>2. tickets' \subseteq tickets
    BY <1>1, <2>1, LiveTickets
  <2> QED BY <1>4, <2>1, <2>2
<1>7. CASE UNCHANGED <<tickets, minted, sockets>>
  BY <1>4, <1>7
<1>8. ASSUME NEW token, NEW target, Handshake(token, target)
      PROVE  tickets' \in SUBSET Ticket /\ minted' \in Nat /\ minted <= minted' /\ TicketsAreIssued'
  BY <1>4, <1>8 DEF Handshake
<1> QED BY <1>5, <1>6, <1>7, <1>8, Untouched

LEMMA TableStep ==
  ASSUME IInv, [Next]_vars
  PROVE  TableFits'
<1>1. /\ Types /\ TicketsAreIssued /\ TableFits /\ entries' = entries
      /\ OwnTickets \in Nat /\ AllTickets \in Nat /\ Cardinality(tickets) \in Nat
  BY Frame, ConstantsOK, LiveTickets DEF IInv
<1>2. \A t : OwnerOf(t)' = OwnerOf(t)
  BY <1>1, SamePrincipals
<1>3. ASSUME tickets' \subseteq tickets PROVE TableFits'
  <2>1. Cardinality(tickets') <= AllTickets
    <3>1. Cardinality(tickets') \in Nat /\ Cardinality(tickets') <= Cardinality(tickets)
      BY <1>1, <1>3, LiveTickets
    <3> QED BY <1>1, <3>1 DEF TableFits
  <2>2. ASSUME NEW m \in Names
        PROVE  Cardinality({t \in tickets' : OwnerOf(t)' = m}) <= OwnTickets
    <3> DEFINE old == {t \in tickets : OwnerOf(t) = m}
               now == {t \in tickets' : OwnerOf(t)' = m}
    <3>1. now \subseteq old
      BY <1>2, <1>3
    <3>2. IsFiniteSet(old) /\ Cardinality(old) \in Nat /\ Cardinality(old) <= OwnTickets
      <4>1. old \subseteq tickets
        OBVIOUS
      <4>2. Cardinality(old) <= OwnTickets
        BY <1>1 DEF TableFits
      <4> HIDE DEF old
      <4> QED BY <1>1, <4>1, <4>2, LiveTickets
    <3> HIDE DEF old
    <3> SUFFICES Cardinality(now) <= OwnTickets
      OBVIOUS
    <3> HIDE DEF now
    <3>3. IsFiniteSet(now) /\ Cardinality(now) <= Cardinality(old) /\ Cardinality(now) \in Nat
      BY <3>1, <3>2, FS_Subset, FS_CardinalityType
    <3> QED BY <1>1, <3>2, <3>3
  <2> QED BY <2>1, <2>2 DEF TableFits
<1>4. ASSUME NEW token \in Tokens, IssueTicket(token) PROVE TableFits'
  <2>0. PICK n, new : n = PrincipalOf(token).name /\ new = NewTicket(token)
    OBVIOUS
  <2>1. /\ clock < PrincipalOf(token).expires
        /\ IF Cardinality(Spared(n)) >= AllTickets
           THEN tickets' = Spared(n) /\ minted' = minted
           ELSE tickets' = Spared(n) \cup {new} /\ minted' = minted + 1
    BY <1>4, <2>0, IssueCases
  <2>2. /\ Spared(n) \subseteq tickets
        /\ IsFiniteSet(Spared(n)) /\ Cardinality(Spared(n)) \in Nat
        /\ Cardinality({t \in Spared(n) : OwnerOf(t) = n}) < OwnTickets
    BY <1>1, SparedTickets, LiveTickets
  <2>3. CASE tickets' = Spared(n)
    BY <1>3, <2>2, <2>3
  <2>4. CASE tickets' = Spared(n) \cup {new} /\ Cardinality(Spared(n)) < AllTickets
    <3>1. new.token = token /\ OwnerOf(new) = n
      BY <1>1, <2>0, <2>1, NewTicketIssued DEF OwnerOf
    <3>2. Cardinality(tickets') <= AllTickets
      <4>1. Cardinality(tickets') <= Cardinality(Spared(n)) + 1
        BY SMTT(30), <2>2, <2>4, FS_AddElement
      <4>2. Cardinality(tickets') \in Nat
        BY <2>2, <2>4, FS_AddElement, FS_CardinalityType
      <4> QED BY <1>1, <2>2, <2>4, <4>1, <4>2
    <3>3. ASSUME NEW m \in Names
          PROVE  Cardinality({t \in tickets' : OwnerOf(t)' = m}) <= OwnTickets
      <4> DEFINE old == {t \in tickets : OwnerOf(t) = m}
                 own == {t \in Spared(n) : OwnerOf(t) = m}
                 now == {t \in tickets' : OwnerOf(t)' = m}
      <4> SUFFICES Cardinality(now) <= OwnTickets
        OBVIOUS
      <4>1. now = IF m = n THEN own \cup {new} ELSE own
        BY <1>2, <2>4, <3>1
      <4>2. /\ IsFiniteSet(own) /\ Cardinality(own) \in Nat
            /\ m = n => Cardinality(own) < OwnTickets
        <5>1. own \subseteq tickets
          BY <2>2
        <5>2. m = n => Cardinality(own) < OwnTickets
          BY <2>2
        <5> HIDE DEF own
        <5> QED BY <1>1, <5>1, <5>2, LiveTickets
      <4>3. Cardinality(own) <= OwnTickets
        <5>1. own \subseteq old /\ old \subseteq tickets
          BY <2>2
        <5>2. Cardinality(old) <= OwnTickets
          BY <1>1 DEF TableFits
        <5> HIDE DEF own, old
        <5>3. IsFiniteSet(old) /\ Cardinality(old) \in Nat
          BY <1>1, <5>1, LiveTickets
        <5>4. Cardinality(own) <= Cardinality(old)
          BY <5>1, <5>3, FS_Subset
        <5> QED BY <1>1, <4>2, <5>2, <5>3, <5>4
      <4> HIDE DEF own, now
      <4>4. CASE m = n
        <5>1. Cardinality(now) \in Nat /\ Cardinality(now) <= Cardinality(own) + 1
          <6>1. now = own \cup {new}
            BY <4>1, <4>4
          <6>2. IsFiniteSet(now) /\ Cardinality(now) <= Cardinality(own) + 1
            BY SMTT(30), <4>2, <6>1, FS_AddElement
          <6> QED BY <6>2, FS_CardinalityType
        <5> QED BY <1>1, <4>2, <4>4, <5>1
      <4>5. CASE m # n
        BY <4>1, <4>3, <4>5
      <4> QED BY <4>4, <4>5
    <3> QED BY <3>2, <3>3 DEF TableFits
  <2> QED BY <1>1, <2>1, <2>2, <2>3, <2>4
<1>5. ASSUME NEW serial, NEW target, NEW late, Redeem(serial, target, late) PROVE TableFits'
  <2>1. tickets' \subseteq tickets
    BY <1>1, <1>5, RedeemCases, LiveTickets
  <2> QED BY <1>3, <2>1
<1>6. CASE UNCHANGED <<tickets, minted, sockets>>
  BY <1>3, <1>6
<1>7. ASSUME NEW token, NEW target, Handshake(token, target) PROVE TableFits'
  BY <1>3, <1>7 DEF Handshake
<1> QED BY <1>4, <1>5, <1>6, <1>7, Untouched

(* A ticket that leaves has expired, is redeemed, or was its owner's to evict *)
(* for a new one: the table had room for that one once it was out.            *)
LEMMA FloodStep ==
  ASSUME IInv, [Next]_vars, NEW t \in tickets \ tickets'
  PROVE  \/ t.expires < clock
         \/ \E target \in Addresses \cup {"all"}, late \in BOOLEAN : Redeem(t.serial, target, late)
         \/ \E o \in tickets' \ tickets : OwnerOf(o) = OwnerOf(t)
<1>1. /\ Types /\ TicketsAreIssued /\ TableFits /\ clock \in Nat
      /\ t.expires \in Nat /\ AllTickets \in Nat /\ Cardinality(tickets) \in Nat
  BY ConstantsOK, LiveTickets DEF IInv, Types, Ticket
<1> SUFFICES ASSUME t \in Live
             PROVE  \/ \E target \in Addresses \cup {"all"}, late \in BOOLEAN :
                         Redeem(t.serial, target, late)
                    \/ \E o \in tickets' \ tickets : OwnerOf(o) = OwnerOf(t)
  BY <1>1 DEF Live
<1>2. ASSUME NEW token \in Tokens, IssueTicket(token)
      PROVE  \E o \in tickets' \ tickets : OwnerOf(o) = OwnerOf(t)
  <2>0. PICK n, new : n = PrincipalOf(token).name /\ new = NewTicket(token)
    OBVIOUS
  <2>1. /\ clock < PrincipalOf(token).expires
        /\ IF Cardinality(Spared(n)) >= AllTickets
           THEN tickets' = Spared(n)
           ELSE tickets' = Spared(n) \cup {new}
    BY <1>2, <2>0, IssueCases
  <2>2. t \notin Spared(n) /\ OwnerOf(t) = n
    BY <1>1, <2>1, SparedTickets
  <2>3. /\ Spared(n) \subseteq tickets /\ Spared(n) # tickets
        /\ Cardinality(Spared(n)) \in Nat /\ Cardinality(Spared(n)) < Cardinality(tickets)
    BY <1>1, <2>2, SparedTickets, LiveTickets
  <2>4. tickets' = Spared(n) \cup {new}
    BY <1>1, <2>1, <2>3 DEF TableFits
  <2>5. new.serial = minted + 1 /\ new.token = token
    BY <1>1, <2>0, <2>1, NewTicketIssued
  <2>6. OwnerOf(new) = n
    BY <2>0, <2>5 DEF OwnerOf
  <2>7. new \notin tickets
    BY <1>1, <2>5 DEF TicketsAreIssued, Issued, Types
  <2> QED BY <2>2, <2>4, <2>6, <2>7
<1>3. ASSUME NEW serial \in 1..minted, NEW target \in Addresses \cup {"all"}, NEW late \in BOOLEAN,
             Redeem(serial, target, late)
      PROVE  Redeem(t.serial, target, late)
  <2>1. t.serial = serial
    BY <1>3, RedeemCases
  <2> QED BY <1>3, <2>1
<1>4. ~UNCHANGED tickets
  OBVIOUS
<1>5. \A token, target : ~Handshake(token, target)
  BY <1>4 DEF Handshake
<1> QED BY <1>2, <1>3, <1>4, <1>5, Untouched

-------------------------------------------------------------------------------
(* Windows. *)

NewWindow(t, token, issued, target) ==
  [token |-> token, ticket |-> t, issued |-> issued, opened |-> clock, target |-> target]

(* A window that opens is backed, when its ticket or bearer token was. *)
LEMMA OpenedStep ==
  ASSUME IInv, entries' = entries, clock' = clock, minted' = minted, tickets' \subseteq tickets,
         NEW token \in Tokens, NEW target \in Addresses \cup {"all"},
         NEW t \in 0..minted, NEW issued \in 0..clock, clock - issued <= TTL,
         issued < PrincipalOf(token).expires,
         \A o \in tickets' : o.serial # t,
         t # 0 => \A i \in 1..Len(sockets) : sockets[i].ticket # t,
         Opened(t, token, issued, target)
  PROVE  sockets' \in Seq(Socket) /\ TicketsAreSpent' /\ WindowsAreBacked'
<1>1. /\ sockets \in Seq(Socket) /\ TicketsAreSpent /\ WindowsAreBacked
      /\ clock \in Nat /\ minted \in Nat /\ TTL \in Nat /\ MaxClock \in Nat
  BY ConstantsOK DEF IInv, Types
<1>2. /\ \A tk : PrincipalOf(tk)' = PrincipalOf(tk)
  BY SamePrincipals
<1>3. CASE sockets' = sockets
  BY <1>1, <1>2, <1>3 DEF TicketsAreSpent, WindowsAreBacked, MayTouch
<1>4. ASSUME Admitted(PrincipalOf(token), target),
             sockets' = Append(sockets, NewWindow(t, token, issued, target))
      PROVE  sockets' \in Seq(Socket) /\ TicketsAreSpent' /\ WindowsAreBacked'
  <2>0. PICK w : w = NewWindow(t, token, issued, target)
    OBVIOUS
  <2>1. /\ w \in Socket /\ w.token = token /\ w.ticket = t /\ w.issued = issued
        /\ w.opened = clock /\ w.target = target
    BY <1>1, <2>0 DEF NewWindow, Socket
  <2>2. /\ sockets' \in Seq(Socket) /\ Len(sockets') = Len(sockets) + 1 /\ Len(sockets) \in Nat
        /\ \A i \in 1..Len(sockets) : sockets'[i] = sockets[i]
        /\ sockets'[Len(sockets) + 1] = w
    <3> HIDE DEF Socket
    <3> QED BY <1>1, <1>4, <2>0, <2>1
  <2>3. ASSUME NEW i \in 1..Len(sockets')
        PROVE  IF i = Len(sockets) + 1 THEN sockets'[i] = w
               ELSE i \in 1..Len(sockets) /\ sockets'[i] = sockets[i]
    BY <2>2
  <2>4. TicketsAreSpent'
    <3> SUFFICES ASSUME NEW i \in 1..Len(sockets')
                 PROVE  /\ sockets'[i].ticket <= minted'
                        /\ \A o \in tickets' : o.serial # sockets'[i].ticket
      BY DEF TicketsAreSpent
    <3> QED BY SMTT(30), <1>1, <2>1, <2>3 DEF TicketsAreSpent
  <2>5. ASSUME NEW i \in 1..Len(sockets'), NEW j \in 1..Len(sockets'),
               sockets'[i].ticket = sockets'[j].ticket, sockets'[i].ticket # 0
        PROVE  i = j
    BY <1>1, <2>1, <2>2, <2>3, <2>5 DEF WindowsAreBacked
  <2>6. ASSUME NEW i \in 1..Len(sockets')
        PROVE  /\ sockets'[i].opened - sockets'[i].issued \in 0..TTL
               /\ sockets'[i].issued < PrincipalOf(sockets'[i].token).expires
               /\ sockets'[i].target # "all" =>
                    MayTouch(PrincipalOf(sockets'[i].token), sockets'[i].target)
    <3>1. CASE i = Len(sockets) + 1
      <4>1. sockets'[i] = w
        BY <2>3, <3>1
      <4>2. w.opened - w.issued \in 0..TTL
        BY <1>1, <2>1
      <4> QED BY <1>4, <2>1, <4>1, <4>2 DEF Admitted
    <3>2. CASE i # Len(sockets) + 1
      BY <1>1, <2>3, <3>2 DEF WindowsAreBacked
    <3> QED BY <3>1, <3>2
  <2>7. WindowsAreBacked'
    <3>1. \A i \in 1..Len(sockets') :
            PrincipalOf(sockets[i].token)' = PrincipalOf(sockets'[i].token)
      BY SamePrincipals, <1>1 DEF PrincipalOf
    <3> QED BY <2>5, <2>6, <3>1 DEF WindowsAreBacked, MayTouch
  <2> QED BY <2>2, <2>4, <2>7
<1> QED BY <1>3, <1>4 DEF Opened, NewWindow

LEMMA WindowStep ==
  ASSUME IInv, [Next]_vars
  PROVE  sockets' \in Seq(Socket) /\ TicketsAreSpent' /\ WindowsAreBacked'
<1>1. /\ Types /\ TicketsAreIssued /\ TicketsAreSpent /\ WindowsAreBacked
      /\ sockets \in Seq(Socket) /\ entries' = entries /\ tickets \in SUBSET Ticket
      /\ clock \in Nat /\ minted \in Nat /\ minted' \in Nat /\ minted <= minted' /\ TTL \in Nat
  BY Frame, TicketStep, ConstantsOK DEF IInv, Types
<1>2. \A tk : PrincipalOf(tk)' = PrincipalOf(tk)
  BY <1>1, SamePrincipals
<1>3. \A i \in 1..Len(sockets) : sockets[i].ticket \in Nat
  <2>1. \A i \in 1..Len(sockets) : sockets[i] \in Socket
    <3> HIDE DEF Socket
    <3> QED BY <1>1
  <2> QED BY <2>1 DEF Socket
<1>4. ASSUME sockets' = sockets,
             \A t \in tickets' \ tickets : t.serial > minted /\ t.serial \in Nat
      PROVE  sockets' \in Seq(Socket) /\ TicketsAreSpent' /\ WindowsAreBacked'
  <2>1. TicketsAreSpent'
    <3> SUFFICES ASSUME NEW i \in 1..Len(sockets)
                 PROVE  /\ sockets[i].ticket <= minted'
                        /\ \A t \in tickets' : t.serial # sockets[i].ticket
      BY <1>4 DEF TicketsAreSpent
    <3>1. sockets[i].ticket <= minted /\ \A t \in tickets : t.serial # sockets[i].ticket
      BY <1>1 DEF TicketsAreSpent
    <3> QED BY <1>1, <1>3, <1>4, <3>1
  <2>2. WindowsAreBacked'
    BY <1>1, <1>2, <1>4 DEF WindowsAreBacked, MayTouch
  <2> QED BY <1>1, <1>4, <2>1, <2>2
<1>5. ASSUME NEW token \in Tokens, IssueTicket(token)
      PROVE  sockets' \in Seq(Socket) /\ TicketsAreSpent' /\ WindowsAreBacked'
  <2>0. PICK n, new : n = PrincipalOf(token).name /\ new = NewTicket(token)
    OBVIOUS
  <2>1. /\ clock < PrincipalOf(token).expires /\ sockets' = sockets
        /\ tickets' = Spared(n) \/ tickets' = Spared(n) \cup {new}
    BY <1>5, <2>0, IssueCases
  <2>2. Spared(n) \subseteq tickets
    BY <1>1, SparedTickets, LiveTickets
  <2>3. new.serial = minted + 1
    BY <1>1, <2>0, <2>1, NewTicketIssued
  <2>4. \A t \in tickets' \ tickets : t.serial > minted /\ t.serial \in Nat
    BY <1>1, <2>1, <2>2, <2>3
  <2> QED BY <1>4, <2>1, <2>4
<1>6. ASSUME NEW serial \in 1..minted, NEW target \in Addresses \cup {"all"}, NEW late \in BOOLEAN,
             Redeem(serial, target, late)
      PROVE  sockets' \in Seq(Socket) /\ TicketsAreSpent' /\ WindowsAreBacked'
  <2>1. tickets' \subseteq tickets /\ UNCHANGED <<entries, clock, minted>>
    BY <1>1, <1>6, RedeemCases, LiveTickets
  <2>2. CASE sockets' = sockets
    BY <1>4, <2>1, <2>2
  <2>3. CASE sockets' # sockets
    <3>1. PICK t \in Live : /\ t.serial = serial
                            /\ tickets' = Live \ {t}
                            /\ Opened(serial, t.token, t.expires - TTL, target)
      BY <1>6, <2>3, RedeemCases
    <3>2. PICK issued : issued = t.expires - TTL
      OBVIOUS
    <3>3. t \in tickets /\ t.expires >= clock /\ t.token \in Tokens /\ t.expires \in Nat
      BY <1>1 DEF Live, Ticket
    <3>4. issued \in 0..clock /\ issued < PrincipalOf(t.token).expires
      BY <1>1, <3>2, <3>3 DEF TicketsAreIssued, Issued
    <3>5. clock - issued <= TTL
      BY <1>1, <3>2, <3>3
    <3>6. \A o \in tickets' : o.serial # serial
      BY <1>1, <2>1, <3>1, <3>3 DEF TicketsAreIssued
    <3>7. \A i \in 1..Len(sockets) : sockets[i].ticket # serial
      BY <1>1, <3>1, <3>3 DEF TicketsAreSpent
    <3>8. serial \in 0..minted
      BY <1>1
    <3>9. Opened(serial, t.token, issued, target)
      BY <3>1, <3>2
    <3> QED BY <2>1, <3>3, <3>4, <3>5, <3>6, <3>7, <3>8, <3>9, OpenedStep
  <2> QED BY <2>2, <2>3
<1>7. ASSUME NEW token \in Tokens, NEW target \in Addresses \cup {"all"}, Handshake(token, target)
      PROVE  sockets' \in Seq(Socket) /\ TicketsAreSpent' /\ WindowsAreBacked'
  <2>1. UNCHANGED <<entries, clock, minted, tickets>> /\ Resolves(token)
    BY <1>7 DEF Handshake
  <2>2. PICK issued : issued = clock
    OBVIOUS
  <2>3. Opened(0, token, issued, target)
    BY <1>7, <2>2 DEF Handshake
  <2>4. issued < PrincipalOf(token).expires
    BY <2>1, <2>2, ResolvedPrincipal
  <2>5. \A o \in tickets' : o.serial # 0
    BY <1>1, <2>1 DEF TicketsAreIssued, Issued
  <2>6. issued \in 0..clock /\ clock - issued <= TTL /\ 0 \in 0..minted
    BY <1>1, <2>2
  <2> QED BY <2>1, <2>3, <2>4, <2>5, <2>6, OpenedStep
<1>8. CASE UNCHANGED <<tickets, minted, sockets>>
  BY <1>4, <1>8
<1> QED BY <1>5, <1>6, <1>7, <1>8, Untouched

-------------------------------------------------------------------------------
(* Reports. *)

LEMMA RememberedStep ==
  ASSUME IInv, NEW a \in Addresses, NEW kept, kept = Remembered(a)
  PROVE  /\ kept \in Seq(Addresses) /\ Len(kept) <= MaxReports
         /\ \E i \in 1..Len(kept) : kept[i] = a
         /\ Cardinality(ReportedOn \ {kept[i] : i \in 1..Len(kept)}) <= 1
<1>0. PICK all : all = IF Listed(a) THEN reports ELSE Append(reports, a)
  OBVIOUS
<1> SUFFICES /\ kept \in Seq(Addresses) /\ Len(kept) <= MaxReports
             /\ \E i \in 1..Len(kept) : kept[i] = a
             /\ \A b \in ReportedOn : (\E i \in 1..Len(kept) : b = kept[i]) \/ b = all[1]
  <2> DEFINE gone == ReportedOn \ {kept[i] : i \in 1..Len(kept)}
  <2>1. gone \subseteq {all[1]}
    OBVIOUS
  <2>2. IsFiniteSet({all[1]}) /\ Cardinality({all[1]}) = 1
    BY FS_Singleton
  <2>3. Cardinality(gone) <= 1
    <3> HIDE DEF gone
    <3>1. IsFiniteSet(gone) /\ Cardinality(gone) <= Cardinality({all[1]})
      BY <2>1, <2>2, FS_Subset
    <3> QED BY <2>2, <3>1
  <2> QED BY <2>3
<1>1. /\ reports \in Seq(Addresses) /\ Len(reports) <= MaxReports /\ Len(reports) \in Nat
      /\ MaxReports \in Nat /\ MaxReports > 0
  BY ConstantsOK DEF IInv, Types, ReportsFit
<1>2. CASE Listed(a)
  <2>1. kept = reports /\ all = reports
    BY <1>0, <1>1, <1>2 DEF Remembered
  <2> QED BY <1>1, <1>2, <2>1 DEF Listed, ReportedOn
<1>3. CASE ~Listed(a)
  <2>1. /\ all = Append(reports, a) /\ Len(all) = Len(reports) + 1
        /\ all[Len(reports) + 1] = a
        /\ \A i \in 1..Len(reports) : all[i] = reports[i]
    BY <1>0, <1>1, <1>3
  <2>2. CASE Len(all) > MaxReports
    <3>1. kept = Tail(all)
      BY <1>3, <2>1, <2>2 DEF Remembered
    <3>2. /\ kept \in Seq(Addresses) /\ Len(kept) = Len(reports)
          /\ \A i \in 1..Len(kept) : kept[i] = all[i + 1]
      BY <1>1, <2>1, <3>1
    <3>3. Len(reports) = MaxReports
      BY <1>1, <2>1, <2>2
    <3>4. Len(kept) \in 1..Len(kept) /\ kept[Len(kept)] = a
      BY <1>1, <2>1, <3>2, <3>3
    <3>5. ASSUME NEW b \in ReportedOn
          PROVE  (\E i \in 1..Len(kept) : b = kept[i]) \/ b = all[1]
      <4>1. PICK j \in 1..Len(reports) : b = reports[j]
        BY DEF ReportedOn
      <4>2. b = all[j]
        BY <2>1, <4>1
      <4>3. CASE j = 1
        BY <4>2, <4>3
      <4>4. CASE j # 1
        <5>1. j - 1 \in 1..Len(kept) /\ kept[j - 1] = all[j]
          BY <1>1, <3>2, <4>4
        <5> QED BY <4>2, <5>1
      <4> QED BY <4>3, <4>4
    <3> QED BY <1>1, <3>2, <3>3, <3>4, <3>5
  <2>3. CASE ~(Len(all) > MaxReports)
    <3>1. kept = all
      BY <1>3, <2>1, <2>3 DEF Remembered
    <3>2. \A b \in ReportedOn : (\E i \in 1..Len(kept) : b = kept[i])
      <4> SUFFICES ASSUME NEW b \in ReportedOn PROVE \E i \in 1..Len(kept) : b = kept[i]
        OBVIOUS
      <4>1. PICK j \in 1..Len(reports) : b = reports[j]
        BY DEF ReportedOn
      <4> QED BY <1>1, <2>1, <3>1, <4>1
    <3> QED BY <1>1, <2>1, <2>3, <3>1, <3>2
  <2> QED BY <2>2, <2>3
<1> QED BY <1>2, <1>3

LEMMA ReportStep ==
  ASSUME IInv, [Next]_vars
  PROVE  reports' \in Seq(Addresses) /\ ReportsFit'
<1>1. CASE UNCHANGED reports
  BY <1>1 DEF IInv, Types, ReportsFit
<1>2. ASSUME NEW a \in Addresses, ScanDone(a) PROVE reports' \in Seq(Addresses) /\ ReportsFit'
  <2>1. PICK kept : kept = Remembered(a)
    OBVIOUS
  <2>2. reports' = kept
    BY <1>2, <2>1 DEF ScanDone
  <2> QED BY <2>1, <2>2, RememberedStep DEF ReportsFit
<1> QED BY <1>1, <1>2, Untouched

LEMMA SurviveStep ==
  ASSUME IInv, [Next]_vars, NEW a \in Addresses, scanning'[a] < scanning[a]
  PROVE  /\ \E i \in 1..Len(reports') : reports'[i] = a
         /\ Cardinality(ReportedOn \ {reports'[i] : i \in 1..Len(reports')}) <= 1
<1>1. scanning \in [Addresses -> Nat]
  BY DEF IInv, Types
<1>2. ScanDone(a)
  <2>1. ASSUME NEW b \in Addresses, ScanDone(b) PROVE b = a
    BY <1>1, <2>1 DEF ScanDone
  <2>2. ASSUME NEW token, NEW b \in Addresses, Scan(token, b) PROVE FALSE
    <3>1. \E k \in {scanning[b], scanning[b] + 1} : scanning' = [scanning EXCEPT ![b] = k]
      BY <2>2 DEF Scan
    <3> QED BY <1>1, <3>1
  <2>3. scanning' # scanning
    BY <1>1
  <2>4. \A token, b : ~CreateTarget(token, b) /\ ~PutEvidence(token, b)
    BY <2>3 DEF CreateTarget, PutEvidence
  <2>5. ~Configure /\ ~Tick /\ ~UNCHANGED vars
    BY <2>3 DEF Configure, Tick, vars
  <2>6. \A token, target : ~IssueTicket(token) /\ ~Handshake(token, target)
    BY <2>3 DEF IssueTicket, Handshake
  <2>7. \A serial, target, late : ~Redeem(serial, target, late)
    BY <2>3 DEF Redeem
  <2> QED BY <2>1, <2>2, <2>4, <2>5, <2>6, <2>7 DEF Next
<1>3. PICK kept : kept = Remembered(a)
  OBVIOUS
<1>4. reports' = kept
  BY <1>2, <1>3 DEF ScanDone
<1>5. /\ \E i \in 1..Len(kept) : kept[i] = a
      /\ Cardinality(ReportedOn \ {kept[i] : i \in 1..Len(kept)}) <= 1
  BY <1>3, RememberedStep
<1> QED BY <1>4, <1>5

-------------------------------------------------------------------------------
(* What a principal learns. *)

LEMMA ViewsAgree == IInv => ViewIsScoped
<1> SUFFICES ASSUME IInv, NEW p \in Principals, NEW mine, mine = {a \in Addresses : MayTouch(p, a)},
                    NEW windows \in 0..Len(sockets)
             PROVE  View(p, hosts, events, ReportedOn, windows) =
                    View(p, hosts \cap mine,
                         [a \in Addresses |-> IF a \in mine THEN events[a] ELSE 0],
                         ReportedOn \cap mine, windows)
  BY DEF ViewIsScoped
<1>a. PICK h, ev, rep, shown :
        /\ h = hosts /\ ev = events /\ rep = ReportedOn
        /\ shown = [a \in Addresses |-> IF a \in mine THEN events[a] ELSE 0]
  OBVIOUS
<1>b. h \in SUBSET Addresses /\ ev \in [Addresses -> Nat] /\ rep \in SUBSET Addresses
  BY <1>a DEF IInv, Types, ReportedOn
<1>c. /\ mine \in SUBSET Addresses /\ \A a \in Addresses : a \in mine <=> MayTouch(p, a)
      /\ shown \in [Addresses -> Nat] /\ \A a \in Addresses : shown[a] = IF a \in mine THEN ev[a] ELSE 0
  BY <1>a, <1>b
<1>1. Health(p, h, ev, windows) = Health(p, h \cap mine, shown, windows)
  <2>1. {a \in h : MayTouch(p, a)} = {a \in h \cap mine : MayTouch(p, a)}
    BY <1>b, <1>c
  <2>2. [a \in {b \in Addresses : MayTouch(p, b)} |-> ev[a]]
        = [a \in {b \in Addresses : MayTouch(p, b)} |-> shown[a]]
    <3>0. mine = {b \in Addresses : MayTouch(p, b)}
      BY <1>b, <1>c
    <3>1. \A a \in mine : shown[a] = ev[a]
      BY <1>b, <1>c
    <3>2. [a \in mine |-> ev[a]] = [a \in mine |-> shown[a]]
      BY <1>b, <1>c, <3>1
    <3> QED BY <3>0, <3>2
  <2> QED BY <2>1, <2>2 DEF Health
<1>2. Listing(p, h) = Listing(p, h \cap mine)
  BY <1>b, <1>c DEF Listing
<1>3. \A a \in Addresses : Target(p, a, h) = Target(p, a, h \cap mine)
  BY <1>b, <1>c DEF Target
<1>4. \A a \in Addresses : Ledger(p, a, rep) = Ledger(p, a, rep \cap mine)
  BY <1>b, <1>c DEF Ledger
<1>5. Telemetry(p, ev) = Telemetry(p, shown)
  <2>1. CASE p.scope = {}
    <3>1. mine = Addresses
      BY <1>b, <1>c, <2>1 DEF MayTouch
    <3>2. shown = ev
      BY <1>b, <1>c, <3>1
    <3> QED BY <3>2
  <2>2. CASE p.scope # {}
    BY <2>2 DEF Telemetry
  <2> QED BY <2>1, <2>2
<1>6. /\ [a \in Addresses |-> Target(p, a, h)] = [a \in Addresses |-> Target(p, a, h \cap mine)]
      /\ [a \in Addresses |-> Ledger(p, a, rep)] = [a \in Addresses |-> Ledger(p, a, rep \cap mine)]
  BY <1>3, <1>4
<1>7. View(p, h, ev, rep, windows) = View(p, h \cap mine, shown, rep \cap mine, windows)
  BY <1>1, <1>2, <1>5, <1>6 DEF View
<1> QED BY <1>a, <1>7

-------------------------------------------------------------------------------
(* The invariant is inductive. *)

LEMMA Initial == Init => IInv
<1> SUFFICES ASSUME Init PROVE IInv
  OBVIOUS
<1>1. Types
  <2>1. entries \in Seq(Entry)
    <3> HIDE DEF Entry
    <3> QED BY ConstantsOK DEF Init
  <2>2. bucket \in [Names -> Bucket]
    BY DEF Init, NoBucket, Bucket
  <2>3. /\ tickets \in SUBSET Ticket /\ sockets \in Seq(Socket) /\ reports \in Seq(Addresses)
    BY DEF Init
  <2> QED BY <2>1, <2>2, <2>3, ConstantsOK DEF Init, Types
<1>2. Unambiguous
  BY DEF Init, Unambiguous
<1>3. IsFiniteSet(tickets) /\ Cardinality(tickets) = 0
  BY FS_EmptySet DEF Init
<1>4. TicketsAreIssued
  BY <1>3 DEF Init, TicketsAreIssued
<1>5. TableFits
  <2>1. ASSUME NEW n \in Names PROVE Cardinality({t \in tickets : OwnerOf(t) = n}) <= OwnTickets
    <3>1. {t \in tickets : OwnerOf(t) = n} = {}
      BY DEF Init
    <3>2. Cardinality({t \in tickets : OwnerOf(t) = n}) = 0
      BY <3>1, FS_EmptySet
    <3> QED BY <3>2, ConstantsOK
  <2>2. Cardinality(tickets) <= AllTickets
    BY <1>3, ConstantsOK
  <2> QED BY <2>1, <2>2 DEF TableFits
<1>6. BucketsBalance
  BY DEF Init, NoBucket, BucketsBalance
<1>7. TicketsAreSpent /\ WindowsAreBacked
  BY DEF Init, TicketsAreSpent, WindowsAreBacked
<1>8. ReportsFit
  BY ConstantsOK DEF Init, ReportsFit
<1> QED BY <1>1, <1>2, <1>4, <1>5, <1>6, <1>7, <1>8 DEF IInv

LEMMA StartStep ==
  ASSUME IInv, [Next]_vars
  PROVE  running' \in {"starting", "up", "refused"} /\ Unambiguous'
<1>1. entries' = entries /\ Unambiguous /\ running \in {"starting", "up", "refused"}
  BY Frame DEF IInv, Types
<1>2. CASE running' # running
  <2>1. Configure
    BY <1>2, Untouched
  <2> QED BY <1>1, <2>1 DEF Configure, Unambiguous, Loads
<1>3. CASE running' = running /\ running = "up"
  BY <1>1, <1>3 DEF Unambiguous, Loads
<1>4. CASE running' = running /\ running # "up"
  <2>1. \A token : ~IssueTicket(token)
    BY <1>4 DEF IssueTicket, Permitted, Resolves
  <2>2. \A token, target : ~Handshake(token, target)
    BY <1>4 DEF Handshake, Resolves
  <2>3. \A serial, target, late : ~Redeem(serial, target, late)
    BY <1>4 DEF Redeem
  <2>4. UNCHANGED <<tickets, minted, sockets>>
    BY <2>1, <2>2, <2>3, Untouched
  <2> QED BY <1>1, <1>4, <2>4 DEF Unambiguous
<1> QED BY <1>2, <1>3, <1>4

LEMMA Inductive == IInv /\ [Next]_vars => IInv'
<1> SUFFICES ASSUME IInv, [Next]_vars PROVE IInv'
  OBVIOUS
<1>1. entries' \in Seq(Entry)
  BY Frame DEF IInv, Types
<1>2. Types'
  <2> HIDE DEF Entry, Socket, Bucket, Ticket
  <2> QED BY <1>1, Frame, StartStep, TicketStep, BucketStep, WindowStep, ReportStep DEF Types
<1> QED BY <1>2, StartStep, TicketStep, TableStep, BucketStep, WindowStep, ReportStep DEF IInv

LEMMA Invariance == Spec => []IInv
BY Initial, Inductive, PTL DEF Spec

-------------------------------------------------------------------------------
(* The theorems. *)

(* The state keeps its types; and the ticket table never holds more than an   *)
(* allowance of each principal, nor more than the cap.                        *)
THEOREM TypeCorrect == Spec => []TypeOK
<1>1. IInv => TypeOK
  BY DEF IInv, Types, TableFits, TypeOK
<1> QED BY <1>1, Invariance, PTL

(* What the reading routes answer a principal does not depend on a host       *)
(* outside its scope, the number of open windows apart.                       *)
THEOREM ViewIsScopedAlways == Spec => []ViewIsScoped
BY ViewsAgree, Invariance, PTL

(* A principal is never admitted for more than a bucket's capacity and what   *)
(* was refilled since the bucket was made.                                    *)
THEOREM RateBoundAlways == Spec => []RateBound
<1>1. IInv => RateBound
  <2> SUFFICES ASSUME IInv, NEW n \in Names, bucket[n].on
               PROVE  bucket[n].admitted <= Capacity + (clock - bucket[n].created)
    BY DEF RateBound, Held
  <2>1. Balanced(bucket[n]) /\ bucket[n] \in Bucket /\ clock \in Nat /\ Capacity \in Nat
    BY ConstantsOK DEF IInv, BucketsBalance, Types
  <2>2. /\ bucket[n].tokens \in Nat /\ bucket[n].admitted \in Nat /\ bucket[n].updated \in Nat
        /\ bucket[n].created \in Nat
    BY <2>1 DEF Bucket
  <2> QED BY <2>1, <2>2 DEF Balanced
<1> QED BY <1>1, Invariance, PTL

(* A ticket opens one window at most, in its life, and only to what its       *)
(* principal may touch.                                                       *)
THEOREM WindowsAreBackedAlways == Spec => []WindowsAreBacked
<1>1. IInv => WindowsAreBacked
  BY DEF IInv
<1> QED BY <1>1, Invariance, PTL

(* No caller's tickets push out another's. *)
THEOREM OwnFloodOnlyAlways == Spec => OwnFloodOnly
<1> DEFINE Fair(t) == \/ t.expires < clock
                      \/ \E target \in Addresses \cup {"all"}, late \in BOOLEAN :
                           Redeem(t.serial, target, late)
                      \/ \E o \in tickets' \ tickets : OwnerOf(o) = OwnerOf(t)
<1>1. IInv /\ [Next]_vars => [\A t \in tickets \ tickets' : Fair(t)]_vars
  BY FloodStep
<1> QED BY <1>1, Invariance, PTL DEF Spec, OwnFloodOnly

(* A scan that ends leaves its report, and at most one other makes room. *)
THEOREM ReportSurvivesAlways == Spec => ReportSurvives
<1>1. IInv /\ [Next]_vars =>
        [\A a \in Addresses :
           scanning'[a] < scanning[a] =>
             /\ \E i \in 1..Len(reports') : reports'[i] = a
             /\ Cardinality(ReportedOn \ {reports'[i] : i \in 1..Len(reports')}) <= 1]_vars
  BY SurviveStep
<1> QED BY <1>1, Invariance, PTL DEF Spec, ReportSurvives

===============================================================================
