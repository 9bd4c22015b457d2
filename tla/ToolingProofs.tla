----------------------------- MODULE ToolingProofs -----------------------------
(***************************************************************************)
(* What holds of a hand-off for every value of the constants: what it      *)
(* composes is what script.db calls it, and the exploits it shows are the  *)
(* best of those that the lines last ingested give.                        *)
(*                                                                         *)
(* First the facts about numbers and about the first n of a set in an      *)
(* order, then the tables and what was read from the two files, which the  *)
(* invariant relates, then what the lookups and the commands make of them. *)
(***************************************************************************)
EXTENDS Tooling, TLAPS, FiniteSetTheorems, SequenceTheorems, WellFoundedInduction

-------------------------------------------------------------------------------
(* Numbers. *)

(* A set of numbers that is not empty has a least one. *)
LEMMA Least ==
  ASSUME NEW T \in SUBSET Nat, T # {}
  PROVE  \E x \in T : \A y \in T : x <= y
<1> DEFINE R == OpToRel(<, Nat)
<1>1. PICK x \in T : \A y \in T : ~(<<y, x>> \in R)
  <2>1. IsWellFoundedOn(R, Nat)
    BY NatLessThanWellFounded
  <2> HIDE DEF R
  <2> QED BY <2>1, WFMin
<1>2. ASSUME NEW y \in T PROVE x <= y
  <2>1. x \in Nat /\ y \in Nat
    OBVIOUS
  <2>2. y < x => <<y, x>> \in R
    BY <2>1 DEF OpToRel
  <2> HIDE DEF R
  <2> QED BY <1>1, <2>1, <2>2, SMT
<1> QED BY <1>2

LEMMA MinOf ==
  ASSUME NEW T \in SUBSET Nat, T # {}
  PROVE  Min(T) \in T /\ \A y \in T : Min(T) <= y
BY Least DEF Min

(* One that is bounded has a greatest one. *)
LEMMA MaxOf ==
  ASSUME NEW n \in Nat, NEW T \in SUBSET (1..n), T # {}
  PROVE  Max(T) \in T /\ \A y \in T : Max(T) >= y
<1> DEFINE U == {n - t : t \in T}
<1>1. U \in SUBSET Nat /\ U # {}
  <2>1. ASSUME NEW t \in T PROVE n - t \in Nat
    <3>1. t \in 1..n
      OBVIOUS
    <3> QED BY <3>1
  <2> QED BY <2>1
<1>2. PICK u \in U : \A v \in U : u <= v
  <2> HIDE DEF U
  <2> QED BY <1>1, Least
<1>3. PICK m \in T : u = n - m
  OBVIOUS
<1>4. ASSUME NEW y \in T PROVE m >= y
  <2>1. n - y \in U
    OBVIOUS
  <2>2. n - m <= n - y
    BY <1>2, <1>3, <2>1
  <2>3. m \in 1..n /\ y \in 1..n
    OBVIOUS
  <2> HIDE DEF U
  <2> QED BY <2>2, <2>3
<1> QED BY <1>4 DEF Max

-------------------------------------------------------------------------------
(* The first n of a set. The order is a set of pairs here.                    *)

Before(S, R, x) == {y \in S : <<y, x>> \in R}
Firsts(S, R, n) == {x \in S : Cardinality(Before(S, R, x)) < n}

Irreflexive(S, R) == \A x \in S : <<x, x>> \notin R
Transitive(S, R) == \A x, y, z \in S : <<x, y>> \in R /\ <<y, z>> \in R => <<x, z>> \in R
Total(S, R) == \A x, y \in S : x = y \/ <<x, y>> \in R \/ <<y, x>> \in R

LEMMA BeforeFinite ==
  ASSUME NEW S, IsFiniteSet(S), NEW R, NEW x
  PROVE  /\ IsFiniteSet(Before(S, R, x))
         /\ Cardinality(Before(S, R, x)) \in Nat
<1>1. Before(S, R, x) \in SUBSET S
  BY DEF Before
<1> HIDE DEF Before
<1> QED BY <1>1, FS_Subset, FS_CardinalityType

LEMMA FewerBefore ==
  ASSUME NEW S, IsFiniteSet(S), NEW R, Irreflexive(S, R), NEW x \in S
  PROVE  Cardinality(Before(S, R, x)) < Cardinality(S)
<1>1. Before(S, R, x) \in SUBSET S /\ Before(S, R, x) # S
  BY DEF Before, Irreflexive
<1> HIDE DEF Before
<1>2. Cardinality(Before(S, R, x)) <= Cardinality(S) /\ Cardinality(S) # Cardinality(Before(S, R, x))
  BY <1>1, FS_Subset
<1> QED BY <1>2, BeforeFinite, FS_CardinalityType

(* A set that is not larger than n is all of its first n. *)
LEMMA FirstsOfFew ==
  ASSUME NEW S, IsFiniteSet(S), NEW R, Irreflexive(S, R), NEW n \in Nat, Cardinality(S) <= n
  PROVE  Firsts(S, R, n) = S
<1>1. ASSUME NEW x \in S PROVE Cardinality(Before(S, R, x)) < n
  BY FewerBefore, BeforeFinite, FS_CardinalityType
<1> QED BY <1>1 DEF Firsts

(* What precedes one of the first is one of them. *)
LEMMA FirstsClosed ==
  ASSUME NEW S, IsFiniteSet(S), NEW R, Transitive(S, R), NEW n \in Nat,
         NEW e \in Firsts(S, R, n), NEW d \in S, <<d, e>> \in R
  PROVE  d \in Firsts(S, R, n)
<1>1. e \in S /\ Cardinality(Before(S, R, e)) < n
  BY DEF Firsts
<1>2. Before(S, R, d) \in SUBSET Before(S, R, e)
  BY <1>1 DEF Before, Transitive
<1> HIDE DEF Before
<1>3. Cardinality(Before(S, R, d)) <= Cardinality(Before(S, R, e))
  BY <1>2, BeforeFinite, FS_Subset
<1>4. Cardinality(Before(S, R, d)) < n
  BY <1>1, <1>3, BeforeFinite
<1> QED BY <1>4 DEF Firsts

LEMMA MoreBefore ==
  ASSUME NEW S, IsFiniteSet(S), NEW R, Irreflexive(S, R), Transitive(S, R),
         NEW x \in S, NEW y \in S, <<x, y>> \in R
  PROVE  Cardinality(Before(S, R, x)) < Cardinality(Before(S, R, y))
<1>1. /\ Before(S, R, x) \in SUBSET Before(S, R, y)
      /\ x \in Before(S, R, y) /\ x \notin Before(S, R, x)
  BY DEF Before, Transitive, Irreflexive
<1> HIDE DEF Before
<1>2. /\ Cardinality(Before(S, R, x)) <= Cardinality(Before(S, R, y))
      /\ Cardinality(Before(S, R, y)) # Cardinality(Before(S, R, x))
  BY <1>1, BeforeFinite, FS_Subset
<1> QED BY <1>2, BeforeFinite

(* The first n of a set that has as many are n: no two have equally many      *)
(* before them, so every number is had.                                       *)
LEMMA FirstsCount ==
  ASSUME NEW S, IsFiniteSet(S), NEW R, Irreflexive(S, R), Transitive(S, R), Total(S, R),
         NEW n \in Nat, n <= Cardinality(S)
  PROVE  Cardinality(Firsts(S, R, n)) = n
<1> DEFINE rank == [x \in S |-> Cardinality(Before(S, R, x))]
           k == Cardinality(S)
           T == Firsts(S, R, n)
           g == [x \in T |-> Cardinality(Before(S, R, x))]
<1>1. k \in Nat
  BY FS_CardinalityType
<1>2. \A x \in S : Cardinality(Before(S, R, x)) \in 0..(k - 1)
  <2>1. ASSUME NEW x \in S PROVE Cardinality(Before(S, R, x)) \in 0..(k - 1)
    <3>1. Cardinality(Before(S, R, x)) < k /\ Cardinality(Before(S, R, x)) \in Nat
      BY FewerBefore, BeforeFinite
    <3> QED BY <1>1, <3>1
  <2> QED BY <2>1
<1>3. \A x, y \in S : Cardinality(Before(S, R, x)) = Cardinality(Before(S, R, y)) => x = y
  <2>1. ASSUME NEW x \in S, NEW y \in S, x # y
        PROVE  Cardinality(Before(S, R, x)) # Cardinality(Before(S, R, y))
    <3>1. <<x, y>> \in R \/ <<y, x>> \in R
      BY <2>1 DEF Total
    <3> QED BY <3>1, MoreBefore, BeforeFinite
  <2> QED BY <2>1
<1>4. rank \in Injection(S, 0..(k - 1))
  BY <1>2, <1>3 DEF Injection, IsInjective
<1>5. IsFiniteSet(0..(k - 1)) /\ Cardinality(0..(k - 1)) = k
  <2> HIDE DEF k, rank
  <2>1. k - 1 \in Int /\ 0 \in Int
    BY <1>1
  <2> QED BY <1>1, <2>1, FS_Interval
<1>6. rank \in Surjection(S, 0..(k - 1))
  <2> HIDE DEF rank
  <2> QED BY <1>4, <1>5, FS_Injection
<1>7. T \subseteq S /\ \A x \in S : x \in T <=> Cardinality(Before(S, R, x)) < n
  BY DEF Firsts
<1>8. g \in [T -> 0..(n - 1)]
  <2>1. ASSUME NEW x \in T PROVE Cardinality(Before(S, R, x)) \in 0..(n - 1)
    <3>1. Cardinality(Before(S, R, x)) \in Nat /\ Cardinality(Before(S, R, x)) < n
      BY <1>7, BeforeFinite
    <3> QED BY <3>1
  <2> HIDE DEF T
  <2> QED BY <2>1
<1>9. g \in Injection(T, 0..(n - 1))
  <2> HIDE DEF T
  <2> QED BY <1>3, <1>7, <1>8 DEF Injection, IsInjective
<1>10. ASSUME NEW i \in 0..(n - 1) PROVE \E x \in T : g[x] = i
  <2>1. i \in 0..(k - 1) /\ i < n
    BY <1>1
  <2>2. PICK x \in S : rank[x] = i
    <3> HIDE DEF rank
    <3> QED BY <1>6, <2>1 DEF Surjection
  <2>3. x \in T
    BY <1>7, <2>1, <2>2
  <2> HIDE DEF T
  <2> QED BY <2>2, <2>3
<1>11. g \in Surjection(T, 0..(n - 1))
  <2> HIDE DEF g, T
  <2> QED BY <1>8, <1>10 DEF Surjection
<1>12. IsFiniteSet(0..(n - 1)) /\ Cardinality(0..(n - 1)) = n
  BY FS_Interval
<1> HIDE DEF g, T
<1>13. Cardinality(T) = n
  BY <1>9, <1>11, <1>12, FS_Injection
<1> QED BY <1>13 DEF T

-------------------------------------------------------------------------------
(* What a script is called. *)

(* The first of the severities that a script has is what it is called: those  *)
(* before it in the list it does not have.                                    *)
LEMMA WorstIsFirst ==
  ASSUME NEW tokens
  PROVE  LET seen == {IF t \in Category THEN t ELSE "unclassified" : t \in tokens}
         IN \/ /\ WorstCategory(tokens) = "unclassified"
               /\ \A j \in 1..11 : Severity[j] \notin seen
            \/ \E i \in 1..11 :
                 /\ WorstCategory(tokens) = Severity[i]
                 /\ Severity[i] \in seen
                 /\ \A j \in 1..(i - 1) : Severity[j] \notin seen
<1> DEFINE seen == {IF t \in Category THEN t ELSE "unclassified" : t \in tokens}
           I == {j \in 1..Len(Severity) : Severity[j] \in seen}
<1>1. Len(Severity) = 11
  BY DEF Severity
<1>2. SelectInSeq(Severity, LAMBDA c : c \in seen) = IF I # {} THEN Min(I) ELSE 0
  BY DEF SelectInSeq
<1>3. WorstCategory(tokens) = LET i == IF I # {} THEN Min(I) ELSE 0
                              IN IF i = 0 THEN "unclassified" ELSE Severity[i]
  BY <1>2 DEF WorstCategory
<1> SUFFICES \/ /\ WorstCategory(tokens) = "unclassified"
                /\ \A j \in 1..11 : Severity[j] \notin seen
             \/ \E i \in 1..11 :
                  /\ WorstCategory(tokens) = Severity[i]
                  /\ Severity[i] \in seen
                  /\ \A j \in 1..(i - 1) : Severity[j] \notin seen
  OBVIOUS
<1> HIDE DEF seen
<1>4. CASE I = {}
  BY <1>1, <1>3, <1>4
<1>5. CASE I # {}
  <2>1. I \in SUBSET Nat /\ I \subseteq 1..11
    BY <1>1
  <2>2. Min(I) \in I /\ \A y \in I : Min(I) <= y
    <3> HIDE DEF I
    <3> QED BY <1>5, <2>1, MinOf
  <2>3. Min(I) \in 1..11 /\ Severity[Min(I)] \in seen
    BY <1>1, <2>2
  <2>4. WorstCategory(tokens) = Severity[Min(I)]
    BY <1>3, <1>5, <2>3
  <2>5. ASSUME NEW j \in 1..(Min(I) - 1) PROVE Severity[j] \notin seen
    <3>1. j \in 1..11 /\ ~(Min(I) <= j)
      BY <2>3
    <3> QED BY <1>1, <2>2, <3>1
  <2> QED BY <2>3, <2>4, <2>5
<1> QED BY <1>4, <1>5

(* What is called none of the categories that fire has none of them, and what *)
(* is called harmless has a harmless one and none that is worse.              *)
LEMMA NotWorse ==
  ASSUME NEW tokens
  PROVE  /\ WorstCategory(tokens) \notin NeverComposed => tokens \cap NeverComposed = {}
         /\ WorstCategory(tokens) \in DefaultCategories =>
              /\ tokens \cap {"safe", "version"} # {}
              /\ tokens \subseteq {"safe", "version", "discovery", "default", "auth", "malware"}
<1> DEFINE seen == {IF t \in Category THEN t ELSE "unclassified" : t \in tokens}
           worst == WorstCategory(tokens)
<1>1. /\ Severity[1] = "exploit" /\ Severity[2] = "dos" /\ Severity[3] = "fuzzer"
      /\ Severity[4] = "brute" /\ Severity[5] = "vuln" /\ Severity[6] = "broadcast"
      /\ Severity[7] = "external" /\ Severity[8] = "unclassified"
      /\ Severity[9] = "intrusive" /\ Severity[10] = "version" /\ Severity[11] = "safe"
  BY DEF Severity
<1>2. \/ worst = "unclassified" /\ \A j \in 1..11 : Severity[j] \notin seen
      \/ \E i \in 1..11 : /\ worst = Severity[i] /\ Severity[i] \in seen
                          /\ \A j \in 1..(i - 1) : Severity[j] \notin seen
  BY WorstIsFirst
<1>3. \A t \in tokens : t \in Category => t \in seen
  OBVIOUS
<1>4. \A t \in tokens : t \notin Category => "unclassified" \in seen
  OBVIOUS
<1>5. \A t \in seen : t # "unclassified" => t \in tokens
  OBVIOUS
<1> HIDE DEF seen, worst
<1>6. ASSUME worst \notin NeverComposed PROVE tokens \cap NeverComposed = {}
  <2>1. NeverComposed \subseteq {Severity[1], Severity[2], Severity[3], Severity[4]}
    BY <1>1 DEF NeverComposed
  <2>2. ASSUME NEW i \in 1..11, worst = Severity[i] PROVE i > 4
    BY <1>1, <1>6, <2>2 DEF NeverComposed
  <2>3. /\ Severity[1] \notin seen /\ Severity[2] \notin seen
        /\ Severity[3] \notin seen /\ Severity[4] \notin seen
    BY <1>2, <2>2
  <2>4. NeverComposed \subseteq Category
    BY DEF NeverComposed, Category
  <2> QED BY <1>3, <2>1, <2>3, <2>4
<1>7. ASSUME worst \in DefaultCategories
      PROVE  /\ tokens \cap {"safe", "version"} # {}
             /\ tokens \subseteq {"safe", "version", "discovery", "default", "auth", "malware"}
  <2>1. PICK i \in 1..11 : /\ worst = Severity[i] /\ Severity[i] \in seen
                           /\ \A j \in 1..(i - 1) : Severity[j] \notin seen
    BY <1>2, <1>7 DEF DefaultCategories
  <2>2. i > 9
    BY <1>1, <1>7, <2>1 DEF DefaultCategories
  <2>3. \A j \in 1..9 : Severity[j] \notin seen
    BY <2>1, <2>2
  <2>4. worst \in {"safe", "version"} /\ worst \in tokens
    <3>1. i = 10 \/ i = 11
      BY <2>2
    <3> QED BY <1>1, <1>5, <2>1, <3>1
  <2>5. ASSUME NEW t \in tokens
        PROVE  t \in {"safe", "version", "discovery", "default", "auth", "malware"}
    <3>1. t \in Category /\ t \in seen
      BY <1>1, <1>3, <1>4, <2>3
    <3>2. t \notin {Severity[1], Severity[2], Severity[3], Severity[4], Severity[5], Severity[6],
                   Severity[7], Severity[8], Severity[9]}
      BY <2>3, <3>1
    <3> QED BY <1>1, <3>1, <3>2 DEF Category
  <2> QED BY <2>4, <2>5
<1> QED BY <1>6, <1>7 DEF worst

-------------------------------------------------------------------------------
(* The two orders of exploits.                                                *)

Ids == Range(ExploitIds)

(* A link is a pair of an identifier and a CVE, and a row has columns. *)
TablesOK ==
  /\ exploit \in [Ids -> [in : BOOLEAN, verified : BOOLEAN, published : Nat]]
  /\ exploit_cve \subseteq Ids \X STRING

LEMMA Constants ==
  /\ BatchSize \in Nat \ {0} /\ ExploitLimit \in Nat \ {0} /\ MaxExploitCommands \in Nat \ {0}
  /\ ExploitIds \in Seq(STRING)
  /\ \A lines \in CSVs :
       /\ lines \in Seq(CSVLine)
       /\ \A i \in DOMAIN lines : lines[i].kind = "row" => lines[i].id \in Ids
  /\ \A lines \in ScriptDBs : lines \in Seq(ScriptLine)
BY ToolingAssumption DEF Ids

LEMMA IdsFinite == IsFiniteSet(Ids)
<1>1. DOMAIN ExploitIds = 1..Len(ExploitIds) /\ Len(ExploitIds) \in Nat
  BY Constants
<1>2. IsFiniteSet(DOMAIN ExploitIds)
  BY <1>1, FS_Interval
<1> DEFINE f == [i \in DOMAIN ExploitIds |-> ExploitIds[i]]
<1>3. f \in Surjection(DOMAIN ExploitIds, Ids)
  BY DEF Surjection, Ids, Range
<1> HIDE DEF f
<1> QED BY <1>2, <1>3, FS_Surjection

(* A place in the file of identifiers is a number of its own. *)
LEMMA Positions ==
  /\ \A e \in Ids : Position(e) \in Nat
  /\ \A d, e \in Ids : Position(d) = Position(e) => d = e
<1>1. ASSUME NEW e \in Ids PROVE Position(e) \in Nat /\ ExploitIds[Position(e)] = e
  <2>1. \E i \in DOMAIN ExploitIds : ExploitIds[i] = e
    BY DEF Ids, Range
  <2>2. Position(e) \in DOMAIN ExploitIds /\ ExploitIds[Position(e)] = e
    BY <2>1 DEF Position
  <2>3. DOMAIN ExploitIds \subseteq Nat
    BY Constants
  <2> QED BY <2>2, <2>3
<1> QED BY <1>1

(* Outranks compares two numbers. *)
Tested(e) == IF exploit[e].verified THEN 1 ELSE 0

LEMMA OutranksIs ==
  ASSUME TablesOK, NEW d \in Ids, NEW e \in Ids
  PROVE  Outranks(d, e) <=> \/ Tested(d) > Tested(e)
                            \/ Tested(d) = Tested(e) /\ exploit[d].published > exploit[e].published
<1>1. exploit[d].verified \in BOOLEAN /\ exploit[e].verified \in BOOLEAN
  BY DEF TablesOK
<1>2. CASE exploit[d].verified /\ exploit[e].verified
  BY <1>1, <1>2 DEF Outranks, Tested
<1>3. CASE exploit[d].verified /\ ~exploit[e].verified
  <2>1. Outranks(d, e)
    BY <1>3 DEF Outranks
  <2>2. Tested(d) = 1 /\ Tested(e) = 0
    BY <1>3 DEF Tested
  <2> QED BY <2>1, <2>2
<1>4. CASE ~exploit[d].verified /\ exploit[e].verified
  <2>1. exploit[d].verified # exploit[e].verified
    BY <1>1, <1>4
  <2>2. ~Outranks(d, e)
    BY <1>4, <2>1 DEF Outranks
  <2>3. Tested(d) = 0 /\ Tested(e) = 1
    BY <1>4 DEF Tested
  <2> QED BY <2>2, <2>3
<1>5. CASE ~exploit[d].verified /\ ~exploit[e].verified
  BY <1>1, <1>5 DEF Outranks, Tested
<1> QED BY <1>2, <1>3, <1>4, <1>5

PrecedesReversed(d, e) == Outranks(d, e) \/ (Ties(d, e) /\ Position(d) > Position(e))

Shown == {p \in Ids \X Ids : Precedes(p[1], p[2])}
Listed == {p \in Ids \X Ids : PrecedesReversed(p[1], p[2])}

(* Both orders are strict and total, and who outranks comes first in both.    *)
LEMMA Orders ==
  ASSUME TablesOK, NEW S \in SUBSET Ids, NEW R \in {Shown, Listed}
  PROVE  /\ Irreflexive(S, R) /\ Transitive(S, R) /\ Total(S, R)
         /\ \A d, e \in S : Outranks(d, e) => <<d, e>> \in R
<1> DEFINE P(d, e) == <<d, e>> \in R
           Pub(e) == exploit[e].published
           Ahead(d, e) == \/ Tested(d) > Tested(e)
                          \/ Tested(d) = Tested(e) /\ Pub(d) > Pub(e)
<1>1. \A d, e \in Ids : /\ <<d, e>> \in Shown <=> Precedes(d, e)
                        /\ <<d, e>> \in Listed <=> PrecedesReversed(d, e)
  BY DEF Shown, Listed
<1>2. \A e \in Ids : Tested(e) \in Nat /\ Pub(e) \in Nat /\ Position(e) \in Nat
  BY Positions DEF Tested, TablesOK
<1>3. \A d, e \in Ids : Outranks(d, e) <=> Ahead(d, e)
  BY OutranksIs
<1>4. \A d, e \in Ids : Ties(d, e) <=> Tested(d) = Tested(e) /\ Pub(d) = Pub(e)
  <2>1. \A d, e \in Ids : Ties(d, e) <=> ~Ahead(d, e) /\ ~Ahead(e, d)
    BY <1>3 DEF Ties
  <2> HIDE DEF Pub
  <2> QED BY <1>2, <2>1
<1>5. ASSUME NEW d \in Ids, NEW e \in Ids
      PROVE  <<d, e>> \in R <=>
               \/ Ahead(d, e)
               \/ /\ Tested(d) = Tested(e) /\ Pub(d) = Pub(e)
                  /\ IF R = Shown THEN Position(d) < Position(e) ELSE Position(d) > Position(e)
  BY <1>1, <1>3, <1>4 DEF Precedes, PrecedesReversed
<1> HIDE DEF Pub
<1>6. Irreflexive(S, R)
  <2>1. ASSUME NEW x \in S PROVE <<x, x>> \notin R
    BY <1>2, <1>5
  <2> QED BY <2>1 DEF Irreflexive
<1>7. Transitive(S, R)
  <2>1. ASSUME NEW x \in S, NEW y \in S, NEW z \in S, <<x, y>> \in R, <<y, z>> \in R
        PROVE  <<x, z>> \in R
    <3>1. x \in Ids /\ y \in Ids /\ z \in Ids
      OBVIOUS
    <3> QED BY <1>2, <1>5, <2>1, <3>1
  <2> QED BY <2>1 DEF Transitive
<1>8. Total(S, R)
  <2>1. ASSUME NEW x \in S, NEW y \in S, x # y PROVE <<x, y>> \in R \/ <<y, x>> \in R
    <3>1. x \in Ids /\ y \in Ids /\ Position(x) # Position(y)
      BY <2>1, Positions
    <3> QED BY <1>2, <1>5, <3>1
  <2> QED BY <2>1 DEF Total
<1>9. \A d, e \in S : Outranks(d, e) => <<d, e>> \in R
  BY <1>3, <1>5
<1> QED BY <1>6, <1>7, <1>8, <1>9

-------------------------------------------------------------------------------
(* The invariant. A batch is one transaction, so between two of them, and     *)
(* wherever a build ends, an entry is wholly what its last line says.         *)

LinesOK(lines) ==
  /\ lines \in Seq(CSVLine)
  /\ \A i \in DOMAIN lines : lines[i].kind = "row" => lines[i].id \in Ids

LinksOf(e) == {l \in exploit_cve : l[1] = e}

AsTold(e) ==
  /\ told[e] = <<>> => LinksOf(e) = {}
  /\ told[e] # <<>> =>
       LET r == told[e][1]
       IN /\ r \in CSVLine
          /\ exploit[e].verified = r.verified /\ exploit[e].published = r.published
          /\ LinksOf(e) = {<<e, c>> : c \in r.cves}

ReadOK == read \in Seq(ScriptLine) /\ script_db \in Seq(ScriptLine)

IInv ==
  /\ LinesOK(csv) /\ LinesOK(left)
  /\ ReadOK
  /\ TablesOK
  /\ DOMAIN told = Ids /\ \A e \in Ids : AsTold(e)

-------------------------------------------------------------------------------
(* A batch.                                                                   *)

Batch == Rows(Taken)

LEMMA TakenIs ==
  ASSUME LinesOK(left), left # <<>>
  PROVE  Taken \in 1..Len(left)
<1> DEFINE full == {n \in DOMAIN left : Cardinality(Rows(n)) = BatchSize}
<1>1. Len(left) \in Nat \ {0} /\ DOMAIN left = 1..Len(left)
  BY EmptySeq DEF LinesOK
<1>2. Taken = IF full = {} THEN Len(left) ELSE Min(full)
  BY DEF Taken
<1>3. full \in SUBSET Nat /\ full \subseteq 1..Len(left)
  BY <1>1
<1> HIDE DEF full
<1>4. full # {} => Min(full) \in full
  BY <1>3, MinOf
<1>5. CASE full = {}
  BY <1>1, <1>2, <1>5
<1>6. CASE full # {}
  BY <1>2, <1>3, <1>4, <1>6
<1> QED BY <1>5, <1>6

LEMMA BatchRows ==
  ASSUME LinesOK(left), left # <<>>
  PROVE  /\ Batch \subseteq 1..Taken
         /\ \A i \in Batch : left[i] \in CSVLine /\ left[i].id \in Ids
<1>1. Taken \in 1..Len(left)
  BY TakenIs
<1>2. DOMAIN left = 1..Len(left) /\ Len(left) \in Nat
  BY DEF LinesOK
<1>3. ASSUME NEW i \in Batch PROVE left[i] \in CSVLine /\ left[i].id \in Ids
  <2>1. i \in 1..Taken /\ left[i].kind = "row"
    BY DEF Batch, Rows
  <2>2. i \in DOMAIN left
    BY <1>1, <1>2, <2>1
  <2> QED BY <2>1, <2>2 DEF LinesOK
<1> QED BY <1>3 DEF Batch, Rows

LinesFor(e) == {i \in Batch : left[i].id = e}
SurvivorsFor(e) == {r \in Survivors(Batch) : r.id = e}

(* The one row for an id that survives is the last of its lines. *)
LEMMA LastSurvives ==
  ASSUME LinesOK(left), left # <<>>, NEW e
  PROVE  /\ LinesFor(e) = {} => SurvivorsFor(e) = {}
         /\ LinesFor(e) # {} =>
              /\ Max(LinesFor(e)) \in LinesFor(e)
              /\ SurvivorsFor(e) = {left[Max(LinesFor(e))]}
<1>1. LinesFor(e) = {} => SurvivorsFor(e) = {}
  BY DEF LinesFor, SurvivorsFor, Survivors
<1>2. ASSUME LinesFor(e) # {}
      PROVE  /\ Max(LinesFor(e)) \in LinesFor(e)
             /\ SurvivorsFor(e) = {left[Max(LinesFor(e))]}
  <2> DEFINE m == Max(LinesFor(e))
  <2>1. Taken \in Nat /\ Batch \subseteq 1..Taken
    BY TakenIs, BatchRows DEF LinesOK
  <2>2. LinesFor(e) \in SUBSET (1..Taken)
    BY <2>1 DEF LinesFor
  <2>3. m \in LinesFor(e) /\ \A y \in LinesFor(e) : m >= y
    BY <1>2, <2>1, <2>2, MaxOf
  <2> HIDE DEF m
  <2>4. \A j \in Batch : j \in Int
    BY <2>1
  <2>5. m \in Batch /\ left[m].id = e
    BY <2>3 DEF LinesFor
  <2>6. \A j \in Batch : j > m => left[j].id # left[m].id
    BY <2>3, <2>4, <2>5 DEF LinesFor
  <2>7. left[m] \in SurvivorsFor(e)
    BY <2>5, <2>6 DEF SurvivorsFor, Survivors
  <2>8. ASSUME NEW r \in SurvivorsFor(e) PROVE r = left[m]
    <3>1. PICK k \in Batch : r = left[k] /\ \A j \in Batch : j > k => left[j].id # left[k].id
      BY DEF SurvivorsFor, Survivors
    <3>2. left[k].id = e
      BY <3>1 DEF SurvivorsFor
    <3>3. k \in LinesFor(e)
      BY <3>2 DEF LinesFor
    <3>4. m >= k /\ ~(m > k)
      BY <2>3, <2>5, <3>1, <3>2, <3>3
    <3>5. m = k
      BY <2>4, <2>5, <3>4
    <3> QED BY <3>1, <3>5
  <2> QED BY <2>3, <2>7, <2>8 DEF m
<1> QED BY <1>1, <1>2

(* What a batch does to the columns, the links and the last line of an id.    *)
LEMMA BatchIs ==
  ASSUME TablesOK, DOMAIN told = Ids, WriteBatch
  PROVE  /\ left # <<>>
         /\ left' = SubSeq(left, Taken + 1, Len(left))
         /\ exploit' = [e \in Ids |->
                         IF SurvivorsFor(e) = {} THEN exploit[e]
                         ELSE LET r == CHOOSE r \in SurvivorsFor(e) : TRUE
                              IN [in |-> TRUE, verified |-> r.verified, published |-> r.published]]
         /\ exploit_cve' = Linked(Survivors(Batch))
         /\ told' = [e \in Ids |->
                      IF LinesFor(e) = {} THEN told[e] ELSE <<left[Max(LinesFor(e))]>>]
BY DEF WriteBatch, Batch, SurvivorsFor, LinesFor, TablesOK

LEMMA LinksAfter ==
  ASSUME exploit_cve' = Linked(Survivors(Batch)), NEW e
  PROVE  LinksOf(e)' = IF SurvivorsFor(e) = {} THEN LinksOf(e)
                       ELSE UNION {{<<r.id, c>> : c \in r.cves} : r \in SurvivorsFor(e)}
<1>1. LinksOf(e)' = {l \in Linked(Survivors(Batch)) : l[1] = e}
  BY DEF LinksOf
<1>2. ASSUME NEW l
      PROVE  l \in Linked(Survivors(Batch)) <=>
               \/ l \in exploit_cve /\ \A r \in Survivors(Batch) : r.id # l[1]
               \/ \E r \in Survivors(Batch) : \E c \in r.cves : l = <<r.id, c>>
  BY DEF Linked
<1>3. ASSUME NEW l
      PROVE  l \in LinksOf(e)' <=>
               \/ l \in LinksOf(e) /\ SurvivorsFor(e) = {}
               \/ \E r \in SurvivorsFor(e) : \E c \in r.cves : l = <<r.id, c>>
  BY <1>1, <1>2 DEF LinksOf, SurvivorsFor
<1> QED BY <1>3

LEMMA ToldAfter ==
  ASSUME LinesOK(left), TablesOK, DOMAIN told = Ids, WriteBatch, NEW e \in Ids
  PROVE  \/ /\ exploit'[e] = exploit[e] /\ told'[e] = told[e]
            /\ LinksOf(e)' = LinksOf(e)
         \/ \E r \in CSVLine :
              /\ exploit'[e] = [in |-> TRUE, verified |-> r.verified, published |-> r.published]
              /\ told'[e] = <<r>>
              /\ LinksOf(e)' = {<<e, c>> : c \in r.cves}
<1> DEFINE m == Max(LinesFor(e))
           r == left[m]
<1>1. /\ left # <<>>
      /\ exploit'[e] = IF SurvivorsFor(e) = {} THEN exploit[e]
                       ELSE LET s == CHOOSE s \in SurvivorsFor(e) : TRUE
                            IN [in |-> TRUE, verified |-> s.verified, published |-> s.published]
      /\ exploit_cve' = Linked(Survivors(Batch))
      /\ told'[e] = IF LinesFor(e) = {} THEN told[e] ELSE <<r>>
  BY BatchIs
<1>2. LinksOf(e)' = IF SurvivorsFor(e) = {} THEN LinksOf(e)
                    ELSE UNION {{<<s.id, c>> : c \in s.cves} : s \in SurvivorsFor(e)}
  BY <1>1, LinksAfter
<1>3. /\ LinesFor(e) = {} => SurvivorsFor(e) = {}
      /\ LinesFor(e) # {} => m \in LinesFor(e) /\ SurvivorsFor(e) = {r}
  BY <1>1, LastSurvives
<1>4. CASE LinesFor(e) = {}
  BY <1>1, <1>2, <1>3, <1>4
<1>5. CASE LinesFor(e) # {}
  <2> HIDE DEF m
  <2>1. r \in CSVLine /\ r.id = e
    BY <1>1, <1>3, <1>5, BatchRows DEF LinesFor
  <2>2. SurvivorsFor(e) = {r} /\ (CHOOSE s \in {r} : TRUE) = r
    BY <1>3, <1>5
  <2>3. LinksOf(e)' = {<<e, c>> : c \in r.cves}
    BY <1>2, <2>1, <2>2
  <2>4. exploit'[e] = [in |-> TRUE, verified |-> r.verified, published |-> r.published]
    BY <1>1, <2>2
  <2> QED BY <1>1, <1>5, <2>1, <2>3, <2>4
<1> QED BY <1>4, <1>5

LEMMA BatchStep == IInv /\ WriteBatch => IInv'
<1> SUFFICES ASSUME IInv, WriteBatch PROVE IInv'
  OBVIOUS
<1>1. LinesOK(left) /\ TablesOK /\ DOMAIN told = Ids /\ \A e \in Ids : AsTold(e)
  BY DEF IInv
<1>2. /\ left # <<>> /\ left' = SubSeq(left, Taken + 1, Len(left))
      /\ DOMAIN told' = Ids /\ DOMAIN exploit' = Ids
      /\ exploit_cve' = Linked(Survivors(Batch))
      /\ exploit' = [e \in Ids |-> exploit'[e]]
  BY <1>1, BatchIs
<1>3. csv' = csv /\ read' = read /\ script_db' = script_db
  BY DEF WriteBatch, sessionVars
<1>4. LinesOK(left)'
  <2>1. Taken \in 1..Len(left) /\ Len(left) \in Nat /\ left \in Seq(CSVLine)
    BY <1>1, <1>2, TakenIs DEF LinesOK
  <2> DEFINE a == Taken + 1
             n == Len(left)
  <2>2. a \in Int /\ n \in Int /\ a \in Nat \ {0}
    BY <2>1
  <2>3. \A i \in a..n : left[i] \in CSVLine
    BY <2>1, <2>2
  <2>4. /\ SubSeq(left, a, n) \in Seq(CSVLine)
        /\ Len(SubSeq(left, a, n)) = IF a <= n THEN n - a + 1 ELSE 0
        /\ \A i \in 1..(n - a + 1) : SubSeq(left, a, n)[i] = left[a + i - 1]
    BY <2>2, <2>3, SubSeqProperties
  <2>5. ASSUME NEW i \in DOMAIN SubSeq(left, a, n), SubSeq(left, a, n)[i].kind = "row"
        PROVE  SubSeq(left, a, n)[i].id \in Ids
    <3>1. i \in 1..Len(SubSeq(left, a, n))
      BY <2>4, <2>5
    <3>2. i \in 1..(n - a + 1)
      <4> HIDE DEF a, n
      <4> QED BY <2>2, <2>4, <3>1
    <3>3. a + i - 1 \in DOMAIN left
      BY <2>1, <2>2, <3>2
    <3>4. SubSeq(left, a, n)[i] = left[a + i - 1]
      BY <2>4, <3>2
    <3> QED BY <1>1, <2>5, <3>3, <3>4 DEF LinesOK
  <2> QED BY <1>2, <2>4, <2>5 DEF LinesOK
<1>5. TablesOK'
  <2>1. ASSUME NEW e \in Ids
        PROVE  exploit'[e] \in [in : BOOLEAN, verified : BOOLEAN, published : Nat]
    <3>1. exploit[e] \in [in : BOOLEAN, verified : BOOLEAN, published : Nat]
      BY <1>1 DEF TablesOK
    <3>2. \A r \in CSVLine : r.verified \in BOOLEAN /\ r.published \in Nat
      BY DEF CSVLine
    <3>3. \/ exploit'[e] = exploit[e]
          \/ \E r \in CSVLine :
               exploit'[e] = [in |-> TRUE, verified |-> r.verified, published |-> r.published]
      BY <1>1, ToldAfter
    <3>4. ASSUME NEW r \in CSVLine
          PROVE  [in |-> TRUE, verified |-> r.verified, published |-> r.published]
                   \in [in : BOOLEAN, verified : BOOLEAN, published : Nat]
      BY <3>2
    <3> QED BY <3>1, <3>3, <3>4
  <2>2. Linked(Survivors(Batch)) \subseteq Ids \X STRING
    <3>1. \A r \in Survivors(Batch) : r \in CSVLine /\ r.id \in Ids
      BY <1>1, <1>2, BatchRows DEF Survivors
    <3>2. \A r \in CSVLine : r.cves \subseteq STRING
      BY DEF CSVLine
    <3> QED BY <1>1, <3>1, <3>2 DEF Linked, TablesOK
  <2>3. exploit' \in [Ids -> [in : BOOLEAN, verified : BOOLEAN, published : Nat]]
    BY <1>2, <2>1
  <2> QED BY <1>2, <2>2, <2>3 DEF TablesOK
<1>6. ASSUME NEW e \in Ids PROVE AsTold(e)'
  <2>1. CASE /\ exploit'[e] = exploit[e] /\ told'[e] = told[e]
             /\ LinksOf(e)' = LinksOf(e)
    BY <1>1, <2>1 DEF AsTold
  <2>2. ASSUME NEW r \in CSVLine,
               exploit'[e] = [in |-> TRUE, verified |-> r.verified, published |-> r.published],
               told'[e] = <<r>>,
               LinksOf(e)' = {<<e, c>> : c \in r.cves}
        PROVE  AsTold(e)'
    <3>1. told'[e] # <<>> /\ told'[e][1] = r
      BY <2>2
    <3>2. exploit'[e].verified = r.verified /\ exploit'[e].published = r.published
      BY <2>2
    <3> QED BY <2>2, <3>1, <3>2 DEF AsTold
  <2> QED BY <1>1, <2>1, <2>2, ToldAfter
<1>7. ReadOK' /\ LinesOK(csv)'
  BY <1>3 DEF IInv, ReadOK, LinesOK
<1> QED BY <1>2, <1>4, <1>5, <1>6, <1>7 DEF IInv

LEMMA EmptyLines == LinesOK(<<>>) /\ <<>> \in Seq(ScriptLine)
BY DEF LinesOK

LEMMA Initial == Init => IInv
<1> SUFFICES ASSUME Init PROVE IInv
  OBVIOUS
<1>1. LinesOK(csv) /\ LinesOK(left) /\ ReadOK
  BY EmptyLines DEF Init, ReadOK
<1>2. TablesOK
  BY DEF Init, TablesOK, Absent, Ids
<1>3. DOMAIN told = Ids /\ \A e \in Ids : AsTold(e)
  BY DEF Init, AsTold, LinksOf, Ids
<1> QED BY <1>1, <1>2, <1>3 DEF IInv

LEMMA SameIndex ==
  ASSUME IInv, indexVars' = indexVars
  PROVE  TablesOK' /\ DOMAIN told' = Ids /\ \A e \in Ids : AsTold(e)'
BY DEF IInv, indexVars, TablesOK, AsTold, LinksOf

LEMMA Inductive == IInv /\ [Next]_vars => IInv'
<1> SUFFICES ASSUME IInv, [Next]_vars PROVE IInv'
  OBVIOUS
<1>1. CASE Fetch
  <2>1. csv' \in CSVs /\ left' = left /\ read' = read /\ script_db' = script_db
    BY <1>1 DEF Fetch, sessionVars
  <2>2. indexVars' = indexVars
    BY <1>1 DEF Fetch, indexVars
  <2>3. LinesOK(csv)'
    BY <2>1, Constants DEF LinesOK
  <2>4. LinesOK(left)' /\ ReadOK'
    BY <2>1 DEF IInv, LinesOK, ReadOK
  <2> QED BY <2>2, <2>3, <2>4, SameIndex DEF IInv
<1>2. CASE Build
  <2>1. /\ left' = csv /\ csv' = csv /\ read' = read /\ script_db' = script_db
        /\ exploit' = exploit /\ exploit_cve' = exploit_cve /\ told' = told
    BY <1>2 DEF Build, sessionVars
  <2>2. LinesOK(csv)' /\ LinesOK(left)' /\ ReadOK'
    BY <2>1 DEF IInv, LinesOK, ReadOK
  <2>3. TablesOK' /\ DOMAIN told' = Ids /\ \A e \in Ids : AsTold(e)'
    BY <2>1 DEF IInv, TablesOK, AsTold, LinksOf
  <2> QED BY <2>2, <2>3 DEF IInv
<1>3. CASE WriteBatch
  BY <1>3, BatchStep
<1>4. CASE BuildEnds
  <2>1. left' = <<>> /\ csv' = csv /\ read' = read /\ script_db' = script_db
    BY <1>4 DEF BuildEnds, sessionVars
  <2>2. indexVars' = indexVars
    BY <1>4 DEF BuildEnds, indexVars
  <2>3. LinesOK(csv)' /\ LinesOK(left)' /\ ReadOK'
    BY <2>1, EmptyLines DEF IInv, LinesOK, ReadOK
  <2> QED BY <2>2, <2>3, SameIndex DEF IInv
<1>5. CASE ScriptUpdate
  <2>1. script_db' \in ScriptDBs /\ csv' = csv /\ left' = left /\ read' = read
    BY <1>5 DEF ScriptUpdate, sessionVars
  <2>2. indexVars' = indexVars
    BY <1>5 DEF ScriptUpdate, indexVars
  <2>3. LinesOK(csv)' /\ LinesOK(left)' /\ ReadOK'
    BY <2>1, Constants DEF IInv, LinesOK, ReadOK
  <2> QED BY <2>2, <2>3, SameIndex DEF IInv
<1>6. CASE Start
  <2>1. csv' = csv /\ left' = left /\ script_db' = script_db /\ read' \in {script_db, <<>>}
    BY <1>6 DEF Start
  <2>2. indexVars' = indexVars
    BY <1>6 DEF Start, indexVars
  <2>3. LinesOK(csv)' /\ LinesOK(left)' /\ ReadOK'
    BY <2>1, EmptyLines DEF IInv, LinesOK, ReadOK
  <2> QED BY <2>2, <2>3, SameIndex DEF IInv
<1>7. CASE Stop
  <2>1. csv' = csv /\ left' = left /\ script_db' = script_db /\ read' = <<>>
    BY <1>7 DEF Stop
  <2>2. indexVars' = indexVars
    BY <1>7 DEF Stop, indexVars
  <2>3. LinesOK(csv)' /\ LinesOK(left)' /\ ReadOK'
    BY <2>1, EmptyLines DEF IInv, LinesOK, ReadOK
  <2> QED BY <2>2, <2>3, SameIndex DEF IInv
<1>8. CASE LoadMetasploit \/ UNCHANGED vars
  <2>1. csv' = csv /\ left' = left /\ script_db' = script_db /\ read' = read
    BY <1>8 DEF LoadMetasploit, vars
  <2>2. indexVars' = indexVars
    BY <1>8 DEF LoadMetasploit, indexVars, vars
  <2>3. LinesOK(csv)' /\ LinesOK(left)' /\ ReadOK'
    BY <2>1 DEF IInv, LinesOK, ReadOK
  <2> QED BY <2>2, <2>3, SameIndex DEF IInv
<1> QED BY <1>1, <1>2, <1>3, <1>4, <1>5, <1>6, <1>7, <1>8 DEF Next

LEMMA Invariance == Spec => []IInv
<1>1. IInv /\ [Next]_vars => IInv'
  BY Inductive
<1> QED BY Initial, <1>1, PTL DEF Spec

-------------------------------------------------------------------------------
(* The scripts.                                                               *)

(* A script's categories, as the session has them, are what its last line in  *)
(* the file says, but for what is unreadable or not said.                     *)
LEMMA DeclaredIsFiled ==
  ASSUME ReadOK, NEW s, Declared(s) # {}
  PROVE  LET readable == {IF t = "?" THEN "unclassified" ELSE t : t \in Filed(s)}
         IN Declared(s) = IF readable = {} THEN {"unclassified"} ELSE readable
<1> DEFINE I == {i \in 1..Len(read) : read[i].parses /\ read[i].name = s}
           lines == {i \in DOMAIN read : read[i].parses /\ read[i].name = s}
<1>1. I = lines
  BY DEF ReadOK
<1>2. SelectLastInSeq(read, LAMBDA l : l.parses /\ l.name = s) = IF I # {} THEN Max(I) ELSE 0
  BY DEF SelectLastInSeq
<1>3. Declared(s) = LET i == IF I # {} THEN Max(I) ELSE 0
                    IN IF i = 0 THEN {} ELSE Tokens(read[i])
  BY <1>2 DEF Declared
<1>4. I # {} /\ Declared(s) = Tokens(read[Max(I)])
  BY <1>3
<1>5. Filed(s) = read[Max(I)].categories
  BY <1>1, <1>4 DEF Filed
<1> QED BY <1>4, <1>5 DEF Tokens

(* So an invocation of a script is what script.db calls the script.           *)
LEMMA InvocationAsFiled ==
  ASSUME ReadOK, NEW s, Declared(s) # {}, s \notin Category,
         NmapCommand(s, Declared(s)).composed
  PROVE  /\ Filed(s) \cap NeverComposed = {}
         /\ NmapCommand(s, Declared(s)).category \in DefaultCategories =>
              /\ Filed(s) \cap {"safe", "version"} # {}
              /\ Filed(s) \subseteq
                   {"safe", "version", "discovery", "default", "auth", "malware"}
<1> DEFINE D == Declared(s)
           category == SelectionCategory(s, D)
<1>1. category \notin NeverComposed /\ NmapCommand(s, D).category = category
  BY DEF NmapCommand, Mentioned, Composed
<1>2. s # "all"
  <2> SUFFICES ASSUME s = "all" PROVE FALSE
    OBVIOUS
  <2>1. category = WorstCategory(D \cup {"exploit"})
    BY DEF SelectionCategory
  <2>2. (D \cup {"exploit"}) \cap NeverComposed = {}
    BY <1>1, <2>1, NotWorse
  <2> QED BY <2>2 DEF NeverComposed
<1>3. category = WorstCategory(D)
  BY <1>2 DEF SelectionCategory
<1>4. /\ D \cap NeverComposed = {}
      /\ category \in DefaultCategories =>
           /\ D \cap {"safe", "version"} # {}
           /\ D \subseteq {"safe", "version", "discovery", "default", "auth", "malware"}
  BY <1>1, <1>3, NotWorse
<1> DEFINE readable == {IF t = "?" THEN "unclassified" ELSE t : t \in Filed(s)}
<1>5. D = IF readable = {} THEN {"unclassified"} ELSE readable
  BY DeclaredIsFiled
<1>6. \A t \in Filed(s) : (IF t = "?" THEN "unclassified" ELSE t) \in D
  BY <1>5
<1>7. \A t \in D : t # "unclassified" => t \in Filed(s)
  BY <1>5
<1> HIDE DEF D, category
<1>8. Filed(s) \cap NeverComposed = {}
  BY <1>4, <1>6 DEF NeverComposed
<1>9. ASSUME category \in DefaultCategories
      PROVE  /\ Filed(s) \cap {"safe", "version"} # {}
             /\ Filed(s) \subseteq
                  {"safe", "version", "discovery", "default", "auth", "malware"}
  BY <1>4, <1>6, <1>7, <1>9
<1> QED BY <1>1, <1>8, <1>9 DEF D

(* The invocations of scripts among the commands of a lead. *)
LEMMA InvokedScripts ==
  ASSUME NEW lead, NEW allowed, NEW c \in BuildCommands(lead, allowed),
         c.tool = "nse", c.composed, c.what \notin Category
  PROVE  /\ c.category \in allowed
         /\ Declared(c.what) # {}
         /\ c = NmapCommand(c.what, Declared(c.what))
<1>1. /\ c.category \in allowed
      /\ \/ c \in SearchsploitCommands
         \/ c \in NseCommands(lead)
         \/ c \in HttpProbeCommands(lead) \cup {NucleiCommand}
         \/ c \in MetasploitCommands(lead.cve)
         \/ c \in ExploitCommands(lead.cve)
  BY DEF BuildCommands, FilterCommands
<1>2. c \notin SearchsploitCommands
  BY DEF SearchsploitCommands, Composed
<1>3. c \notin HttpProbeCommands(lead) \cup {NucleiCommand}
  BY DEF HttpProbeCommands, NucleiCommand, Composed
<1>4. c \notin MetasploitCommands(lead.cve)
  BY DEF MetasploitCommands, Composed
<1>5. c \notin ExploitCommands(lead.cve)
  <2>1. \A x \in ExploitCommands(lead.cve) :
          (\E e : x = ExamineCommand(e)) \/ (\E n : x = Further("searchsploit", "safe", n))
    BY DEF ExploitCommands
  <2>2. \A e : ExamineCommand(e).tool = "searchsploit -x"
    BY DEF ExamineCommand, Composed
  <2>3. \A n : Further("searchsploit", "safe", n).tool = "searchsploit"
    BY DEF Further
  <2> QED BY <2>1, <2>2, <2>3
<1>6. c \in NseCommands(lead)
  BY <1>1, <1>2, <1>3, <1>4, <1>5
<1> DEFINE found == ScriptsFor(lead)
           first == First(found, LAMBDA s, t : ScriptBefore(lead.cve, s, t), MaxScriptCommands)
           extra == Cardinality(found) - MaxScriptCommands
<1>7. \/ c \in {Composed("nmap", "version", "version detection"), NmapCommand("vuln", {"vuln"})}
      \/ c \in {NmapCommand(s, Declared(s)) : s \in first \ {"vuln"}}
      \/ c \in IF extra > 0 THEN {Further("nmap", "unclassified", extra)} ELSE {}
  BY <1>6 DEF NseCommands
<1>8. first \subseteq Indexed
  BY DEF First, ScriptsFor
<1> HIDE DEF first, extra
<1>9. c # Composed("nmap", "version", "version detection") /\ c # NmapCommand("vuln", {"vuln"})
  <2>1. Composed("nmap", "version", "version detection").tool # "nse"
    BY DEF Composed
  <2>2. NmapCommand("vuln", {"vuln"}).what = "vuln"
    BY DEF Composed, Mentioned, NmapCommand
  <2>3. "vuln" \in Category
    BY DEF Category
  <2> QED BY <2>1, <2>2, <2>3
<1>10. c # Further("nmap", "unclassified", extra)
  BY DEF Further
<1>11. PICK s \in first : c = NmapCommand(s, Declared(s))
  BY <1>7, <1>9, <1>10
<1>12. c.what = s
  BY <1>11 DEF NmapCommand, Composed, Mentioned
<1> QED BY <1>1, <1>8, <1>11, <1>12 DEF Indexed

LEMMA ComposedAsFiled == ReadOK => AsFiled
<1> SUFFICES ASSUME ReadOK, NEW lead \in Leads,
                    NEW allowed \in Selections \cup {DefaultCategories},
                    NEW c \in BuildCommands(lead, allowed),
                    c.tool = "nse", c.composed, c.what \notin Category
             PROVE  /\ Filed(c.what) \cap NeverComposed = {}
                    /\ allowed = DefaultCategories =>
                         /\ Filed(c.what) \cap {"safe", "version"} # {}
                         /\ Filed(c.what) \subseteq
                              {"safe", "version", "discovery", "default", "auth", "malware"}
  BY DEF AsFiled
<1>1. /\ c.category \in allowed /\ Declared(c.what) # {}
      /\ c = NmapCommand(c.what, Declared(c.what))
  BY InvokedScripts
<1> QED BY <1>1, InvocationAsFiled

-------------------------------------------------------------------------------
(* The exploits of a lead.                                                    *)

KnownFor(cve) == {e \in DOMAIN told : told[e] # <<>> /\ cve \in told[e][1].cves}

(* The two tables agree with the lines last ingested. *)
LEMMA KnownAre ==
  ASSUME IInv, NEW cve
  PROVE  /\ KnownFor(cve) \subseteq Ids
         /\ {l[1] : l \in {k \in exploit_cve : k[2] = cve}} = KnownFor(cve)
         /\ \A e \in KnownFor(cve) :
              /\ told[e][1] \in CSVLine
              /\ exploit[e].verified = told[e][1].verified
              /\ exploit[e].published = told[e][1].published
<1>1. DOMAIN told = Ids /\ TablesOK /\ \A e \in Ids : AsTold(e)
  BY DEF IInv
<1>2. KnownFor(cve) \subseteq Ids
  BY <1>1 DEF KnownFor
<1>3. ASSUME NEW e \in KnownFor(cve)
      PROVE  /\ told[e][1] \in CSVLine
             /\ exploit[e].verified = told[e][1].verified
             /\ exploit[e].published = told[e][1].published
             /\ <<e, cve>> \in exploit_cve
  <2>1. told[e] # <<>> /\ cve \in told[e][1].cves /\ AsTold(e)
    BY <1>1 DEF KnownFor
  <2>2. <<e, cve>> \in LinksOf(e)
    BY <2>1 DEF AsTold
  <2> QED BY <2>1, <2>2 DEF AsTold, LinksOf
<1>4. ASSUME NEW l \in exploit_cve, l[2] = cve PROVE l[1] \in KnownFor(cve)
  <2>1. l[1] \in Ids /\ l = <<l[1], cve>>
    BY <1>1, <1>4 DEF TablesOK
  <2>2. l \in LinksOf(l[1]) /\ AsTold(l[1])
    BY <1>1, <2>1 DEF LinksOf
  <2>3. told[l[1]] # <<>> /\ LinksOf(l[1]) = {<<l[1], c>> : c \in told[l[1]][1].cves}
    BY <2>2 DEF AsTold
  <2>4. PICK c \in told[l[1]][1].cves : l = <<l[1], c>>
    BY <2>2, <2>3
  <2>5. c = cve
    BY <2>1, <2>4
  <2> QED BY <1>1, <2>1, <2>3, <2>4, <2>5 DEF KnownFor
<1>5. ASSUME NEW e \in KnownFor(cve)
      PROVE  e \in {l[1] : l \in {k \in exploit_cve : k[2] = cve}}
  <2>1. <<e, cve>> \in {k \in exploit_cve : k[2] = cve} /\ <<e, cve>>[1] = e
    BY <1>3
  <2> QED BY <2>1
<1> QED BY <1>2, <1>3, <1>4, <1>5

(* The SQL and the hand-off each take the first of what they are given. *)
LEMMA ListedAre ==
  ASSUME IInv, session = "up", "exploits" \in configured, NEW cve
  PROVE  ExploitsFor(cve) = Firsts(KnownFor(cve), Listed, ExploitLimit)
<1> DEFINE K == KnownFor(cve)
           After(d, e) == Outranks(d, e) \/ (Ties(d, e) /\ Position(d) > Position(e))
<1>1. ExploitsFor(cve) = First(K, After, ExploitLimit)
  BY KnownAre DEF ExploitsFor, ExploitsForCve
<1>2. First(K, After, ExploitLimit) =
        {x \in K : Cardinality({y \in K : After(y, x)}) < ExploitLimit}
  BY DEF First
<1>3. K \subseteq Ids
  BY KnownAre
<1> HIDE DEF K
<1>4. ASSUME NEW x \in K PROVE {y \in K : After(y, x)} = Before(K, Listed, x)
  BY <1>3 DEF Before, Listed, PrecedesReversed
<1> HIDE DEF After
<1> QED BY <1>1, <1>2, <1>4 DEF Firsts, K

LEMMA ShownAre ==
  ASSUME NEW records \in SUBSET Ids
  PROVE  First(records, Precedes, MaxExploitCommands) = Firsts(records, Shown, MaxExploitCommands)
<1>1. First(records, Precedes, MaxExploitCommands) =
        {x \in records : Cardinality({y \in records : Precedes(y, x)}) < MaxExploitCommands}
  BY DEF First
<1>2. ASSUME NEW x \in records PROVE {y \in records : Precedes(y, x)} = Before(records, Shown, x)
  BY DEF Before, Shown
<1> QED BY <1>1, <1>2 DEF Firsts

(* What the commands of a lead show of exploits, and how many they say there  *)
(* are besides.                                                               *)
LEMMA ExploitsShown ==
  ASSUME NEW lead
  PROVE  LET commands == BuildCommands(lead, DefaultCategories)
             records == ExploitsFor(lead.cve)
             extra == Cardinality(records) - MaxExploitCommands
         IN /\ {c.what : c \in {d \in commands : d.tool = "searchsploit -x"}}
                 = First(records, Precedes, MaxExploitCommands)
            /\ {c.further : c \in {d \in commands : d.tool = "searchsploit" /\ ~d.composed}}
                 = IF extra > 0 THEN {extra} ELSE {}
<1> DEFINE commands == BuildCommands(lead, DefaultCategories)
           records == ExploitsFor(lead.cve)
           extra == Cardinality(records) - MaxExploitCommands
           first == First(records, Precedes, MaxExploitCommands)
<1>1. \A c : c \in commands <=>
        /\ c.category \in DefaultCategories \/ ~c.composed
        /\ \/ c \in SearchsploitCommands
           \/ c \in NseCommands(lead)
           \/ c \in IF lead.web THEN HttpProbeCommands(lead) \cup {NucleiCommand} ELSE {}
           \/ c \in MetasploitCommands(lead.cve)
           \/ c \in ExploitCommands(lead.cve)
  BY DEF BuildCommands, FilterCommands
<1>2. ASSUME NEW c \in SearchsploitCommands PROVE c.tool = "searchsploit" /\ c.composed
  BY DEF SearchsploitCommands, Composed
<1>3. ASSUME NEW c \in NseCommands(lead) PROVE c.tool \in {"nmap", "nse"}
  <2>1. \A n, t : NmapCommand(n, t).tool = "nse"
    BY DEF NmapCommand, Mentioned, Composed
  <2>2. \A n : Further("nmap", "unclassified", n).tool = "nmap"
    BY DEF Further
  <2>3. Composed("nmap", "version", "version detection").tool = "nmap"
    BY DEF Composed
  <2>4. \/ c = Composed("nmap", "version", "version detection")
        \/ \E n, t : c = NmapCommand(n, t)
        \/ \E n : c = Further("nmap", "unclassified", n)
    BY DEF NseCommands
  <2> QED BY <2>1, <2>2, <2>3, <2>4
<1>4. ASSUME NEW c \in HttpProbeCommands(lead) \cup {NucleiCommand}
      PROVE  c.tool \in {"curl", "openssl", "nuclei"}
  BY DEF HttpProbeCommands, NucleiCommand, Composed
<1>5. ASSUME NEW c \in MetasploitCommands(lead.cve) PROVE c.tool = "msfconsole"
  BY DEF MetasploitCommands, Composed
<1>6. \A c : c \in ExploitCommands(lead.cve) <=>
        \/ \E e \in first : c = ExamineCommand(e)
        \/ extra > 0 /\ c = Further("searchsploit", "safe", extra)
  BY DEF ExploitCommands
<1>7. \A e : /\ ExamineCommand(e).tool = "searchsploit -x" /\ ExamineCommand(e).what = e
            /\ ExamineCommand(e).category = "safe"
  BY DEF ExamineCommand, Composed
<1>8. \A n : LET f == Further("searchsploit", "safe", n)
             IN f.tool = "searchsploit" /\ ~f.composed /\ f.further = n
  BY DEF Further
<1>9. "safe" \in DefaultCategories
  BY DEF DefaultCategories
<1> HIDE DEF commands, first, extra
<1>10. \A c : c \in commands /\ c.tool = "searchsploit -x" <=> \E e \in first : c = ExamineCommand(e)
  <2>1. ASSUME NEW c \in commands, c.tool = "searchsploit -x"
        PROVE  \E e \in first : c = ExamineCommand(e)
    <3>1. c \notin SearchsploitCommands /\ c \notin NseCommands(lead)
          /\ c \notin HttpProbeCommands(lead) \cup {NucleiCommand}
          /\ c \notin MetasploitCommands(lead.cve)
      BY <1>2, <1>3, <1>4, <1>5, <2>1
    <3>2. c \in ExploitCommands(lead.cve)
      BY <1>1, <3>1
    <3> QED BY <1>6, <1>8, <2>1, <3>2
  <2>2. ASSUME NEW e \in first
        PROVE  ExamineCommand(e) \in commands /\ ExamineCommand(e).tool = "searchsploit -x"
    <3>1. ExamineCommand(e) \in ExploitCommands(lead.cve)
      BY <1>6
    <3> QED BY <1>1, <1>7, <1>9, <3>1
  <2> QED BY <2>1, <2>2
<1>11. \A c : c \in commands /\ c.tool = "searchsploit" /\ ~c.composed <=>
              extra > 0 /\ c = Further("searchsploit", "safe", extra)
  BY ZenonT(30), <1>1, <1>2, <1>3, <1>4, <1>5, <1>6, <1>7, <1>8
<1>12. {c.what : c \in {d \in commands : d.tool = "searchsploit -x"}} = first
  <2>1. ASSUME NEW e \in first
        PROVE  e \in {c.what : c \in {d \in commands : d.tool = "searchsploit -x"}}
    <3>1. /\ ExamineCommand(e) \in {d \in commands : d.tool = "searchsploit -x"}
          /\ ExamineCommand(e).what = e
      BY <1>7, <1>10
    <3> QED BY <3>1
  <2>2. ASSUME NEW c \in commands, c.tool = "searchsploit -x" PROVE c.what \in first
    <3>1. PICK e \in first : c = ExamineCommand(e)
      BY <1>10, <2>2
    <3> QED BY <1>7, <3>1
  <2> QED BY <2>1, <2>2
<1>13. {c.further : c \in {d \in commands : d.tool = "searchsploit" /\ ~d.composed}}
         = IF extra > 0 THEN {extra} ELSE {}
  BY <1>8, <1>11
<1> QED BY <1>12, <1>13 DEF commands, first, extra

(* No exploit that is left out outranks one that is shown, in the one cut or  *)
(* in the other, for who outranks comes first in both orders; and as the      *)
(* orders are total, what is cut from as many as there are is counted.        *)
LEMMA BestAreShown == IInv => BestFirst
<1> SUFFICES ASSUME IInv, session = "up", "exploits" \in configured, NEW lead \in Leads
             PROVE  LET commands == BuildCommands(lead, DefaultCategories)
                        known == {e \in DOMAIN told : told[e] # <<>> /\ lead.cve \in told[e][1].cves}
                        shown == {c.what : c \in {d \in commands : d.tool = "searchsploit -x"}}
                        more == {c.further : c \in {d \in commands :
                                                     d.tool = "searchsploit" /\ ~d.composed}}
                    IN /\ shown \subseteq known
                       /\ \A e \in shown, d \in known \ shown :
                            /\ told[d][1].verified => told[e][1].verified
                            /\ (told[d][1].verified <=> told[e][1].verified)
                                 => told[d][1].published <= told[e][1].published
                       /\ Cardinality(known) <= ExploitLimit =>
                            \/ more = {} /\ shown = known
                            \/ more = {Cardinality(known) - Cardinality(shown)}
  BY DEF BestFirst
<1> DEFINE known == KnownFor(lead.cve)
           records == Firsts(known, Listed, ExploitLimit)
           shown == Firsts(records, Shown, MaxExploitCommands)
           extra == Cardinality(records) - MaxExploitCommands
           more == IF extra > 0 THEN {extra} ELSE {}
<1>1. /\ known \subseteq Ids
      /\ \A e \in known : /\ told[e][1] \in CSVLine
                          /\ exploit[e].verified = told[e][1].verified
                          /\ exploit[e].published = told[e][1].published
  BY KnownAre
<1>2. records \subseteq known /\ shown \subseteq records
  BY DEF Firsts
<1>3. /\ ExploitsFor(lead.cve) = records
      /\ First(records, Precedes, MaxExploitCommands) = shown
  <2>1. records \in SUBSET Ids
    BY <1>1, <1>2
  <2> HIDE DEF records
  <2>2. First(records, Precedes, MaxExploitCommands) = Firsts(records, Shown, MaxExploitCommands)
    BY <2>1, ShownAre
  <2> QED BY <2>2, ListedAre DEF records
<1>4. IsFiniteSet(known) /\ IsFiniteSet(records)
  <2> HIDE DEF records, known
  <2> QED BY <1>1, <1>2, IdsFinite, FS_Subset
<1>5. TablesOK /\ ExploitLimit \in Nat /\ MaxExploitCommands \in Nat
  BY Constants DEF IInv
<1>6. /\ Irreflexive(known, Listed) /\ Transitive(known, Listed)
      /\ \A d, e \in known : Outranks(d, e) => <<d, e>> \in Listed
      /\ Irreflexive(records, Shown) /\ Transitive(records, Shown) /\ Total(records, Shown)
      /\ \A d, e \in records : Outranks(d, e) => <<d, e>> \in Shown
  <2> HIDE DEF records, known
  <2>1. known \in SUBSET Ids /\ records \in SUBSET Ids /\ Shown \in {Shown, Listed} /\ Listed \in {Shown, Listed}
    BY <1>1, <1>2
  <2> QED BY <1>5, <2>1, Orders
<1> HIDE DEF known
<1>7. ASSUME NEW e \in shown, NEW d \in known \ shown PROVE ~Outranks(d, e)
  <2> SUFFICES ASSUME Outranks(d, e) PROVE FALSE
    OBVIOUS
  <2>1. e \in records /\ e \in known /\ d \in known
    BY <1>2
  <2>2. d \in records
    BY <1>4, <1>5, <1>6, <2>1, FirstsClosed
  <2>3. d \in shown
    <3> HIDE DEF records
    <3> QED BY <1>4, <1>5, <1>6, <2>1, <2>2, FirstsClosed
  <2> QED BY <2>3
<1>8. ASSUME NEW e \in shown, NEW d \in known \ shown
      PROVE  /\ told[d][1].verified => told[e][1].verified
             /\ (told[d][1].verified <=> told[e][1].verified)
                  => told[d][1].published <= told[e][1].published
  <2>1. e \in known /\ d \in known /\ ~Outranks(d, e)
    BY <1>2, <1>7
  <2>2. told[e][1] \in CSVLine /\ told[d][1] \in CSVLine
    BY <1>1, <2>1
  <2>3. /\ told[d][1].verified \in BOOLEAN /\ told[e][1].verified \in BOOLEAN
        /\ told[d][1].published \in Nat /\ told[e][1].published \in Nat
    BY <2>2 DEF CSVLine
  <2>4. /\ exploit[d].verified = told[d][1].verified /\ exploit[e].verified = told[e][1].verified
        /\ exploit[d].published = told[d][1].published /\ exploit[e].published = told[e][1].published
    BY <1>1, <2>1
  <2>5. ~(told[d][1].verified /\ ~told[e][1].verified)
    BY <2>1, <2>4 DEF Outranks
  <2>6. told[d][1].verified = told[e][1].verified
          => ~(told[d][1].published > told[e][1].published)
    BY <2>1, <2>4 DEF Outranks
  <2>7. ~(told[d][1].published > told[e][1].published)
          => told[d][1].published <= told[e][1].published
    BY <2>3
  <2>8. (told[d][1].verified <=> told[e][1].verified) => told[d][1].verified = told[e][1].verified
    BY <2>3
  <2> QED BY <2>5, <2>6, <2>7, <2>8
<1>9. ASSUME Cardinality(known) <= ExploitLimit
      PROVE  \/ more = {} /\ shown = known
             \/ more = {Cardinality(known) - Cardinality(shown)}
  <2>1. records = known
    BY <1>4, <1>5, <1>6, <1>9, FirstsOfFew
  <2>2. Cardinality(records) \in Nat
    BY <1>4, FS_CardinalityType
  <2> HIDE DEF records
  <2>3. CASE extra > 0
    <3>1. MaxExploitCommands <= Cardinality(records)
      BY <1>5, <2>2, <2>3
    <3>2. Cardinality(shown) = MaxExploitCommands
      BY <1>4, <1>5, <1>6, <3>1, FirstsCount
    <3> QED BY <2>1, <2>3, <3>2
  <2>4. CASE ~(extra > 0)
    <3>1. Cardinality(records) <= MaxExploitCommands
      BY <1>5, <2>2, <2>4
    <3>2. shown = records
      BY <1>4, <1>5, <1>6, <3>1, FirstsOfFew
    <3> QED BY <2>1, <2>4, <3>2
  <2> QED BY <2>3, <2>4
<1>10. /\ {c.what : c \in {d \in BuildCommands(lead, DefaultCategories) : d.tool = "searchsploit -x"}}
            = shown
       /\ {c.further : c \in {d \in BuildCommands(lead, DefaultCategories) :
                                d.tool = "searchsploit" /\ ~d.composed}} = more
  <2> HIDE DEF records, shown
  <2> QED BY <1>3, ExploitsShown
<1> HIDE DEF records, shown, more
<1>11. shown \subseteq known
  BY <1>2
<1> QED BY <1>8, <1>9, <1>10, <1>11 DEF known, KnownFor

-------------------------------------------------------------------------------
(* Results.                                                                   *)

(* Whatever script.db holds, was replaced with or repeats, no invocation of a *)
(* script of a category that fires is composed, and none is offered unasked   *)
(* but of scripts that are filed as harmless (commands.py, _worst_category).  *)
THEOREM AsFiledAlways == Spec => []AsFiled
<1>1. IInv => AsFiled
  BY ComposedAsFiled DEF IInv
<1> QED BY <1>1, Invariance, PTL

(* Whatever builds run, are killed or give up, the exploits shown are the     *)
(* best of those last ingested and those left out are counted, for any file,  *)
(* batch size and limits (exploitdb.py, _write_batch, exploits_for_cve, rank; *)
(* handoff.py, _exploit_commands).                                            *)
THEOREM BestFirstAlways == Spec => []BestFirst
<1>1. IInv => BestFirst
  BY BestAreShown
<1> QED BY <1>1, Invariance, PTL

===============================================================================
