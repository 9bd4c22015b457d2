----------------------------- MODULE ConsoleProofs -----------------------------
(***************************************************************************)
(* What holds of a session for every value of the constants: a line of the *)
(* plan can be followed whenever it is, and a ledger holds the first leads *)
(* that were reported, the most urgent first.                              *)
(*                                                                         *)
(* First the facts about numbers and about sets in an order, then the      *)
(* lookups and the merge of a ledger, then the invariant, command by       *)
(* command.                                                                *)
(***************************************************************************)
EXTENDS Console, TLAPS, FiniteSetTheorems, SequenceTheorems, WellFoundedInduction

-------------------------------------------------------------------------------
(* Numbers. *)

LEMMA Least ==
  ASSUME NEW T \in SUBSET Nat, T # {}
  PROVE  \E x \in T : \A y \in T : x <= y
<1> DEFINE R == OpToRel(<, Nat)
<1>1. IsWellFoundedOn(R, Nat)
  BY NatLessThanWellFounded
<1>2. PICK x \in T : \A y \in T : ~(<<y, x>> \in R)
  <2> HIDE DEF R
  <2> QED BY <1>1, WFMin
<1>3. ASSUME NEW y \in T PROVE x <= y
  <2>1. x \in Nat /\ y \in Nat
    OBVIOUS
  <2>2. y < x => <<y, x>> \in R
    BY <2>1 DEF OpToRel
  <2>3. ~(y < x)
    <3> HIDE DEF R
    <3> QED BY <1>2, <2>2
  <2> HIDE DEF R
  <2> QED BY <2>1, <2>3, SMT
<1> QED BY <1>3

LEMMA MinOf ==
  ASSUME NEW T \in SUBSET Nat, T # {}
  PROVE  Min(T) \in T /\ \A y \in T : Min(T) <= y
BY Least DEF Min

LEMMA Induction ==
  ASSUME NEW A, 0 \in A, \A n \in Nat : n \in A => n + 1 \in A
  PROVE  Nat \subseteq A
<1> SUFFICES ASSUME Nat \ A # {} PROVE FALSE
  OBVIOUS
<1>1. PICK n \in Nat \ A : \A k \in Nat \ A : n <= k
  <2>1. Nat \ A \in SUBSET Nat
    OBVIOUS
  <2> QED  BY <2>1, Least
<1>2. n # 0
  BY <1>1
<1>3. n - 1 \in Nat /\ n - 1 \in A
  BY <1>1, <1>2
<1> QED  BY <1>1, <1>3

-------------------------------------------------------------------------------
(* Sets in an order, which is a set of pairs here.                            *)

Preceding(S, R, x) == {y \in S : <<y, x>> \in R}
Firsts(S, R, n) == {x \in S : Cardinality(Preceding(S, R, x)) < n}

Irreflexive(S, R) == \A x \in S : <<x, x>> \notin R
Transitive(S, R) == \A x, y, z \in S : <<x, y>> \in R /\ <<y, z>> \in R => <<x, z>> \in R
Total(S, R) == \A x, y \in S : x = y \/ <<x, y>> \in R \/ <<y, x>> \in R

LEMMA PrecedingFinite ==
  ASSUME NEW S, IsFiniteSet(S), NEW R, NEW x
  PROVE  /\ IsFiniteSet(Preceding(S, R, x))
         /\ Cardinality(Preceding(S, R, x)) \in Nat
<1>1. Preceding(S, R, x) \in SUBSET S
  BY DEF Preceding
<1> HIDE DEF Preceding
<1> QED BY <1>1, FS_Subset, FS_CardinalityType

LEMMA FewerPreceding ==
  ASSUME NEW S, IsFiniteSet(S), NEW R, Irreflexive(S, R), NEW x \in S
  PROVE  Cardinality(Preceding(S, R, x)) < Cardinality(S)
<1>1. Preceding(S, R, x) \in SUBSET S /\ Preceding(S, R, x) # S
  BY DEF Preceding, Irreflexive
<1> HIDE DEF Preceding
<1>2. Cardinality(Preceding(S, R, x)) <= Cardinality(S) /\ Cardinality(S) # Cardinality(Preceding(S, R, x))
  BY <1>1, FS_Subset
<1> QED BY <1>2, PrecedingFinite, FS_CardinalityType

(* A set that is not larger than n is all of its first n. *)
LEMMA FirstsOfFew ==
  ASSUME NEW S, IsFiniteSet(S), NEW R, Irreflexive(S, R), NEW n \in Nat, Cardinality(S) <= n
  PROVE  Firsts(S, R, n) = S
<1>1. ASSUME NEW x \in S PROVE Cardinality(Preceding(S, R, x)) < n
  BY FewerPreceding, PrecedingFinite, FS_CardinalityType
<1> QED BY <1>1 DEF Firsts

LEMMA MorePreceding ==
  ASSUME NEW S, IsFiniteSet(S), NEW R, Irreflexive(S, R), Transitive(S, R),
         NEW x \in S, NEW y \in S, <<x, y>> \in R
  PROVE  Cardinality(Preceding(S, R, x)) < Cardinality(Preceding(S, R, y))
<1>1. /\ Preceding(S, R, x) \in SUBSET Preceding(S, R, y)
      /\ x \in Preceding(S, R, y) /\ x \notin Preceding(S, R, x)
  BY DEF Preceding, Transitive, Irreflexive
<1> HIDE DEF Preceding
<1>2. /\ Cardinality(Preceding(S, R, x)) <= Cardinality(Preceding(S, R, y))
      /\ Cardinality(Preceding(S, R, y)) # Cardinality(Preceding(S, R, x))
  BY <1>1, PrecedingFinite, FS_Subset
<1> QED BY <1>2, PrecedingFinite

(* The first n of a set that has as many are n: no two have equally many      *)
(* before them, so every number is had.                                       *)
LEMMA FirstsCount ==
  ASSUME NEW S, IsFiniteSet(S), NEW R, Irreflexive(S, R), Transitive(S, R), Total(S, R),
         NEW n \in Nat, n <= Cardinality(S)
  PROVE  Cardinality(Firsts(S, R, n)) = n
<1> DEFINE rank == [x \in S |-> Cardinality(Preceding(S, R, x))]
           k == Cardinality(S)
           T == Firsts(S, R, n)
           g == [x \in T |-> Cardinality(Preceding(S, R, x))]
<1>1. k \in Nat
  BY FS_CardinalityType
<1>2. \A x \in S : Cardinality(Preceding(S, R, x)) \in 0..(k - 1)
  <2>1. ASSUME NEW x \in S PROVE Cardinality(Preceding(S, R, x)) \in 0..(k - 1)
    <3>1. Cardinality(Preceding(S, R, x)) < k /\ Cardinality(Preceding(S, R, x)) \in Nat
      BY FewerPreceding, PrecedingFinite
    <3> QED BY <1>1, <3>1
  <2> QED BY <2>1
<1>3. \A x, y \in S : Cardinality(Preceding(S, R, x)) = Cardinality(Preceding(S, R, y)) => x = y
  <2>1. ASSUME NEW x \in S, NEW y \in S, x # y
        PROVE  Cardinality(Preceding(S, R, x)) # Cardinality(Preceding(S, R, y))
    <3>1. <<x, y>> \in R \/ <<y, x>> \in R
      BY <2>1 DEF Total
    <3> QED BY <3>1, MorePreceding, PrecedingFinite
  <2> QED BY <2>1
<1>4. rank \in Injection(S, 0..(k - 1))
  BY <1>2, <1>3 DEF Injection, IsInjective
<1>5. IsFiniteSet(0..(k - 1)) /\ Cardinality(0..(k - 1)) = k
  <2> HIDE DEF k, rank
  <2>1. k - 1 \in Int /\ 0 \in Int
    BY <1>1
  <2> QED BY <1>1, <2>1, FS_Interval
<1>6. rank \in Surjection(S, 0..(k - 1))
  <2> HIDE DEF rank
  <2> QED BY <1>4, <1>5, FS_Injection
<1>7. T \subseteq S /\ \A x \in S : x \in T <=> Cardinality(Preceding(S, R, x)) < n
  BY DEF Firsts
<1>8. g \in [T -> 0..(n - 1)]
  <2>1. ASSUME NEW x \in T PROVE Cardinality(Preceding(S, R, x)) \in 0..(n - 1)
    <3>1. Cardinality(Preceding(S, R, x)) \in Nat /\ Cardinality(Preceding(S, R, x)) < n
      BY <1>7, PrecedingFinite
    <3> QED BY <3>1
  <2> HIDE DEF T
  <2> QED BY <2>1
<1>9. g \in Injection(T, 0..(n - 1))
  <2> HIDE DEF T
  <2> QED BY <1>3, <1>7, <1>8 DEF Injection, IsInjective
<1>10. ASSUME NEW i \in 0..(n - 1) PROVE \E x \in T : g[x] = i
  <2>1. i \in 0..(k - 1) /\ i < n
    BY <1>1
  <2>2. PICK x \in S : rank[x] = i
    <3> HIDE DEF rank
    <3> QED BY <1>6, <2>1 DEF Surjection
  <2>3. x \in T
    BY <1>7, <2>1, <2>2
  <2> HIDE DEF T
  <2> QED BY <2>2, <2>3
<1>11. g \in Surjection(T, 0..(n - 1))
  <2> HIDE DEF g, T
  <2> QED BY <1>8, <1>10 DEF Surjection
<1>12. IsFiniteSet(0..(n - 1)) /\ Cardinality(0..(n - 1)) = n
  BY FS_Interval
<1> HIDE DEF g, T
<1>13. Cardinality(T) = n
  BY <1>9, <1>11, <1>12, FS_Injection
<1> QED BY <1>13 DEF T

(* The members of a set, each in its place. *)
Ranks(f, S, R) ==
  /\ f = [k \in 1..Cardinality(S) |-> f[k]]
  /\ \A k \in 1..Cardinality(S) :
       (\E x \in S : Cardinality(Preceding(S, R, x)) = k - 1)
         => f[k] \in S /\ Cardinality(Preceding(S, R, f[k])) = k - 1

InOrder(f, S, R) ==
  /\ f \in [1..Cardinality(S) -> S]
  /\ \A x \in S : \E k \in 1..Cardinality(S) : f[k] = x
  /\ \A j, k \in 1..Cardinality(S) : j < k => <<f[j], f[k]>> \in R

LEMMA RankedIs ==
  ASSUME NEW S, IsFiniteSet(S), NEW R, Irreflexive(S, R), Transitive(S, R), Total(S, R),
         NEW f, Ranks(f, S, R)
  PROVE  InOrder(f, S, R)
<1> DEFINE rank(x) == Cardinality(Preceding(S, R, x))
           g == [x \in S |-> rank(x)]
           n == Cardinality(S)
<1>1. n \in Nat
  BY FS_CardinalityType
<1>2. \A x \in S : rank(x) \in 0..(n - 1)
  <2>1. ASSUME NEW x \in S PROVE rank(x) \in 0..(n - 1)
    <3>1. rank(x) < n /\ rank(x) \in Nat
      BY FewerPreceding, PrecedingFinite
    <3> HIDE DEF rank, n
    <3> QED BY <1>1, <3>1
  <2> QED BY <2>1
<1>3. \A x, y \in S : rank(x) = rank(y) => x = y
  <2>1. ASSUME NEW x \in S, NEW y \in S, x # y PROVE rank(x) # rank(y)
    <3>1. <<x, y>> \in R \/ <<y, x>> \in R
      BY <2>1 DEF Total
    <3> QED BY <3>1, MorePreceding, PrecedingFinite
  <2> QED BY <2>1
<1>4. g \in Injection(S, 0..(n - 1))
  BY <1>2, <1>3 DEF Injection, IsInjective
<1>5. IsFiniteSet(0..(n - 1)) /\ Cardinality(0..(n - 1)) = n
  <2> HIDE DEF n, g
  <2>1. n - 1 \in Int /\ 0 \in Int
    BY <1>1
  <2> QED BY <1>1, <2>1, FS_Interval
<1>6. g \in Surjection(S, 0..(n - 1))
  <2> HIDE DEF g
  <2> QED BY <1>4, <1>5, FS_Injection
<1>7. ASSUME NEW k \in 1..n PROVE f[k] \in S /\ rank(f[k]) = k - 1
  <2>1. k - 1 \in 0..(n - 1)
    BY <1>1
  <2>2. \E x \in S : g[x] = k - 1
    <3> HIDE DEF g
    <3> QED BY <1>6, <2>1 DEF Surjection
  <2>3. \E x \in S : rank(x) = k - 1
    BY <2>2
  <2> QED BY <2>3 DEF Ranks
<1>8. f = [k \in 1..n |-> f[k]]
  BY DEF Ranks
<1>9. f \in [1..n -> S]
  <2> HIDE DEF n
  <2> QED BY <1>7, <1>8
<1>10. ASSUME NEW x \in S PROVE \E k \in 1..n : f[k] = x
  <2>1. rank(x) + 1 \in 1..n /\ (rank(x) + 1) - 1 = rank(x)
    <3> HIDE DEF rank, n
    <3> QED BY <1>1, <1>2
  <2>2. f[rank(x) + 1] \in S /\ rank(f[rank(x) + 1]) = rank(x)
    <3> HIDE DEF rank, n
    <3> QED BY <1>7, <2>1
  <2>3. f[rank(x) + 1] = x
    <3> HIDE DEF rank, n
    <3> QED BY <1>3, <2>2
  <2> QED BY <2>1, <2>3
<1>11. ASSUME NEW j \in 1..n, NEW k \in 1..n, j < k PROVE <<f[j], f[k]>> \in R
  <2>1. f[j] \in S /\ f[k] \in S /\ rank(f[j]) = j - 1 /\ rank(f[k]) = k - 1
    BY <1>7
  <2>2. j - 1 < k - 1 /\ j - 1 \in Nat /\ k - 1 \in Nat
    BY <1>1, <1>11
  <2>3. f[j] # f[k]
    <3> HIDE DEF rank
    <3> QED BY <2>1, <2>2
  <2>4. CASE <<f[k], f[j]>> \in R
    <3>1. rank(f[k]) < rank(f[j])
      BY <2>1, <2>4, MorePreceding
    <3> HIDE DEF rank
    <3> QED BY <2>1, <2>2, <3>1
  <2> HIDE DEF rank
  <2> QED BY <2>1, <2>3, <2>4 DEF Total
<1> HIDE DEF n
<1>12. /\ f \in [1..n -> S]
       /\ \A x \in S : \E k \in 1..n : f[k] = x
       /\ \A j, k \in 1..n : j < k => <<f[j], f[k]>> \in R
  BY <1>9, <1>10, <1>11
<1> QED BY <1>12 DEF InOrder, n

-------------------------------------------------------------------------------
(* What the session keeps, and what ties its parts together.                  *)

Rows == UNION {ReportRows(host, ports) : host \in Addresses, ports \in Views}

RegistryOK(reg) ==
  /\ \A n \in DOMAIN reg : reg[n] \in Classes /\ reg[n].fullname = n
  /\ \A n \in DOMAIN reg \cap Planned : Plannable(reg[n])

BuiltinsStay == \E builtin \in Registries : \A c \in builtin : c.fullname \in DOMAIN registry

SearchOK ==
  /\ lastSearch \in Seq(Classes)
  /\ \A i \in 1..Len(lastSearch) : lastSearch[i].fullname \in DOMAIN registry

(* An instance has the options of its class, and an address for RHOST.        *)
Instance(m) ==
  /\ m = [class |-> m.class, values |-> m.values]
  /\ m.class \in Classes
  /\ m.values = [o \in DOMAIN m.class.options |-> m.values[o]]
  /\ "RHOST" \in DOMAIN m.class.options =>
       m.values["RHOST"] \in {<<>>} \cup {<<x>> : x \in Addresses}

ModuleOK == module # <<>> => module = <<module[1]>> /\ Instance(module[1])

(* The parts of a line that was typed. *)
Parts ==
  [do : {"search"}, valid : {TRUE}, query : Queries] \cup [do : {"search"}, valid : {FALSE}]
    \cup [do : {"back", "run", "plan", "exit"}] \cup [do : {"unset"}, option : {"RHOST"}]
    \cup [do : {"use"}, name : Range(Names)] \cup [do : {"pick"}, index : 0..1]
    \cup [do : {"set"}, option : {"RHOST", "TOKEN"}, raw : Raw \cup Hosts]
    \cup [do : {"import"}, hosts : SUBSET Hosts] \cup [do : {"workspace"}, name : WorkspaceNames]

Has(rows, cve) == \E i \in 1..Len(rows) : rows[i].cve = cve
IsReported(n, cve) == Has(reported[n], cve)

FirstOf(rows) == {i \in DOMAIN rows : \A j \in 1..(i - 1) : Identity(rows[j]) # Identity(rows[i])}
KeptOf(rows) == {i \in FirstOf(rows) : Cardinality({j \in FirstOf(rows) : j < i}) < MAX_LEDGER_ROWS}

Worklist(rows, ledger) ==
  /\ Range(ledger) = {rows[i] : i \in KeptOf(rows)}
  /\ Len(ledger) = Cardinality(KeptOf(rows))
  /\ \A i, j \in DOMAIN ledger : i < j => ledger[i].priority >= ledger[j].priority

(* The leads of a graph were reported, unless a run of its workspace raised.  *)
Consistent(ws, rows, raised) ==
  /\ ws = [graph |-> ws.graph, ledger |-> ws.ledger]
  /\ DOMAIN ws.graph \subseteq Addresses
  /\ ws.ledger \in Seq(Rows) /\ rows \in Seq(Rows)
  /\ Worklist(rows, ws.ledger)
  /\ ~raised => \A h \in DOMAIN ws.graph : \A l \in ws.graph[h].leads : Has(rows, l.cve)

WorkspacesOK ==
  /\ DOMAIN reported = DOMAIN workspaces
  /\ workspace \in DOMAIN workspaces
  /\ \A n \in DOMAIN workspaces : Consistent(workspaces[n], reported[n], n \in failed)

(* A line that was taken names a module that is registered, and an address,   *)
(* or a lead that was reported where it was printed.                          *)
CopyOK(copy) ==
  LET line == copy[1].line
      where == copy[1].in
  IN /\ line = [what |-> line.what, on |-> line.on]
     /\ where \in DOMAIN workspaces
     /\ \/ line.what = "handoff" /\ (where \in failed \/ IsReported(where, line.on))
        \/ line.what \in Planned \cap DOMAIN registry /\ line.on \in Addresses

(* Where the execution of a line that follows the plan can be. *)
Used(m, line) == m.class.fullname = line.what /\ Plannable(m.class) /\ m = Create(m.class)

Aimed(m, line) ==
  /\ m.class.fullname = line.what /\ Plannable(m.class)
  /\ MissingRequired(m) = {} /\ Target(m) = <<line.on>>

Followed ==
  LET line == doing[1].line
  IN /\ CopyOK(doing)
     /\ \/ todo = Split(line, doing[1].as) /\ did = <<>>
        \/ /\ line.what # "handoff" /\ doing[1].as # "printed" /\ did = <<>> /\ module # <<>>
           /\ \/ /\ todo = <<[do |-> "set", option |-> "RHOST", raw |-> line.on], [do |-> "run"]>>
                 /\ Used(module[1], line)
              \/ todo = <<[do |-> "run"]>> /\ Aimed(module[1], line)
        \/ todo = <<>> /\ PlanCanBeFollowed

LinesOK ==
  /\ copied # <<>> => CopyOK(copied)
  /\ IF doing = <<>> THEN todo \in Seq(Parts) ELSE Followed

IInv == RegistryOK(registry) /\ BuiltinsStay /\ SearchOK /\ ModuleOK /\ WorkspacesOK /\ LinesOK


-------------------------------------------------------------------------------
(* Classes, and the registry.                                                 *)

LEMMA NamesSequence ==
  /\ Len(Names) \in Nat /\ DOMAIN Names = 1..Len(Names)
BY ClassesAssumption

LEMMA ClassIs ==
  ASSUME NEW c \in Classes
  PROVE  /\ c.fullname \in Range(Names) /\ c.rank \in Nat
         /\ "RHOST" \in DOMAIN c.options =>
              /\ c.options["RHOST"].legal \subseteq Addresses
              /\ c.options["RHOST"].default \in {<<>>} \cup {<<x>> : x \in Addresses}
<1>1. /\ c.fullname \in Range(Names) /\ c.rank \in Nat
      /\ "RHOST" \in DOMAIN c.options =>
           c.options["RHOST"].default \in {<<>>} \cup {<<x>> : x \in c.options["RHOST"].legal}
  BY ClassesAssumption
<1>2. "RHOST" \in DOMAIN c.options => c.options["RHOST"].legal \subseteq Addresses
  BY DEF Addresses
<1>3. ASSUME "RHOST" \in DOMAIN c.options
      PROVE  c.options["RHOST"].default \in {<<>>} \cup {<<x>> : x \in Addresses}
  BY <1>1, <1>2, <1>3
<1> QED BY <1>1, <1>2, <1>3

LEMMA NamesFinite == IsFiniteSet(Range(Names))
<1>1. IsFiniteSet(DOMAIN Names)
  BY NamesSequence, FS_Interval
<1> DEFINE f == [i \in DOMAIN Names |-> Names[i]]
<1>2. f \in Surjection(DOMAIN Names, Range(Names))
  BY DEF Surjection, Range
<1> HIDE DEF f
<1> QED BY <1>1, <1>2, FS_Surjection

LEMMA Places ==
  /\ \A n \in Range(Names) : Place(n) \in Nat
  /\ \A m, n \in Range(Names) : Place(m) = Place(n) => m = n
<1>1. ASSUME NEW n \in Range(Names) PROVE Place(n) \in Nat /\ Names[Place(n)] = n
  <2>1. \E i \in DOMAIN Names : Names[i] = n
    BY DEF Range
  <2>2. Place(n) \in DOMAIN Names /\ Names[Place(n)] = n
    BY <2>1 DEF Place
  <2> QED BY <2>2, NamesSequence
<1> QED BY <1>1

(* A file adds classes under names that are free.                             *)
LEMMA RegisteredIs ==
  ASSUME RegistryOK(registry), BuiltinsStay, NEW file \in PluginFiles
  PROVE  /\ RegistryOK(Registered(registry, file))
         /\ DOMAIN registry \subseteq DOMAIN Registered(registry, file)
<1> DEFINE reg == Registered(registry, file)
           new(n) == file[Min({i \in DOMAIN file : file[i].fullname = n})]
<1>1. file \in Seq(Classes) /\ DOMAIN file = 1..Len(file) /\ Len(file) \in Nat
  BY ClassesAssumption
<1>2. DOMAIN reg = DOMAIN registry \cup {c.fullname : c \in Range(file)}
  BY DEF Registered
<1>3. \A n \in DOMAIN reg : reg[n] = IF n \in DOMAIN registry THEN registry[n] ELSE new(n)
  BY DEF Registered
<1>4. ASSUME NEW n \in DOMAIN reg \ DOMAIN registry
      PROVE  new(n) \in Range(file) /\ new(n) \in Classes /\ new(n).fullname = n
  <2> DEFINE T == {i \in DOMAIN file : file[i].fullname = n}
  <2>1. T # {} /\ T \in SUBSET Nat
    BY <1>1, <1>2 DEF Range
  <2>2. Min(T) \in T
    <3> HIDE DEF T
    <3> QED BY <2>1, MinOf
  <2>3. Min(T) \in 1..Len(file) /\ file[Min(T)].fullname = n
    BY <1>1, <2>2
  <2>4. file[Min(T)] \in Classes /\ file[Min(T)] \in Range(file)
    <3> HIDE DEF T
    <3> QED BY <1>1, <2>3 DEF Range
  <2> QED BY <2>3, <2>4
<1> HIDE DEF reg, new
<1>5. \A n \in DOMAIN reg : reg[n] \in Classes /\ reg[n].fullname = n
  BY <1>3, <1>4 DEF RegistryOK
<1>6. ASSUME NEW n \in DOMAIN reg, n \in Planned PROVE Plannable(reg[n])
  <2>1. CASE n \in DOMAIN registry
    BY <1>3, <1>6, <2>1 DEF RegistryOK
  <2>2. CASE n \notin DOMAIN registry
    <3>1. PICK builtin \in Registries : \A c \in builtin : c.fullname \in DOMAIN registry
      BY DEF BuiltinsStay
    <3>2. new(n) \in Range(file) /\ new(n).fullname = n /\ reg[n] = new(n)
      BY <1>3, <1>4, <2>2
    <3>3. \A d \in builtin : d.fullname # new(n).fullname
      BY <2>2, <3>1, <3>2
    <3> QED BY <1>6, <3>2, <3>3, ClassesAssumption
  <2> QED BY <2>1, <2>2
<1>7. RegistryOK(reg)
  BY <1>5, <1>6 DEF RegistryOK
<1> QED BY <1>2, <1>7 DEF reg

(* What a search lists is registered.                                         *)
LEMMA SearchIs ==
  ASSUME RegistryOK(registry), NEW query
  PROVE  /\ Search(query) \in Seq(Classes)
         /\ \A i \in 1..Len(Search(query)) : Search(query)[i].fullname \in DOMAIN registry
<1> DEFINE S == {c \in {registry[n] : n \in DOMAIN registry} :
                   /\ query.category \in {"", c.category}
                   /\ c.rank >= query.rank
                   /\ query.terms \subseteq c.terms}
           Ahead(c, d) == \/ c.rank > d.rank
                          \/ c.rank = d.rank /\ Place(c.fullname) < Place(d.fullname)
           R == {p \in S \X S : Ahead(p[1], p[2])}
           f == Sorted(S, Ahead)
<1>1. Search(query) = f
  BY DEF Search
<1>2. \A c \in S : c \in Classes /\ c.fullname \in DOMAIN registry /\ c = registry[c.fullname]
  BY DEF RegistryOK
<1>3. \A c \in S : c.rank \in Nat /\ c.fullname \in Range(Names) /\ Place(c.fullname) \in Nat
  <2> HIDE DEF S
  <2> QED BY <1>2, ClassIs, Places
<1>4. \A c, d \in S : Place(c.fullname) = Place(d.fullname) => c = d
  <2> HIDE DEF S
  <2> QED BY <1>2, <1>3, Places
<1>5. IsFiniteSet(S)
  <2> DEFINE g == [c \in S |-> c.fullname]
  <2>1. g \in Injection(S, Range(Names))
    <3> HIDE DEF S
    <3> QED BY <1>2, <1>3 DEF Injection, IsInjective
  <2> HIDE DEF S, g
  <2> QED BY <2>1, NamesFinite, FS_Injection
<1>6. \A c, d \in S : <<c, d>> \in R <=> Ahead(c, d)
  OBVIOUS
<1> HIDE DEF S, R
<1>7. Irreflexive(S, R) /\ Transitive(S, R) /\ Total(S, R)
  <2>1. Irreflexive(S, R)
    BY <1>3, <1>6 DEF Irreflexive
  <2>2. Transitive(S, R)
    BY <1>3, <1>6 DEF Transitive
  <2>3. ASSUME NEW c \in S, NEW d \in S, c # d PROVE <<c, d>> \in R \/ <<d, c>> \in R
    <3>1. Place(c.fullname) # Place(d.fullname)
      BY <1>4, <2>3
    <3> QED BY <1>3, <1>6, <3>1
  <2>4. Total(S, R)
    BY <2>3 DEF Total
  <2> QED BY <2>1, <2>2, <2>4
<1>8. Ranks(f, S, R)
  <2>1. \A x \in S : Preceding(S, R, x) = {y \in S : Ahead(y, x)}
    BY <1>6 DEF Preceding
  <2>2. f = [k \in 1..Cardinality(S) |-> CHOOSE x \in S : Cardinality({y \in S : Ahead(y, x)}) = k - 1]
    BY DEF Sorted
  <2>3. ASSUME NEW k \in 1..Cardinality(S), NEW x \in S, Cardinality(Preceding(S, R, x)) = k - 1
        PROVE  f[k] \in S /\ Cardinality(Preceding(S, R, f[k])) = k - 1
    <3>1. Cardinality({y \in S : Ahead(y, x)}) = k - 1
      BY <2>1, <2>3
    <3>2. f[k] \in S /\ Cardinality({y \in S : Ahead(y, f[k])}) = k - 1
      BY <2>2, <3>1
    <3> QED BY <2>1, <3>2
  <2>4. f = [k \in 1..Cardinality(S) |-> f[k]]
    BY <2>2
  <2> HIDE DEF f
  <2> QED BY <2>3, <2>4 DEF Ranks
<1>9. Cardinality(S) \in Nat /\ f \in [1..Cardinality(S) -> S]
  BY <1>5, <1>7, <1>8, RankedIs, FS_CardinalityType DEF InOrder
<1>10. f \in Seq(S) /\ Len(f) = Cardinality(S)
  <2> HIDE DEF f
  <2> QED BY <1>9
<1> HIDE DEF f
<1>11. S \subseteq Classes /\ \A i \in 1..Len(f) : f[i] \in S
  BY <1>2, <1>9, <1>10
<1> QED BY <1>1, <1>2, <1>10, <1>11, SeqMonotonic

-------------------------------------------------------------------------------
(* The rows of a ledger, in the order of their priority.                      *)

LEMMA RowIs == \A r \in Rows : r.priority \in Nat
<1>1. ASSUME NEW host \in Addresses, NEW ports \in Views, NEW r \in ReportRows(host, ports)
      PROVE  r.priority \in Nat
  <2>1. PICK p \in Range(ports) :
          r \in UNION {{[target |-> host, port |-> p.port, cve |-> l.cve, priority |-> l.priority] :
                          l \in f.leads} : f \in p.fingerprints}
    BY DEF ReportRows
  <2>2. PICK f \in p.fingerprints :
          r \in {[target |-> host, port |-> p.port, cve |-> l.cve, priority |-> l.priority] : l \in f.leads}
    BY <2>1
  <2>3. PICK l \in f.leads :
          r = [target |-> host, port |-> p.port, cve |-> l.cve, priority |-> l.priority]
    BY <2>2
  <2>4. l.priority \in Nat
    BY ViewsAssumption
  <2> QED BY <2>3, <2>4
<1> QED BY <1>1 DEF Rows

LEMMA ByPriorityIs ==
  ASSUME NEW rows \in Seq(Rows)
  PROVE  /\ ByPriority(rows) \in Seq(Rows)
         /\ Len(ByPriority(rows)) = Len(rows)
         /\ Range(ByPriority(rows)) = Range(rows)
         /\ \A i, j \in DOMAIN ByPriority(rows) :
              i < j => ByPriority(rows)[i].priority >= ByPriority(rows)[j].priority
<1> DEFINE S == DOMAIN rows
           Ahead(i, j) == \/ rows[i].priority > rows[j].priority
                          \/ rows[i].priority = rows[j].priority /\ i < j
           R == {p \in S \X S : Ahead(p[1], p[2])}
           f == Sorted(S, Ahead)
           s == ByPriority(rows)
<1>1. s = [i \in S |-> rows[f[i]]]
  BY DEF ByPriority
<1>2. S = 1..Len(rows) /\ Len(rows) \in Nat
  OBVIOUS
<1>3. IsFiniteSet(S) /\ Cardinality(S) = Len(rows)
  BY <1>2, FS_Interval
<1>4. \A i \in S : rows[i] \in Rows /\ rows[i].priority \in Nat /\ i \in Nat
  BY <1>2, RowIs
<1>5. \A i, j \in S : <<i, j>> \in R <=> Ahead(i, j)
  OBVIOUS
<1> HIDE DEF S, R
<1>6. Irreflexive(S, R)
  BY <1>4, <1>5 DEF Irreflexive
<1>7. Transitive(S, R)
  BY <1>4, <1>5 DEF Transitive
<1>8. Total(S, R)
  <2>1. ASSUME NEW i \in S, NEW j \in S, i # j PROVE <<i, j>> \in R \/ <<j, i>> \in R
    BY <1>4, <1>5, <2>1
  <2> QED BY <2>1 DEF Total
<1>9. Ranks(f, S, R)
  <2>1. \A x \in S : Preceding(S, R, x) = {y \in S : Ahead(y, x)}
    BY <1>5 DEF Preceding
  <2>2. f = [k \in 1..Cardinality(S) |-> CHOOSE x \in S : Cardinality({y \in S : Ahead(y, x)}) = k - 1]
    BY DEF Sorted
  <2>3. ASSUME NEW k \in 1..Cardinality(S), NEW x \in S, Cardinality(Preceding(S, R, x)) = k - 1
        PROVE  f[k] \in S /\ Cardinality(Preceding(S, R, f[k])) = k - 1
    <3>1. Cardinality({y \in S : Ahead(y, x)}) = k - 1
      BY <2>1, <2>3
    <3>2. f[k] \in S /\ Cardinality({y \in S : Ahead(y, f[k])}) = k - 1
      BY <2>2, <3>1
    <3> QED BY <2>1, <3>2
  <2>4. f = [k \in 1..Cardinality(S) |-> f[k]]
    BY <2>2
  <2> HIDE DEF f
  <2> QED BY <2>3, <2>4 DEF Ranks
<1> HIDE DEF f
<1>10. InOrder(f, S, R)
  BY <1>3, <1>6, <1>7, <1>8, <1>9, RankedIs
<1>11. /\ \A i \in S : f[i] \in S
       /\ \A x \in S : \E k \in S : f[k] = x
       /\ \A j, k \in S : j < k => <<f[j], f[k]>> \in R
  <2>1. 1..Cardinality(S) = S
    BY <1>2, <1>3
  <2> QED BY <1>10, <2>1 DEF InOrder
<1> HIDE DEF s
<1>12. \A i \in S : s[i] \in Rows
  BY <1>1, <1>4, <1>11
<1>13. s \in Seq(Rows) /\ Len(s) = Len(rows) /\ DOMAIN s = S
  <2>1. s = [i \in 1..Len(rows) |-> s[i]]
    BY <1>1, <1>2
  <2>2. s \in [1..Len(rows) -> Rows]
    BY <2>1, <1>2, <1>12
  <2> QED BY <2>2, <1>2
<1>14. Range(s) = Range(rows)
  <2>1. Range(s) = {s[i] : i \in S} /\ Range(rows) = {rows[i] : i \in S}
    BY <1>13 DEF Range, S
  <2>2. ASSUME NEW i \in S PROVE s[i] \in {rows[k] : k \in S} /\ rows[i] \in {s[k] : k \in S}
    BY <1>1, <1>11
  <2> QED BY <2>1, <2>2
<1>15. ASSUME NEW i \in S, NEW j \in S, i < j PROVE s[i].priority >= s[j].priority
  <2>1. Ahead(f[i], f[j]) /\ s[i] = rows[f[i]] /\ s[j] = rows[f[j]] /\ f[i] \in S /\ f[j] \in S
    BY <1>1, <1>5, <1>11, <1>15
  <2> QED BY <1>4, <2>1
<1> QED BY <1>13, <1>14, <1>15 DEF s

-------------------------------------------------------------------------------
(* The rows that are kept of those reported.                                  *)

Less == {p \in Nat \X Nat : p[1] < p[2]}

LEMMA FirstHas ==
  ASSUME NEW rows \in Seq(Rows), NEW i \in 1..Len(rows)
  PROVE  \E j \in FirstOf(rows) : j <= i /\ Identity(rows[j]) = Identity(rows[i])
<1> DEFINE T == {j \in 1..i : Identity(rows[j]) = Identity(rows[i])}
<1>1. T \in SUBSET Nat /\ T # {}
  BY DEF T
<1>2. PICK j \in T : \A k \in T : j <= k
  <2> HIDE DEF T
  <2> QED BY <1>1, Least
<1>3. j \in 1..Len(rows) /\ j <= i /\ Identity(rows[j]) = Identity(rows[i])
  OBVIOUS
<1>4. ASSUME NEW k \in 1..(j - 1) PROVE Identity(rows[k]) # Identity(rows[j])
  <2>1. k \in 1..i /\ ~(j <= k)
    BY <1>3
  <2>2. k \notin T
    BY <1>2, <2>1
  <2> QED BY <1>3, <2>1, <2>2
<1> HIDE DEF T
<1> QED BY <1>3, <1>4 DEF FirstOf

LEMMA KeptCount ==
  ASSUME NEW rows \in Seq(Rows), NEW m \in 0..Len(rows)
  PROVE  LET first == FirstOf(rows) \cap (1..m)
             kept == KeptOf(rows) \cap (1..m)
         IN /\ IsFiniteSet(first) /\ IsFiniteSet(kept) /\ kept \subseteq first
            /\ Cardinality(first) <= MAX_LEDGER_ROWS => kept = first
            /\ Cardinality(first) >= MAX_LEDGER_ROWS => Cardinality(kept) = MAX_LEDGER_ROWS
<1> DEFINE F == FirstOf(rows)
           first == F \cap (1..m)
           kept == KeptOf(rows) \cap (1..m)
           MAX == MAX_LEDGER_ROWS
<1>1. MAX \in Nat
  BY ConsoleAssumption
<1>2. F \subseteq 1..Len(rows) /\ Len(rows) \in Nat /\ m \in Nat
  BY DEF FirstOf
<1>3. IsFiniteSet(1..m)
  BY <1>2, FS_Interval
<1>4. first \in SUBSET (1..m) /\ kept \in SUBSET first
  BY DEF KeptOf
<1>5. IsFiniteSet(first) /\ IsFiniteSet(kept)
  <2> HIDE DEF first, kept
  <2> QED BY <1>3, <1>4, FS_Subset
<1>6. kept = Firsts(first, Less, MAX)
  <2>1. ASSUME NEW i \in first PROVE Preceding(first, Less, i) = {j \in F : j < i}
    <3>1. \A j \in first : <<j, i>> \in Less <=> j < i
      BY <1>2 DEF Less
    <3>2. \A j \in F : j < i => j \in first
      BY <1>2
    <3> QED BY <3>1, <3>2 DEF Preceding
  <2>2. \A i \in first : i \in kept <=> Cardinality({j \in F : j < i}) < MAX
    BY DEF KeptOf
  <2>3. \A i \in first : i \in kept <=> Cardinality(Preceding(first, Less, i)) < MAX
    BY <2>1, <2>2
  <2> HIDE DEF kept, first
  <2> QED BY <1>4, <2>3 DEF Firsts
<1>7. Irreflexive(first, Less) /\ Transitive(first, Less) /\ Total(first, Less)
  <2>1. first \subseteq Nat
    BY <1>4
  <2>2. \A i, j \in first : <<i, j>> \in Less <=> i < j
    BY <2>1 DEF Less
  <2> HIDE DEF first
  <2>3. Irreflexive(first, Less)
    BY <2>1, <2>2 DEF Irreflexive
  <2>4. Transitive(first, Less)
    BY <2>1, <2>2 DEF Transitive
  <2>5. ASSUME NEW i \in first, NEW j \in first, i # j PROVE <<i, j>> \in Less \/ <<j, i>> \in Less
    <3>1. i \in Nat /\ j \in Nat
      BY <2>1
    <3> QED BY <2>2, <2>5, <3>1
  <2>6. Total(first, Less)
    BY <2>5 DEF Total
  <2> QED BY <2>3, <2>4, <2>6
<1> HIDE DEF first, kept, MAX
<1>8. Cardinality(first) <= MAX => kept = first
  BY <1>1, <1>5, <1>6, <1>7, FirstsOfFew
<1>9. Cardinality(first) >= MAX => Cardinality(kept) = MAX
  <2>1. Cardinality(first) \in Nat
    BY <1>5, FS_CardinalityType
  <2> QED BY <1>1, <1>5, <1>6, <1>7, <2>1, FirstsCount
<1> QED BY <1>4, <1>5, <1>8, <1>9 DEF first, kept, MAX, F

-------------------------------------------------------------------------------
(* The merge of a report into a ledger, row by row.                           *)

(* The ledger that the first m of the rows make. *)
Holds(ledger, rows, m) ==
  LET kept == KeptOf(rows) \cap (1..m)
  IN /\ ledger \in Seq(Rows)
     /\ Range(ledger) = {rows[i] : i \in kept}
     /\ Len(ledger) = Cardinality(kept)

LEMMA WithRowHolds ==
  ASSUME NEW rows \in Seq(Rows), NEW m \in Nat, m + 1 <= Len(rows), NEW ledger,
         Holds(ledger, rows, m)
  PROVE  Holds(WithRow(ledger, rows[m + 1]), rows, m + 1)
<1> DEFINE F == FirstOf(rows)
           first == F \cap (1..m)
           kept == KeptOf(rows) \cap (1..m)
           now == KeptOf(rows) \cap (1..(m + 1))
           k == m + 1
           row == rows[k]
           MAX == MAX_LEDGER_ROWS
<1>1. MAX \in Nat /\ m \in 0..Len(rows) /\ k \in 1..Len(rows) /\ m \in Nat /\ k \in Nat
  BY ConsoleAssumption
<1>2. /\ ledger \in Seq(Rows)
      /\ Range(ledger) = {rows[i] : i \in kept}
      /\ Len(ledger) = Cardinality(kept)
  BY DEF Holds
<1>3. /\ IsFiniteSet(first) /\ IsFiniteSet(kept) /\ kept \subseteq first
      /\ Cardinality(first) <= MAX => kept = first
      /\ Cardinality(first) >= MAX => Cardinality(kept) = MAX
  BY <1>1, KeptCount
<1>4. Cardinality(first) \in Nat /\ Cardinality(kept) \in Nat
  <2> HIDE DEF first, kept
  <2> QED BY <1>3, FS_CardinalityType
<1>5. row \in Rows
  BY <1>1
<1>6. k \in KeptOf(rows) <=> k \in F /\ Cardinality(first) < MAX
  <2>1. F \subseteq Nat \ {0}
    BY DEF FirstOf
  <2>2. {j \in F : j < k} = first
    <3>1. \A j \in F : j < k <=> j \in 1..m
      <4> HIDE DEF F
      <4> QED BY <1>1, <2>1
    <3> HIDE DEF F
    <3> QED BY <3>1
  <2> QED BY <2>2 DEF KeptOf
<1>7. now = IF k \in KeptOf(rows) THEN kept \cup {k} ELSE kept
  <2>1. 1..k = (1..m) \cup {k}
    BY <1>1
  <2> QED BY <2>1
<1>8. k \notin kept
  BY <1>1
<1> DEFINE known == \E s \in Range(ledger) : Identity(s) = Identity(row)
<1>9. CASE known
  <2>1. PICK i \in kept : Identity(rows[i]) = Identity(row)
    BY <1>2, <1>9
  <2>2. k \notin F
    BY <1>1, <2>1 DEF FirstOf
  <2>3. now = kept /\ WithRow(ledger, row) = ledger
    BY <1>6, <1>7, <1>9, <2>2 DEF WithRow
  <2> HIDE DEF now, kept
  <2> QED BY <1>2, <2>3 DEF Holds, now
<1>10. CASE ~known /\ Len(ledger) >= MAX
  <2>1. Cardinality(first) >= MAX
    <3>1. Cardinality(kept) >= MAX
      BY <1>2, <1>10
    <3>2. Cardinality(first) < MAX => Cardinality(kept) = Cardinality(first)
      <4> HIDE DEF kept, first, MAX
      <4> QED BY <1>1, <1>3, <1>4
    <3> HIDE DEF kept, first, MAX
    <3> QED BY <1>1, <1>4, <3>1, <3>2
  <2>2. ~(Cardinality(first) < MAX)
    <3> HIDE DEF kept, first, MAX
    <3> QED BY <1>1, <1>4, <2>1
  <2>3. now = kept /\ WithRow(ledger, row) = ledger
    BY <1>6, <1>7, <1>10, <2>2 DEF WithRow
  <2> HIDE DEF now, kept
  <2> QED BY <1>2, <2>3 DEF Holds, now
<1>11. CASE ~known /\ ~(Len(ledger) >= MAX)
  <2>1. Cardinality(first) < MAX
    <3>1. Cardinality(kept) < MAX
      <4> HIDE DEF kept, MAX
      <4> QED BY <1>1, <1>2, <1>4, <1>11
    <3> HIDE DEF kept, first, MAX
    <3> QED BY <1>1, <1>3, <1>4, <3>1
  <2>2. kept = first
    <3> HIDE DEF kept, first, MAX
    <3> QED BY <1>1, <1>3, <1>4, <2>1
  <2>3. k \in F
    <3>1. PICK j \in F : j <= k /\ Identity(rows[j]) = Identity(row)
      BY <1>1, FirstHas
    <3>2. CASE j = k
      BY <3>2
    <3>3. CASE j # k
      <4>1. j \in 1..m
        BY <1>1, <3>1, <3>3 DEF FirstOf
      <4>2. j \in kept
        BY <2>2, <4>1
      <4>3. rows[j] \in Range(ledger)
        <5> HIDE DEF kept
        <5> QED BY <1>2, <4>2
      <4> QED BY <1>11, <3>1, <4>3
    <3> QED BY <3>2, <3>3
  <2>4. now = kept \cup {k}
    BY <1>6, <1>7, <2>1, <2>3
  <2>5. WithRow(ledger, row) = Append(ledger, row)
    BY <1>11 DEF WithRow
  <2>6. Append(ledger, row) \in Seq(Rows)
    BY <1>2, <1>5
  <2>7. Len(Append(ledger, row)) = Cardinality(now)
    <3>1. Cardinality(now) = Cardinality(kept) + 1
      <4> HIDE DEF now, kept
      <4> QED BY <1>3, <1>8, <2>4, FS_AddElement
    <3> HIDE DEF now, kept
    <3> QED BY <1>2, <1>5, <3>1
  <2>8. Range(Append(ledger, row)) = Range(ledger) \cup {row}
    <3> HIDE DEF row
    <3>1. /\ Len(ledger) \in Nat /\ DOMAIN ledger = 1..Len(ledger)
          /\ DOMAIN Append(ledger, row) = 1..(Len(ledger) + 1)
          /\ \A i \in 1..Len(ledger) : Append(ledger, row)[i] = ledger[i]
          /\ Append(ledger, row)[Len(ledger) + 1] = row
      <4>1. Len(ledger) \in Nat /\ DOMAIN ledger = 1..Len(ledger)
        BY <1>2
      <4>2. /\ Append(ledger, row) \in Seq(Rows) /\ Len(Append(ledger, row)) = Len(ledger) + 1
            /\ \A i \in 1..Len(ledger) : Append(ledger, row)[i] = ledger[i]
            /\ Append(ledger, row)[Len(ledger) + 1] = row
        <5>1. ledger \in Seq(Rows) /\ row \in Rows
          BY <1>2, <1>5
        <5> HIDE DEF k, MAX, kept, known, first, F
        <5> QED BY ONLY <5>1, AppendProperties
      <4>3. DOMAIN Append(ledger, row) = 1..Len(Append(ledger, row))
        BY <4>2
      <4> QED BY <4>1, <4>2, <4>3
    <3>2. 1..(Len(ledger) + 1) = (1..Len(ledger)) \cup {Len(ledger) + 1}
      BY <3>1
    <3>3. ASSUME NEW x \in Range(Append(ledger, row)) PROVE x \in Range(ledger) \cup {row}
      <4>1. PICK i \in 1..(Len(ledger) + 1) : x = Append(ledger, row)[i]
        BY <3>1 DEF Range
      <4> QED BY <3>1, <3>2, <4>1 DEF Range
    <3>4. ASSUME NEW x \in Range(ledger) \cup {row} PROVE x \in Range(Append(ledger, row))
      <4>1. CASE x = row
        <5>1. Len(ledger) + 1 \in DOMAIN Append(ledger, row)
          BY <3>1
        <5> QED BY <3>1, <4>1, <5>1 DEF Range
      <4>2. CASE x \in Range(ledger)
        <5>1. PICK i \in 1..Len(ledger) : x = ledger[i]
          BY <3>1, <4>2 DEF Range
        <5>2. i \in DOMAIN Append(ledger, row)
          BY <3>1
        <5> QED BY <3>1, <5>1, <5>2 DEF Range
      <4> QED BY <4>1, <4>2
    <3> QED BY <3>3, <3>4
  <2>9. {rows[i] : i \in now} = {rows[i] : i \in kept} \cup {row}
    <3> HIDE DEF now, kept
    <3> QED BY <2>4
  <2> HIDE DEF now, kept
  <2> QED BY <1>2, <2>5, <2>6, <2>7, <2>8, <2>9 DEF Holds, now
<1> QED BY <1>9, <1>10, <1>11

IsMerge(g, ledger, rows, n) ==
  g = [i \in 0..n |-> IF i = 0 THEN ledger ELSE WithRow(g[i - 1], rows[i])]

LEMMA MergeExists ==
  ASSUME NEW ledger, NEW rows, NEW n \in Nat
  PROVE  \E g : IsMerge(g, ledger, rows, n)
<1> DEFINE A == {i \in Nat : \E g : IsMerge(g, ledger, rows, i)}
<1>1. 0 \in A
  <2> DEFINE g == [i \in 0..0 |-> ledger]
  <2>1. g = [i \in 0..0 |-> IF i = 0 THEN ledger ELSE WithRow(g[i - 1], rows[i])]
    OBVIOUS
  <2>2. IsMerge(g, ledger, rows, 0)
    <3> HIDE DEF g
    <3> QED BY <2>1, Zenon DEF IsMerge
  <2> QED BY <2>2
<1>2. ASSUME NEW i \in Nat, i \in A PROVE i + 1 \in A
  <2>1. PICK g : IsMerge(g, ledger, rows, i)
    BY <1>2
  <2> DEFINE h == [j \in 0..(i + 1) |-> IF j <= i THEN g[j] ELSE WithRow(g[i], rows[i + 1])]
  <2>2. \A j \in 0..i : h[j] = IF j = 0 THEN ledger ELSE WithRow(h[j - 1], rows[j])
    <3>1. \A j \in 0..i : g[j] = IF j = 0 THEN ledger ELSE WithRow(g[j - 1], rows[j])
      BY <2>1, Zenon DEF IsMerge
    <3>2. \A j \in 0..i : h[j] = g[j] /\ (j # 0 => h[j - 1] = g[j - 1])
      OBVIOUS
    <3> HIDE DEF h
    <3> QED BY <3>1, <3>2
  <2>3. h[i + 1] = WithRow(h[i], rows[i + 1])
    OBVIOUS
  <2>4. h = [j \in 0..(i + 1) |-> IF j = 0 THEN ledger ELSE WithRow(h[j - 1], rows[j])]
    <3>1. \A j \in 0..(i + 1) : h[j] = IF j = 0 THEN ledger ELSE WithRow(h[j - 1], rows[j])
      <4> SUFFICES ASSUME NEW j \in 0..(i + 1)
                   PROVE  h[j] = IF j = 0 THEN ledger ELSE WithRow(h[j - 1], rows[j])
        OBVIOUS
      <4>1. j \in 0..i \/ j = i + 1
        OBVIOUS
      <4>2. j = i + 1 => j # 0 /\ j - 1 = i
        OBVIOUS
      <4> HIDE DEF h
      <4> QED BY <2>2, <2>3, <4>1, <4>2
    <3>2. h = [j \in 0..(i + 1) |-> h[j]]
      OBVIOUS
    <3> HIDE DEF h
    <3> QED BY <3>1, <3>2
  <2>5. IsMerge(h, ledger, rows, i + 1)
    <3> HIDE DEF h
    <3> QED BY <2>4, Zenon DEF IsMerge
  <2> QED BY <2>5
<1>3. Nat \subseteq A
  <2> HIDE DEF A
  <2> QED BY <1>1, <1>2, Induction
<1> QED BY <1>3

LEMMA MergeRuns ==
  ASSUME NEW ledger, NEW rows, Len(rows) \in Nat
  PROVE  \E g : /\ g[0] = ledger
                /\ \A i \in 1..Len(rows) : g[i] = WithRow(g[i - 1], rows[i])
                /\ MergeLedger(ledger, rows) = ByPriority(g[Len(rows)])
<1> DEFINE g == CHOOSE g : IsMerge(g, ledger, rows, Len(rows))
<1>1. IsMerge(g, ledger, rows, Len(rows))
  BY MergeExists
<1>2. MergeLedger(ledger, rows) = ByPriority(g[Len(rows)])
  BY Zenon DEF MergeLedger, IsMerge
<1>3. g[0] = ledger /\ \A i \in 1..Len(rows) : g[i] = WithRow(g[i - 1], rows[i])
  <2>1. \A i \in 0..Len(rows) : g[i] = IF i = 0 THEN ledger ELSE WithRow(g[i - 1], rows[i])
    <3> HIDE DEF g
    <3> QED BY <1>1, Zenon DEF IsMerge
  <2> HIDE DEF g
  <2> QED BY <2>1
<1> HIDE DEF g
<1> QED BY <1>2, <1>3

(* A ledger that is the worklist of what was reported is, with a report       *)
(* merged, the worklist of that and the report.                               *)
LEMMA MergeIsWorklist ==
  ASSUME NEW rows \in Seq(Rows), NEW ledger \in Seq(Rows), Worklist(rows, ledger),
         NEW report \in Seq(Rows)
  PROVE  /\ MergeLedger(ledger, report) \in Seq(Rows)
         /\ Worklist(rows \o report, MergeLedger(ledger, report))
<1> DEFINE all == rows \o report
           n == Len(rows)
           k == Len(report)
<1>1. n \in Nat /\ k \in Nat /\ all \in Seq(Rows) /\ Len(all) = n + k
  OBVIOUS
<1>2. /\ \A i \in 1..n : all[i] = rows[i]
      /\ \A i \in 1..k : all[n + i] = report[i]
  <2>1. ASSUME NEW i \in 1..k PROVE all[n + i] = report[i]
    <3>1. n + i \in 1..(n + k) /\ ~(n + i <= n) /\ (n + i) - n = i
      BY <1>1
    <3> QED BY <3>1, ConcatProperties
  <2>2. ASSUME NEW i \in 1..n PROVE all[i] = rows[i]
    <3>1. i \in 1..(n + k) /\ i <= n
      BY <1>1
    <3> QED BY <3>1, ConcatProperties
  <2> QED BY <2>1, <2>2
<1>3. DOMAIN all = 1..(n + k) /\ DOMAIN rows = 1..n
  BY <1>1
<1> HIDE DEF all
<1>4. FirstOf(rows) = FirstOf(all) \cap (1..n)
  <2>1. ASSUME NEW i \in 1..n PROVE i \in FirstOf(rows) <=> i \in FirstOf(all)
    <3>1. i \in DOMAIN all /\ i \in DOMAIN rows /\ \A j \in 1..(i - 1) : j \in 1..n
      BY <1>1, <1>3
    <3>2. \A j \in 1..(i - 1) : all[j] = rows[j]
      BY <1>2, <3>1
    <3>3. all[i] = rows[i]
      BY <1>2
    <3> QED BY <3>1, <3>2, <3>3 DEF FirstOf
  <2>2. FirstOf(rows) \subseteq 1..n
    BY <1>3 DEF FirstOf
  <2> QED BY <2>1, <2>2
<1>5. KeptOf(rows) = KeptOf(all) \cap (1..n)
  <2>1. FirstOf(all) \subseteq Nat \ {0}
    BY <1>1, <1>3 DEF FirstOf
  <2>2. ASSUME NEW i \in 1..n PROVE {j \in FirstOf(rows) : j < i} = {j \in FirstOf(all) : j < i}
    BY <1>1, <1>4, <2>1
  <2>3. ASSUME NEW i \in 1..n PROVE i \in KeptOf(rows) <=> i \in KeptOf(all)
    BY <1>4, <2>2 DEF KeptOf
  <2>4. KeptOf(rows) \subseteq 1..n
    BY <1>4 DEF KeptOf
  <2> QED BY <2>3, <2>4
<1>6. Holds(ledger, all, n)
  <2>1. \A i \in KeptOf(rows) : rows[i] = all[i]
    BY <1>2, <1>5
  <2>2. {rows[i] : i \in KeptOf(rows)} = {all[i] : i \in KeptOf(rows)}
    BY <2>1
  <2>3. Range(ledger) = {all[i] : i \in KeptOf(rows)} /\ Len(ledger) = Cardinality(KeptOf(rows))
    BY <2>2 DEF Worklist
  <2> QED BY <1>5, <2>3 DEF Holds
<1>7. PICK g : /\ g[0] = ledger
               /\ \A i \in 1..k : g[i] = WithRow(g[i - 1], report[i])
               /\ MergeLedger(ledger, report) = ByPriority(g[k])
  BY <1>1, MergeRuns
<1> DEFINE A == {i \in Nat : i <= k => Holds(g[i], all, n + i)}
<1>8. 0 \in A
  <2>1. n + 0 = n
    BY <1>1
  <2> QED BY <1>6, <1>7, <2>1
<1>9. ASSUME NEW i \in Nat, i \in A PROVE i + 1 \in A
  <2>1. SUFFICES ASSUME i + 1 <= k PROVE Holds(g[i + 1], all, n + (i + 1))
    OBVIOUS
  <2>2. i + 1 \in 1..k /\ (i + 1) - 1 = i /\ n + (i + 1) = (n + i) + 1 /\ n + i \in Nat
        /\ (n + i) + 1 <= Len(all) /\ i <= k
    BY <1>1, <2>1
  <2>3. Holds(g[i], all, n + i)
    BY <1>9, <2>2
  <2>4. g[i + 1] = WithRow(g[i], all[(n + i) + 1])
    BY <1>2, <1>7, <2>2
  <2> HIDE DEF A, n, k
  <2> QED BY <1>1, <2>2, <2>3, <2>4, WithRowHolds
<1>10. Nat \subseteq A
  <2> HIDE DEF A
  <2> QED BY <1>8, <1>9, Induction
<1>11. Holds(g[k], all, n + k)
  BY <1>1, <1>10
<1>12. /\ g[k] \in Seq(Rows) /\ Range(g[k]) = {all[i] : i \in KeptOf(all)}
       /\ Len(g[k]) = Cardinality(KeptOf(all))
  <2>1. KeptOf(all) \cap (1..(n + k)) = KeptOf(all)
    BY <1>3 DEF KeptOf, FirstOf
  <2> QED BY <1>11, <2>1 DEF Holds
<1> DEFINE new == ByPriority(g[k])
<1>13. /\ new \in Seq(Rows) /\ Len(new) = Len(g[k]) /\ Range(new) = Range(g[k])
       /\ \A i, j \in DOMAIN new : i < j => new[i].priority >= new[j].priority
  BY <1>12, ByPriorityIs
<1> HIDE DEF new
<1>14. Worklist(all, new)
  BY <1>12, <1>13 DEF Worklist
<1> QED BY <1>7, <1>13, <1>14 DEF all, new

(* As long as a ledger has room, every lead that was reported is in it.       *)
LEMMA LeadIsListed ==
  ASSUME NEW rows \in Seq(Rows), NEW ledger \in Seq(Rows), Worklist(rows, ledger),
         Len(ledger) # MAX_LEDGER_ROWS, NEW i \in 1..Len(rows)
  PROVE  \E r \in Range(ledger) : r.cve = rows[i].cve
<1> DEFINE n == Len(rows)
           MAX == MAX_LEDGER_ROWS
           first == FirstOf(rows) \cap (1..n)
           kept == KeptOf(rows) \cap (1..n)
<1>1. n \in 0..Len(rows) /\ MAX \in Nat
  BY ConsoleAssumption
<1>2. /\ IsFiniteSet(first) /\ IsFiniteSet(kept) /\ kept \subseteq first
      /\ Cardinality(first) <= MAX => kept = first
      /\ Cardinality(first) >= MAX => Cardinality(kept) = MAX
  BY <1>1, KeptCount
<1>3. FirstOf(rows) = first /\ KeptOf(rows) = kept
  BY DEF FirstOf, KeptOf
<1>4. Cardinality(kept) # MAX
  BY <1>3 DEF Worklist
<1>5. Cardinality(first) \in Nat
  <2> HIDE DEF first
  <2> QED BY <1>2, FS_CardinalityType
<1>6. kept = first
  <2> HIDE DEF kept, first, MAX
  <2> QED BY <1>1, <1>2, <1>4, <1>5
<1>7. PICK j \in FirstOf(rows) : Identity(rows[j]) = Identity(rows[i])
  BY FirstHas
<1>8. rows[j] \in Range(ledger)
  BY <1>3, <1>6, <1>7 DEF Worklist
<1>9. rows[j].cve = rows[i].cve
  BY <1>7 DEF Identity
<1> QED BY <1>8, <1>9

(* A report has every lead of the host.                                       *)
LEMMA ReportIs ==
  ASSUME NEW host \in Addresses, NEW ports \in Views, NEW report \in Reports(host, ports)
  PROVE  /\ report \in Seq(Rows)
         /\ \A p \in Range(ports) : \A f \in p.fingerprints : \A l \in f.leads :
              \E i \in 1..Len(report) : report[i].cve = l.cve
<1> DEFINE S == ReportRows(host, ports)
           n == Cardinality(S)
<1>1. IsFiniteSet(S)
  BY ViewsAssumption
<1>2. n \in Nat
  BY <1>1, FS_CardinalityType
<1>3. report \in [1..n -> S] /\ \A i, j \in 1..n : i # j => report[i] # report[j]
  BY DEF Reports, SetToSeqs
<1> HIDE DEF S
<1>4. report \in Injection(1..n, S)
  BY <1>3 DEF Injection, IsInjective
<1>5. Cardinality(1..n) = n
  BY <1>2, FS_Interval
<1>6. report \in Surjection(1..n, S)
  BY <1>1, <1>4, <1>5, FS_Injection
<1>7. S \subseteq Rows
  BY DEF Rows, S
<1>8. report \in Seq(Rows) /\ Len(report) = n
  BY <1>2, <1>3, <1>7
<1>9. ASSUME NEW p \in Range(ports), NEW f \in p.fingerprints, NEW l \in f.leads
      PROVE  \E i \in 1..Len(report) : report[i].cve = l.cve
  <2> DEFINE r == [target |-> host, port |-> p.port, cve |-> l.cve, priority |-> l.priority]
  <2>1. r \in S
    BY DEF S, ReportRows
  <2>2. r.cve = l.cve
    OBVIOUS
  <2> HIDE DEF r
  <2>3. PICK i \in 1..n : report[i] = r
    BY <1>6, <2>1 DEF Surjection
  <2> QED BY <1>8, <2>2, <2>3
<1> QED BY <1>8, <1>9

-------------------------------------------------------------------------------
(* The lines of a plan.                                                       *)

LEMMA PlannedAre ==
  /\ \A g \in Gaps : ModuleForGap[g] \in Planned
  /\ "handoff" \notin Planned
<1>1. \A g \in Gaps : ModuleForGap[g] \in Planned
  BY DEF Planned, ModuleForGap, Range
<1>2. DOMAIN ModuleForGap = Gaps
  BY DEF ModuleForGap
<1>3. ASSUME NEW g \in Gaps PROVE ModuleForGap[g] # "handoff"
  <2>1. \/ g \in {"NO_SERVICE", "NO_FINGERPRINT"} \/ g \in {"AMBIGUOUS_VERSION", "BELOW_FLOOR"}
        \/ g = "NO_WEB_FINGERPRINT" \/ g = "FILTERED_PORT"
    BY DEF Gaps
  <2>2. ModuleForGap[g] \in {"recon/fingerprint/banner_probe", "recon/fingerprint/deep_probe",
                             "recon/http/app_fingerprint", "recon/discovery/connect_sweep"}
    BY <2>1 DEF ModuleForGap, Gaps
  <2> QED BY <2>2
<1> QED BY <1>1, <1>2, <1>3 DEF Planned, Range

LEMMA PlanIs ==
  ASSUME NEW node, NEW r \in Plan(node)
  PROVE  /\ r.module # <<>> => \E g \in Gaps : r.module = Assign(g)
         /\ r.action = "handoff" => \E l \in node.leads : r.cve = l.cve
<1> DEFINE ports == node.ports
<1>1. \A g \in Gaps : RunModule(g).action = "run_module" /\ RunModule(g).module = Assign(g)
  <2>1. ASSUME NEW g \in Gaps
        PROVE  RunModule(g).action = "run_module" /\ RunModule(g).module = Assign(g)
    <3> DEFINE m == Assign(g)
               rec == [gap |-> g, action |-> "run_module", module |-> m, cve |-> ""]
    <3>1. RunModule(g) = rec
      BY DEF RunModule
    <3>2. rec.action = "run_module" /\ rec.module = m
      <4> HIDE DEF m
      <4> QED OBVIOUS
    <3> HIDE DEF rec
    <3> QED BY <3>1, <3>2
  <2> QED BY <2>1
<1>2. CASE r \in PortGaps(ports)
  <2>1. \E g \in Gaps : r = RunModule(g)
    BY <1>2 DEF PortGaps, Gaps
  <2> QED BY <1>1, <2>1
<1>3. CASE r \in FingerprintGaps(ports)
  <2> DEFINE services == {p \in Range(ports) : p.service}
             fps == UNION {p.fingerprints : p \in services}
             m == Assign("AMBIGUOUS_VERSION")
             conflict == [gap |-> "CONTRADICTION", action |-> "resolve_conflict",
                          module |-> m, cve |-> ""]
             submit == [gap |-> "UNCORROBORATED", action |-> "submit_independent_evidence",
                        module |-> <<>>, cve |-> ""]
  <2>1. r \in {RunModule("NO_WEB_FINGERPRINT"), conflict, RunModule("AMBIGUOUS_VERSION"),
              RunModule("BELOW_FLOOR"), submit}
    BY <1>3 DEF FingerprintGaps
  <2>2. \/ \E g \in Gaps : r = RunModule(g)
        \/ r \in {conflict, submit}
    <3> HIDE DEF conflict, submit
    <3> QED BY <2>1 DEF Gaps
  <2>3. /\ conflict.action = "resolve_conflict" /\ submit.action = "submit_independent_evidence"
        /\ conflict.module = m /\ submit.module = <<>>
    <3> HIDE DEF m
    <3> QED OBVIOUS
  <2>4. "AMBIGUOUS_VERSION" \in Gaps
    BY DEF Gaps
  <2> HIDE DEF conflict, submit
  <2> QED BY <1>1, <2>2, <2>3, <2>4
<1>4. CASE r \in LeadActions(node.leads)
  BY <1>4 DEF LeadActions
<1> QED BY <1>2, <1>3, <1>4 DEF Plan

LEMMA PrintedIs ==
  ASSUME NEW node, NEW host, NEW line \in Printed(Plan(node), host)
  PROVE  \/ \E n \in Planned \cap DOMAIN registry : line = [what |-> n, on |-> host]
         \/ \E l \in node.leads : line = [what |-> "handoff", on |-> l.cve]
<1>1. CASE line \in {[what |-> r.module[1], on |-> host] : r \in {s \in Plan(node) : s.module # <<>>}}
  <2>1. PICK r \in Plan(node) : r.module # <<>> /\ line = [what |-> r.module[1], on |-> host]
    BY <1>1
  <2>2. PICK g \in Gaps : r.module = Assign(g)
    BY <2>1, PlanIs
  <2>3. ModuleForGap[g] \in DOMAIN registry /\ r.module[1] = ModuleForGap[g]
    BY <2>1, <2>2 DEF Assign
  <2> QED BY <2>1, <2>3, PlannedAre
<1>2. CASE line \in {[what |-> "handoff", on |-> r.cve] :
                       r \in {s \in Plan(node) : s.module = <<>> /\ s.action = "handoff"}}
  <2>1. PICK r \in Plan(node) : r.action = "handoff" /\ line = [what |-> "handoff", on |-> r.cve]
    BY <1>2
  <2>2. PICK l \in node.leads : r.cve = l.cve
    BY <2>1, PlanIs
  <2> QED BY <2>1, <2>2
<1> QED BY <1>1, <1>2 DEF Printed

-------------------------------------------------------------------------------
(* Instances of modules.                                                      *)

LEMMA CreateIs ==
  ASSUME NEW c \in Classes
  PROVE  /\ Instance(Create(c))
         /\ Create(c).class = c
         /\ Create(c).values = [o \in DOMAIN c.options |-> c.options[o].default]
<1> DEFINE m == Create(c)
           v == [o \in DOMAIN c.options |-> c.options[o].default]
<1>1. m = [class |-> c, values |-> v]
  BY DEF Create, Default
<1>2. m.class = c /\ m.values = v /\ m = [class |-> m.class, values |-> m.values]
  <2> HIDE DEF v
  <2> QED BY <1>1
<1>3. m.values = [o \in DOMAIN m.class.options |-> m.values[o]]
  BY <1>2
<1>4. "RHOST" \in DOMAIN m.class.options =>
        m.values["RHOST"] \in {<<>>} \cup {<<x>> : x \in Addresses}
  <2>1. ASSUME "RHOST" \in DOMAIN c.options PROVE v["RHOST"] = c.options["RHOST"].default
    BY <2>1
  <2> HIDE DEF v, m
  <2> QED BY <1>2, <2>1, ClassIs
<1> HIDE DEF m, v
<1>5. Instance(m)
  BY <1>2, <1>3, <1>4 DEF Instance
<1> QED BY <1>2, <1>5 DEF m, v

(* An option takes what it accepts.                                           *)
LEMMA SetIs ==
  ASSUME NEW m, Instance(m), NEW o \in DOMAIN m.values, NEW x,
         o = "RHOST" => x \in {<<>>} \cup {<<a>> : a \in Addresses}
  PROVE  LET new == [m EXCEPT !.values[o] = x]
         IN /\ Instance(new)
            /\ new.class = m.class
            /\ new.values = [m.values EXCEPT ![o] = x]
<1> DEFINE new == [m EXCEPT !.values[o] = x]
           v == [m.values EXCEPT ![o] = x]
<1>1. m = [class |-> m.class, values |-> m.values]
  BY DEF Instance
<1>2. new = [class |-> m.class, values |-> v]
  BY <1>1
<1>3. new.class = m.class /\ new.values = v /\ new = [class |-> new.class, values |-> new.values]
  <2> HIDE DEF v, new
  <2> QED BY <1>2
<1>4. /\ v = [p \in DOMAIN m.values |-> v[p]]
      /\ DOMAIN m.values = DOMAIN m.class.options
      /\ \A p \in DOMAIN m.values : v[p] = IF p = o THEN x ELSE m.values[p]
  <2>1. m.values = [p \in DOMAIN m.class.options |-> m.values[p]]
    BY DEF Instance
  <2>2. DOMAIN m.values = DOMAIN m.class.options
    BY <2>1
  <2> QED BY <2>2
<1> HIDE DEF new, v
<1>5. "RHOST" \in DOMAIN new.class.options =>
        new.values["RHOST"] \in {<<>>} \cup {<<a>> : a \in Addresses}
  BY <1>3, <1>4 DEF Instance
<1>6. Instance(new)
  BY <1>3, <1>4, <1>5 DEF Instance
<1> QED BY <1>3, <1>6 DEF new, v

-------------------------------------------------------------------------------
(* What a step keeps.                                                         *)

Grows ==
  /\ DOMAIN registry \subseteq DOMAIN registry'
  /\ DOMAIN workspaces \subseteq DOMAIN workspaces'
  /\ failed \subseteq failed'
  /\ \A n \in DOMAIN workspaces : \A cve : IsReported(n, cve) => IsReported(n, cve)'

LEMMA NothingMoves ==
  ASSUME UNCHANGED <<registry, workspaces, reported, failed>>
  PROVE  Grows
BY DEF Grows, IsReported

LEMMA CopyStays ==
  ASSUME NEW copy, CopyOK(copy), Grows
  PROVE  CopyOK(copy)'
BY DEF CopyOK, Grows

LEMMA CopiedStays ==
  ASSUME LinesOK, Grows, UNCHANGED copied
  PROVE  (copied # <<>> => CopyOK(copied))'
<1>1. PICK c : c = copied
  OBVIOUS
<1>2. c # <<>> => CopyOK(c)'
  BY <1>1, CopyStays DEF LinesOK
<1> QED BY <1>1, <1>2 DEF CopyOK

LEMMA DoingStays ==
  ASSUME CopyOK(doing), Grows, UNCHANGED doing
  PROVE  CopyOK(doing)'
<1>1. PICK c : c = doing
  OBVIOUS
<1>2. CopyOK(c)'
  BY <1>1, CopyStays
<1> QED BY <1>1, <1>2 DEF CopyOK

LEMMA SearchStays ==
  ASSUME SearchOK, UNCHANGED lastSearch, DOMAIN registry \subseteq DOMAIN registry'
  PROVE  SearchOK'
BY DEF SearchOK

LEMMA RegistryStays ==
  ASSUME RegistryOK(registry), BuiltinsStay, UNCHANGED registry
  PROVE  RegistryOK(registry)' /\ BuiltinsStay'
BY DEF RegistryOK, BuiltinsStay

LEMMA ModuleStays ==
  ASSUME ModuleOK, UNCHANGED module
  PROVE  ModuleOK'
BY DEF ModuleOK, Instance

LEMMA WorkspacesStay ==
  ASSUME WorkspacesOK, UNCHANGED <<workspaces, reported, failed, workspace>>
  PROVE  WorkspacesOK'
BY DEF WorkspacesOK

(* A line that was typed goes on with what is left of it.                     *)
LEMMA TypedPart ==
  ASSUME LinesOK, doing = <<>>, todo # <<>>
  PROVE  Head(todo) \in Parts /\ Tail(todo) \in Seq(Parts)
BY HeadTailProperties DEF LinesOK

LEMMA TypedStep ==
  ASSUME LinesOK, Grows, UNCHANGED <<copied, doing>>, doing = <<>>, todo # <<>>, todo' = Tail(todo)
  PROVE  LinesOK'
<1>1. todo' \in Seq(Parts)
  BY TypedPart
<1>2. (copied # <<>> => CopyOK(copied))'
  BY CopiedStays
<1> QED BY <1>1, <1>2 DEF LinesOK

(* What a line that follows the plan does next. *)
Shows(line, as) ==
  /\ Head(todo).do = "handoff" /\ Head(todo).cve = line.on /\ Tail(todo) = <<>>
  /\ as # "printed" => Head(todo).target = <<>>
Uses(line, as) ==
  /\ Head(todo) = [do |-> "use", name |-> line.what]
  /\ as = "printed" => Tail(todo) = <<>>
  /\ as # "printed" =>
       Tail(todo) = <<[do |-> "set", option |-> "RHOST", raw |-> line.on], [do |-> "run"]>>
Sets(line, as) ==
  /\ as # "printed"
  /\ Head(todo) = [do |-> "set", option |-> "RHOST", raw |-> line.on]
  /\ Tail(todo) = <<[do |-> "run"]>>
  /\ module # <<>> /\ Used(module[1], line)
Runs(line, as) ==
  /\ as # "printed"
  /\ Head(todo) = [do |-> "run"] /\ Tail(todo) = <<>>
  /\ module # <<>> /\ Aimed(module[1], line)

LEMMA SplitIs ==
  ASSUME NEW line, NEW as, todo = Split(line, as)
  PROVE  /\ todo # <<>>
         /\ line.what = "handoff" => Shows(line, as)
         /\ line.what # "handoff" => Uses(line, as)
<1>1. CASE line.what = "handoff"
  <2>1. PICK t : t = IF as = "printed" THEN <<"[operator">> ELSE <<>>
    OBVIOUS
  <2>2. PICK p : p = [do |-> "handoff", cve |-> line.on, target |-> t]
    OBVIOUS
  <2>3. todo = <<p>>
    BY <1>1, <2>1, <2>2 DEF Split
  <2>4. todo # <<>> /\ Head(todo) = p /\ Tail(todo) = <<>>
    BY <2>3
  <2>5. p.do = "handoff" /\ p.cve = line.on /\ p.target = t
    BY <2>2
  <2>6. as # "printed" => t = <<>>
    BY <2>1
  <2> QED BY <1>1, <2>4, <2>5, <2>6 DEF Shows
<1>2. CASE line.what # "handoff" /\ as = "printed"
  <2>1. PICK p : p = [do |-> "use", name |-> line.what]
    OBVIOUS
  <2>2. todo = <<p>>
    BY <1>2, <2>1 DEF Split
  <2>3. todo # <<>> /\ Head(todo) = p /\ Tail(todo) = <<>>
    BY <2>2
  <2> QED BY <1>2, <2>1, <2>3 DEF Uses
<1>3. CASE line.what # "handoff" /\ as # "printed"
  <2>1. PICK p, q, r : /\ p = [do |-> "use", name |-> line.what]
                       /\ q = [do |-> "set", option |-> "RHOST", raw |-> line.on]
                       /\ r = [do |-> "run"]
    OBVIOUS
  <2>2. todo = <<p, q, r>>
    BY <1>3, <2>1 DEF Split
  <2>3. todo # <<>> /\ Head(todo) = p /\ Tail(todo) = <<q, r>>
    BY <2>2
  <2> QED BY <1>3, <2>1, <2>3 DEF Uses
<1> QED BY <1>1, <1>2, <1>3

LEMMA FollowedPart ==
  ASSUME LinesOK, doing # <<>>, todo # <<>>
  PROVE  LET line == doing[1].line
             as == doing[1].as
         IN /\ CopyOK(doing) /\ did = <<>>
            /\ \/ line.what = "handoff" /\ Shows(line, as)
               \/ line.what # "handoff" /\ (Uses(line, as) \/ Sets(line, as) \/ Runs(line, as))
<1> DEFINE line == doing[1].line
           as == doing[1].as
<1>1. Followed
  BY DEF LinesOK
<1>2. CASE todo = Split(line, as) /\ did = <<>>
  BY <1>1, <1>2, SplitIs DEF Followed
<1>3. CASE /\ line.what # "handoff" /\ as # "printed" /\ did = <<>> /\ module # <<>>
           /\ todo = <<[do |-> "set", option |-> "RHOST", raw |-> line.on], [do |-> "run"]>>
           /\ Used(module[1], line)
  BY <1>1, <1>3 DEF Followed, Sets
<1>4. CASE /\ line.what # "handoff" /\ as # "printed" /\ did = <<>> /\ module # <<>>
           /\ todo = <<[do |-> "run"]>> /\ Aimed(module[1], line)
  BY <1>1, <1>4 DEF Followed, Runs
<1> QED BY <1>1, <1>2, <1>3, <1>4 DEF Followed

(* Only these four commands ever follow a plan.                               *)
LEMMA OnlyTyped ==
  ASSUME LinesOK, todo # <<>>, Head(todo).do \notin {"handoff", "use", "set", "run"}
  PROVE  doing = <<>>
BY FollowedPart DEF Shows, Uses, Sets, Runs

LEMMA HandoffFollowed ==
  ASSUME LinesOK, todo # <<>>, Head(todo).do = "handoff"
  PROVE  doing # <<>>
BY TypedPart DEF Parts

-------------------------------------------------------------------------------
(* What the commands make of a workspace.                                     *)

LEMMA BothHave ==
  ASSUME NEW s \in Seq(Rows), NEW t \in Seq(Rows), NEW cve, Has(s, cve) \/ Has(t, cve)
  PROVE  Has(s \o t, cve)
<1>1. Len(s) \in Nat /\ Len(t) \in Nat /\ Len(s \o t) = Len(s) + Len(t)
  OBVIOUS
<1>2. CASE Has(s, cve)
  <2>1. PICK i \in 1..Len(s) : s[i].cve = cve
    BY <1>2 DEF Has
  <2>2. i \in 1..(Len(s) + Len(t)) /\ i <= Len(s)
    BY <1>1
  <2>3. (s \o t)[i] = s[i]
    BY <2>2, ConcatProperties
  <2> QED BY <1>1, <2>1, <2>2, <2>3 DEF Has
<1>3. CASE Has(t, cve)
  <2>1. PICK i \in 1..Len(t) : t[i].cve = cve
    BY <1>3 DEF Has
  <2>2. /\ Len(s) + i \in 1..(Len(s) + Len(t)) /\ ~(Len(s) + i <= Len(s))
        /\ (Len(s) + i) - Len(s) = i
    BY <1>1
  <2>3. (s \o t)[Len(s) + i] = t[i]
    BY <2>2, ConcatProperties
  <2> QED BY <1>1, <2>1, <2>2, <2>3 DEF Has
<1> QED BY <1>2, <1>3

LEMMA NodeLeads ==
  ASSUME NEW graph, NEW host, NEW rows,
         \A h \in DOMAIN graph : \A l \in graph[h].leads : Has(rows, l.cve)
  PROVE  \A l \in Node(graph, host).leads : Has(rows, l.cve)
BY DEF Node, NewHost

LEMMA NewConsistent == Consistent(NewWorkspace, <<>>, FALSE)
<1>1. FirstOf(<<>>) = {}
  BY DEF FirstOf
<1>2. KeptOf(<<>>) = {}
  BY <1>1 DEF KeptOf
<1>3. Range(<<>>) = {}
  BY DEF Range
<1>4. Worklist(<<>>, <<>>)
  BY <1>2, <1>3, FS_EmptySet DEF Worklist
<1>5. <<>> \in Seq(Rows)
  OBVIOUS
<1>6. NewWorkspace.graph = <<>> /\ NewWorkspace.ledger = <<>>
  BY DEF NewWorkspace
<1>7. NewWorkspace = [graph |-> NewWorkspace.graph, ledger |-> NewWorkspace.ledger]
  BY DEF NewWorkspace
<1>8. DOMAIN NewWorkspace.graph = {}
  BY <1>6
<1> QED BY <1>4, <1>5, <1>6, <1>7, <1>8 DEF Consistent

LEMMA RunConsistent ==
  ASSUME NEW ws, NEW rows, NEW raised \in BOOLEAN, Consistent(ws, rows, raised),
         NEW host \in Addresses, NEW ports \in Views, NEW report \in Reports(host, ports)
  PROVE  Consistent(
           [graph |-> WithNode(ws.graph, host,
                        [ports |-> ports, leads |-> Recorded(Node(ws.graph, host).leads, ports)]),
            ledger |-> MergeLedger(ws.ledger, report)],
           rows \o report, raised)
<1> DEFINE leads == Recorded(Node(ws.graph, host).leads, ports)
           node == [ports |-> ports, leads |-> leads]
           graph == WithNode(ws.graph, host, node)
           ledger == MergeLedger(ws.ledger, report)
           new == [graph |-> graph, ledger |-> ledger]
           all == rows \o report
<1>1. report \in Seq(Rows) /\ rows \in Seq(Rows) /\ ws.ledger \in Seq(Rows)
  BY ReportIs DEF Consistent
<1>2. all \in Seq(Rows) /\ ledger \in Seq(Rows) /\ Worklist(all, ledger)
  BY <1>1, MergeIsWorklist DEF Consistent
<1>3. DOMAIN graph \subseteq Addresses
  BY DEF WithNode, Consistent
<1>4. ASSUME ~raised, NEW h \in DOMAIN graph, NEW l \in graph[h].leads PROVE Has(all, l.cve)
  <2>1. \A k \in DOMAIN ws.graph : \A x \in ws.graph[k].leads : Has(rows, x.cve)
    BY <1>4 DEF Consistent
  <2>2. CASE h # host
    <3>1. h \in DOMAIN ws.graph /\ graph[h] = ws.graph[h]
      BY <2>2 DEF WithNode
    <3>2. Has(rows, l.cve)
      BY <1>4, <2>1, <3>1
    <3> QED BY <1>1, <3>2, BothHave
  <2>3. CASE h = host
    <3>1. graph[h] = node
      BY <2>3 DEF WithNode
    <3>2. graph[h].leads = leads
      <4> HIDE DEF leads, graph
      <4> QED BY <3>1
    <3>3. l \in leads
      BY <1>4, <3>2
    <3>4. CASE l \in Node(ws.graph, host).leads
      <4>1. Has(rows, l.cve)
        BY <2>1, <3>4, NodeLeads
      <4> QED BY <1>1, <4>1, BothHave
    <3>5. CASE l \notin Node(ws.graph, host).leads
      <4>1. PICK p \in Range(ports) :
              l \in UNION {{[cve |-> x.cve, fp |-> f.key] : x \in f.leads} : f \in p.fingerprints}
        BY <3>3, <3>5 DEF Recorded
      <4>2. PICK f \in p.fingerprints : l \in {[cve |-> x.cve, fp |-> f.key] : x \in f.leads}
        BY <4>1
      <4>3. PICK x \in f.leads : l = [cve |-> x.cve, fp |-> f.key]
        BY <4>2
      <4>4. Has(report, x.cve)
        BY ReportIs DEF Has
      <4>5. l.cve = x.cve
        BY <4>3
      <4> QED BY <1>1, <4>4, <4>5, BothHave
    <3> QED BY <3>4, <3>5
  <2> QED BY <2>2, <2>3
<1>5. new.graph = graph /\ new.ledger = ledger /\ new = [graph |-> new.graph, ledger |-> new.ledger]
  <2> HIDE DEF graph, ledger
  <2> QED OBVIOUS
<1> HIDE DEF graph, ledger, new, all
<1>6. Consistent(new, all, raised)
  BY <1>1, <1>2, <1>3, <1>4, <1>5 DEF Consistent
<1> QED BY <1>6 DEF new, all, graph, ledger, node, leads

(* A run that raises may leave leads that were never reported.                *)
LEMMA RaiseConsistent ==
  ASSUME NEW ws, NEW rows, NEW raised, Consistent(ws, rows, raised),
         NEW host \in Addresses, NEW node
  PROVE  Consistent([ws EXCEPT !.graph = WithNode(ws.graph, host, node)], rows, TRUE)
<1> DEFINE graph == WithNode(ws.graph, host, node)
           new == [ws EXCEPT !.graph = graph]
<1>1. DOMAIN graph \subseteq Addresses
  BY DEF WithNode, Consistent
<1>2. ws = [graph |-> ws.graph, ledger |-> ws.ledger]
  BY DEF Consistent
<1> HIDE DEF graph
<1>3. new = [graph |-> graph, ledger |-> ws.ledger]
  BY <1>2
<1> HIDE DEF new
<1>4. new.graph = graph /\ new.ledger = ws.ledger /\ new = [graph |-> new.graph, ledger |-> new.ledger]
  BY <1>3
<1>5. Consistent(new, rows, TRUE)
  BY <1>1, <1>4 DEF Consistent
<1> QED BY <1>5 DEF new, graph

LEMMA ImportConsistent ==
  ASSUME NEW ws, NEW rows, NEW raised \in BOOLEAN, Consistent(ws, rows, raised),
         NEW new \in SUBSET Hosts
  PROVE  Consistent([ws EXCEPT !.graph = [h \in DOMAIN ws.graph \cup new |-> Node(ws.graph, h)]],
                    rows, raised)
<1> DEFINE graph == [h \in DOMAIN ws.graph \cup new |-> Node(ws.graph, h)]
           next == [ws EXCEPT !.graph = graph]
<1>1. DOMAIN graph \subseteq Addresses
  BY DEF Consistent, Addresses
<1>2. ASSUME ~raised, NEW h \in DOMAIN graph, NEW l \in graph[h].leads PROVE Has(rows, l.cve)
  BY <1>2, NodeLeads DEF Consistent
<1>3. ws = [graph |-> ws.graph, ledger |-> ws.ledger]
  BY DEF Consistent
<1> HIDE DEF graph
<1>4. next = [graph |-> graph, ledger |-> ws.ledger]
  BY <1>3
<1> HIDE DEF next
<1>5. next.graph = graph /\ next.ledger = ws.ledger
      /\ next = [graph |-> next.graph, ledger |-> next.ledger]
  BY <1>4
<1>6. Consistent(next, rows, raised)
  BY <1>1, <1>2, <1>5 DEF Consistent
<1> QED BY <1>6 DEF next, graph

-------------------------------------------------------------------------------
(* The invariant, command by command.                                         *)

LEMMA Initial == Init => IInv
<1> SUFFICES ASSUME Init PROVE IInv
  OBVIOUS
<1>1. PICK builtin \in Registries : registry = ByName(builtin)
  BY DEF Init
<1>2. builtin \subseteq Classes
  BY DEF Classes
<1>3. DOMAIN registry = {c.fullname : c \in builtin}
  BY <1>1 DEF ByName
<1>4. ASSUME NEW n \in DOMAIN registry PROVE registry[n] \in builtin /\ registry[n].fullname = n
  BY <1>1, <1>3 DEF ByName
<1>5. RegistryOK(registry)
  BY <1>2, <1>4, ClassesAssumption DEF RegistryOK
<1>6. BuiltinsStay
  BY <1>3 DEF BuiltinsStay
<1>7. SearchOK
  BY DEF Init, SearchOK
<1>8. ModuleOK
  BY DEF Init, ModuleOK
<1>9. WorkspacesOK
  <2>1. /\ DOMAIN workspaces = {"default"} /\ DOMAIN reported = {"default"}
        /\ workspaces["default"] = NewWorkspace /\ reported["default"] = <<>>
        /\ workspace = "default" /\ ("default" \in failed) = FALSE
    BY DEF Init
  <2> QED BY <2>1, NewConsistent DEF WorkspacesOK
<1>10. LinesOK
  BY DEF Init, LinesOK
<1> QED BY <1>5, <1>6, <1>7, <1>8, <1>9, <1>10 DEF IInv

LEMMA LoadStep ==
  ASSUME IInv, NEW file \in PluginFiles, LoadPath(file)
  PROVE  IInv'
<1>1. /\ RegistryOK(registry') /\ DOMAIN registry \subseteq DOMAIN registry'
  BY RegisteredIs DEF IInv, LoadPath
<1>2. BuiltinsStay'
  BY <1>1 DEF IInv, BuiltinsStay
<1>3. Grows
  BY <1>1 DEF LoadPath, Grows, IsReported, ghosts
<1>4. SearchOK'
  BY <1>1, SearchStays DEF IInv, LoadPath
<1>5. ModuleOK'
  BY ModuleStays DEF IInv, LoadPath
<1>6. WorkspacesOK'
  BY WorkspacesStay DEF IInv, LoadPath, ghosts
<1>7. (copied # <<>> => CopyOK(copied))'
  BY <1>3, CopiedStays DEF IInv, LoadPath, ghosts
<1>8. CASE doing = <<>>
  <2>1. UNCHANGED <<todo, doing>>
    BY DEF LoadPath, ghosts
  <2>2. LinesOK'
    BY <1>7, <1>8, <2>1 DEF IInv, LinesOK
  <2> QED BY <1>1, <1>2, <1>4, <1>5, <1>6, <2>2 DEF IInv
<1>9. CASE doing # <<>>
  <2>1. Followed
    BY <1>9 DEF IInv, LinesOK
  <2>2. CopyOK(doing)'
    BY <1>3, <2>1, DoingStays DEF Followed, LoadPath, ghosts
  <2>3. UNCHANGED <<module, todo, doing, did, workspace, workspaces, failed>>
    BY DEF LoadPath, ghosts
  <2>4. PlanCanBeFollowed => PlanCanBeFollowed'
    BY <2>3 DEF PlanCanBeFollowed
  <2>5. Followed'
    BY <2>1, <2>2, <2>3, <2>4 DEF Followed, Split, Used, Create, Default, Aimed, MissingRequired, Target
  <2>6. LinesOK'
    BY <1>7, <1>9, <2>3, <2>5 DEF LinesOK
  <2> QED BY <1>1, <1>2, <1>4, <1>5, <1>6, <2>6 DEF IInv
<1> QED BY <1>8, <1>9

LEMMA SearchStep == IInv /\ CmdSearch => IInv'
<1> SUFFICES ASSUME IInv, CmdSearch PROVE IInv'
  OBVIOUS
<1>1. /\ UNCHANGED <<registry, module, workspaces, workspace, copied, doing, reported, failed>>
      /\ todo # <<>> /\ Head(todo).do = "search" /\ todo' = Tail(todo)
  BY DEF CmdSearch, Part, ghosts
<1>2. Grows
  BY <1>1, NothingMoves
<1>3. SearchOK'
  <2>1. CASE lastSearch' = lastSearch
    BY <1>1, <2>1, SearchStays DEF IInv
  <2>2. CASE lastSearch' = Search(Head(todo).query)
    <3>1. PICK query : query = Head(todo).query
      OBVIOUS
    <3>2. /\ lastSearch' \in Seq(Classes)
          /\ \A i \in 1..Len(lastSearch') : lastSearch'[i].fullname \in DOMAIN registry
      BY <2>2, <3>1, SearchIs DEF IInv
    <3> QED BY <1>1, <3>2 DEF SearchOK
  <2> QED BY <2>1, <2>2 DEF CmdSearch
<1>4. RegistryOK(registry)' /\ BuiltinsStay'
  BY <1>1, RegistryStays DEF IInv
<1>5. ModuleOK'
  BY <1>1, ModuleStays DEF IInv
<1>6. WorkspacesOK'
  BY <1>1, WorkspacesStay DEF IInv
<1>7. doing = <<>>
  BY <1>1, OnlyTyped DEF IInv
<1>8. LinesOK'
  BY <1>1, <1>2, <1>7, TypedStep DEF IInv
<1> QED BY <1>3, <1>4, <1>5, <1>6, <1>8 DEF IInv

LEMMA QuietStep ==
  ASSUME IInv, UNCHANGED <<registry, lastSearch, workspaces, workspace, reported, failed>>
  PROVE  Grows /\ RegistryOK(registry)' /\ BuiltinsStay' /\ SearchOK' /\ WorkspacesOK'
<1>1. Grows
  BY NothingMoves
<1>2. RegistryOK(registry)' /\ BuiltinsStay'
  BY RegistryStays DEF IInv
<1>3. SearchOK'
  BY SearchStays DEF IInv
<1>4. WorkspacesOK'
  BY WorkspacesStay DEF IInv
<1> QED BY <1>1, <1>2, <1>3, <1>4

(* The rest of a line that follows the plan. *)
LEMMA FollowedGoesOn ==
  ASSUME LinesOK, Grows, UNCHANGED <<copied, doing>>, doing # <<>>, CopyOK(doing),
         LET line == doing[1].line
         IN \/ /\ line.what # "handoff" /\ doing[1].as # "printed" /\ did' = <<>> /\ module' # <<>>
               /\ \/ /\ todo' = <<[do |-> "set", option |-> "RHOST", raw |-> line.on], [do |-> "run"]>>
                     /\ Used(module'[1], line)
                  \/ todo' = <<[do |-> "run"]>> /\ Aimed(module'[1], line)
            \/ todo' = <<>> /\ PlanCanBeFollowed'
  PROVE  LinesOK'
<1>1. CopyOK(doing)'
  BY DoingStays
<1>2. (copied # <<>> => CopyOK(copied))'
  BY CopiedStays
<1>3. Followed'
  BY <1>1 DEF Followed, Used, Create, Default, Aimed, MissingRequired, Target
<1> QED BY <1>2, <1>3 DEF LinesOK

LEMMA UseStep == IInv /\ CmdUse => IInv'
<1> SUFFICES ASSUME IInv, CmdUse PROVE IInv'
  OBVIOUS
<1> DEFINE name == Head(todo).name
<1>1. /\ UNCHANGED <<registry, lastSearch, workspaces, workspace, reported, failed, copied, doing, did>>
      /\ todo # <<>> /\ Head(todo).do = "use" /\ todo' = Tail(todo)
      /\ module' = IF name \in DOMAIN registry THEN <<Create(registry[name])>> ELSE module
  BY DEF CmdUse, Part, ghosts
<1>2. Grows /\ RegistryOK(registry)' /\ BuiltinsStay' /\ SearchOK' /\ WorkspacesOK'
  BY <1>1, QuietStep
<1>3. ASSUME name \in DOMAIN registry
      PROVE  /\ registry[name] \in Classes /\ registry[name].fullname = name
             /\ Instance(Create(registry[name])) /\ Create(registry[name]).class = registry[name]
  <2>1. registry[name] \in Classes /\ registry[name].fullname = name
    BY <1>3 DEF IInv, RegistryOK
  <2> QED BY <2>1, CreateIs
<1>4. ModuleOK'
  <2>1. CASE name \in DOMAIN registry
    BY <1>1, <1>3, <2>1 DEF ModuleOK
  <2>2. CASE name \notin DOMAIN registry
    BY <1>1, <2>2, ModuleStays DEF IInv
  <2> QED BY <2>1, <2>2
<1>5. LinesOK'
  <2>1. CASE doing = <<>>
    BY <1>1, <1>2, <2>1, TypedStep DEF IInv
  <2>2. CASE doing # <<>>
    <3> DEFINE line == doing[1].line
               as == doing[1].as
    <3>1. CopyOK(doing) /\ did = <<>> /\ line.what # "handoff" /\ Uses(line, as)
      BY <1>1, <2>2, FollowedPart DEF IInv, Shows, Sets, Runs
    <3>2. name = line.what /\ name \in Planned \cap DOMAIN registry
      BY <3>1 DEF CopyOK, Uses
    <3>3. Plannable(registry[name])
      BY <3>2 DEF IInv, RegistryOK
    <3>4. module' # <<>> /\ module'[1] = Create(registry[name])
      BY <1>1, <3>2
    <3>5. Used(module'[1], line)
      BY <1>3, <3>2, <3>3, <3>4 DEF Used
    <3>6. CASE as # "printed"
      <4>1. todo' = <<[do |-> "set", option |-> "RHOST", raw |-> line.on], [do |-> "run"]>>
        BY <1>1, <3>1, <3>6 DEF Uses
      <4> QED BY <1>1, <1>2, <2>2, <3>1, <3>4, <3>5, <3>6, <4>1, FollowedGoesOn DEF IInv
    <3>7. CASE as = "printed"
      <4>1. todo' = <<>> /\ did' = <<>> /\ doing' = doing
        BY <1>1, <3>1, <3>7 DEF Uses
      <4>2. module'[1].class.fullname = line.what /\ module'[1] = Create(module'[1].class)
        BY <3>5 DEF Used
      <4>3. PlanCanBeFollowed'
        BY <3>1, <3>4, <3>7, <4>1, <4>2 DEF PlanCanBeFollowed, Create, Default
      <4> QED BY <1>1, <1>2, <2>2, <3>1, <4>1, <4>3, FollowedGoesOn DEF IInv
    <3> QED BY <3>6, <3>7
  <2> QED BY <2>1, <2>2
<1> QED BY <1>2, <1>4, <1>5 DEF IInv

LEMMA PickStep == IInv /\ CmdPick => IInv'
<1> SUFFICES ASSUME IInv, CmdPick PROVE IInv'
  OBVIOUS
<1> DEFINE i == Head(todo).index
           name == lastSearch[i + 1].fullname
<1>1. /\ UNCHANGED <<registry, lastSearch, workspaces, workspace, reported, failed, copied, doing, did>>
      /\ todo # <<>> /\ Head(todo).do = "pick" /\ todo' = Tail(todo)
      /\ module' = IF i < Len(lastSearch) THEN <<Create(registry[name])>> ELSE module
  BY DEF CmdPick, Part, ghosts
<1>2. Grows /\ RegistryOK(registry)' /\ BuiltinsStay' /\ SearchOK' /\ WorkspacesOK'
  BY <1>1, QuietStep
<1>3. doing = <<>>
  BY <1>1, OnlyTyped DEF IInv
<1>4. ModuleOK'
  <2>1. CASE i < Len(lastSearch)
    <3>1. i \in 0..1
      <4>1. Head(todo) \in Parts
        BY <1>1, <1>3, TypedPart DEF IInv
      <4> QED BY <1>1, <4>1 DEF Parts
    <3>2. Len(lastSearch) \in Nat
      BY DEF IInv, SearchOK
    <3>3. i + 1 \in 1..Len(lastSearch)
      BY <2>1, <3>1, <3>2
    <3>4. name \in DOMAIN registry
      BY <3>3 DEF IInv, SearchOK
    <3>5. registry[name] \in Classes
      BY <3>4 DEF IInv, RegistryOK
    <3>6. Instance(Create(registry[name]))
      BY <3>5, CreateIs
    <3> QED BY <1>1, <2>1, <3>6 DEF ModuleOK
  <2>2. CASE ~(i < Len(lastSearch))
    BY <1>1, <2>2, ModuleStays DEF IInv
  <2> QED BY <2>1, <2>2
<1>5. LinesOK'
  BY <1>1, <1>2, <1>3, TypedStep DEF IInv
<1> QED BY <1>2, <1>4, <1>5 DEF IInv

LEMMA BackStep == IInv /\ CmdBack => IInv'
<1> SUFFICES ASSUME IInv, CmdBack PROVE IInv'
  OBVIOUS
<1>1. /\ UNCHANGED <<registry, lastSearch, workspaces, workspace, reported, failed, copied, doing, did>>
      /\ todo # <<>> /\ Head(todo).do = "back" /\ todo' = Tail(todo) /\ module' = <<>>
  BY DEF CmdBack, Part, ghosts
<1>2. Grows /\ RegistryOK(registry)' /\ BuiltinsStay' /\ SearchOK' /\ WorkspacesOK'
  BY <1>1, QuietStep
<1>3. doing = <<>>
  BY <1>1, OnlyTyped DEF IInv
<1>4. ModuleOK'
  BY <1>1 DEF ModuleOK
<1>5. LinesOK'
  BY <1>1, <1>2, <1>3, TypedStep DEF IInv
<1> QED BY <1>2, <1>4, <1>5 DEF IInv

(* An address fits a module that the planner takes for one of its own.        *)
LEMMA AimedIs ==
  ASSUME NEW m, NEW new, NEW line, Used(m, line), m.class \in Classes,
         line.on \in Addresses,
         new.class = m.class, new.values = [m.values EXCEPT !["RHOST"] = <<line.on>>]
  PROVE  /\ "RHOST" \in DOMAIN m.values /\ Accepts(m.class, "RHOST", line.on)
         /\ Aimed(new, line)
<1> DEFINE c == m.class
<1>1. /\ Plannable(c) /\ c.fullname = line.what /\ m = Create(c)
  BY DEF Used
<1>2. /\ "RHOST" \in DOMAIN c.options /\ Addresses \subseteq c.options["RHOST"].legal
      /\ \A o \in DOMAIN c.options \ {"RHOST"} :
           c.options[o].required => c.options[o].default # <<>>
  BY <1>1 DEF Plannable
<1>3. m.values = [o \in DOMAIN c.options |-> c.options[o].default]
  BY <1>1, CreateIs
<1>4. "RHOST" \in DOMAIN m.values /\ Accepts(c, "RHOST", line.on)
  BY <1>2, <1>3 DEF Accepts
<1>5. /\ DOMAIN new.values = DOMAIN c.options
      /\ new.values["RHOST"] = <<line.on>>
      /\ \A o \in DOMAIN c.options \ {"RHOST"} : new.values[o] = c.options[o].default
  BY <1>2, <1>3
<1>6. MissingRequired(new) = {}
  <2>1. <<line.on>> # <<>>
    OBVIOUS
  <2>2. ASSUME NEW o \in DOMAIN new.values, new.class.options[o].required
        PROVE  new.values[o] # <<>>
    BY <1>2, <1>5, <2>1, <2>2
  <2> QED BY <2>2 DEF MissingRequired
<1>7. Target(new) = <<line.on>>
  BY <1>2, <1>5 DEF Target
<1>8. Aimed(new, line)
  BY <1>1, <1>6, <1>7 DEF Aimed
<1> QED BY <1>4, <1>8

LEMMA SetStep == IInv /\ CmdSet => IInv'
<1> SUFFICES ASSUME IInv, CmdSet PROVE IInv'
  OBVIOUS
<1> DEFINE c == Head(todo)
           m == module[1]
           accepted == /\ module # <<>>
                       /\ c.option \in DOMAIN m.values
                       /\ Accepts(m.class, c.option, c.raw)
           new == [m EXCEPT !.values[c.option] = <<c.raw>>]
<1>1. /\ UNCHANGED <<registry, lastSearch, workspaces, workspace, reported, failed, copied, doing, did>>
      /\ todo # <<>> /\ Head(todo).do = "set" /\ todo' = Tail(todo)
      /\ module' = IF accepted THEN <<new>> ELSE module
  BY DEF CmdSet, Part, ghosts
<1>2. Grows /\ RegistryOK(registry)' /\ BuiltinsStay' /\ SearchOK' /\ WorkspacesOK'
  BY <1>1, QuietStep
<1>3. ASSUME accepted
      PROVE  /\ Instance(new) /\ new.class = m.class
             /\ new.values = [m.values EXCEPT ![c.option] = <<c.raw>>]
  <2>1. Instance(m)
    BY <1>3 DEF IInv, ModuleOK
  <2>2. PICK o, x : o = c.option /\ x = c.raw
    OBVIOUS
  <2>3. o = "RHOST" => <<x>> \in {<<>>} \cup {<<a>> : a \in Addresses}
    <3>1. SUFFICES ASSUME o = "RHOST" PROVE x \in Addresses
      OBVIOUS
    <3>2. m.class \in Classes /\ DOMAIN m.values = DOMAIN m.class.options
      BY <2>1 DEF Instance
    <3>3. m.class.options["RHOST"].legal \subseteq Addresses
      BY <1>3, <2>2, <3>1, <3>2, ClassIs
    <3> QED BY <1>3, <2>2, <3>1, <3>3 DEF Accepts
  <2>4. o \in DOMAIN m.values
    BY <1>3, <2>2
  <2>5. new = [m EXCEPT !.values[o] = <<x>>]
    BY <2>2
  <2> HIDE DEF new, accepted
  <2>6. Instance(new) /\ new.class = m.class /\ new.values = [m.values EXCEPT ![o] = <<x>>]
    BY <2>1, <2>3, <2>4, <2>5, SetIs
  <2> QED BY <2>2, <2>6
<1>4. ModuleOK'
  <2>1. CASE accepted
    <3> HIDE DEF new
    <3> QED BY <1>1, <1>3, <2>1 DEF ModuleOK
  <2>2. CASE ~accepted
    BY <1>1, <2>2, ModuleStays DEF IInv
  <2> QED BY <2>1, <2>2
<1>5. LinesOK'
  <2>1. CASE doing = <<>>
    BY <1>1, <1>2, <2>1, TypedStep DEF IInv
  <2>2. CASE doing # <<>>
    <3> DEFINE line == doing[1].line
               set == [m.values EXCEPT !["RHOST"] = <<line.on>>]
    <3>1. /\ CopyOK(doing) /\ did = <<>> /\ line.what # "handoff"
          /\ Sets(line, doing[1].as)
      BY <1>1, <2>2, FollowedPart DEF IInv, Shows, Uses, Runs
    <3>2. c.option = "RHOST" /\ c.raw = line.on /\ module # <<>> /\ Used(m, line)
      BY <3>1 DEF Sets
    <3>3. line.on \in Addresses
      BY <3>1 DEF CopyOK
    <3>4. m.class \in Classes
      BY <3>2 DEF IInv, ModuleOK, Instance
    <3>5. "RHOST" \in DOMAIN m.values /\ Accepts(m.class, "RHOST", line.on)
      <4> DEFINE other == [class |-> m.class, values |-> set]
      <4>1. other.class = m.class /\ other.values = set
        OBVIOUS
      <4> HIDE DEF other
      <4> QED BY <3>2, <3>3, <3>4, <4>1, AimedIs
    <3>6. accepted
      BY <3>2, <3>5
    <3>7. new.class = m.class /\ new.values = set
      BY <1>3, <3>2, <3>6
    <3>8. Aimed(new, line)
      <4> HIDE DEF new
      <4> QED BY <3>2, <3>3, <3>4, <3>7, AimedIs
    <3>9. module' # <<>> /\ module'[1] = new
      <4> HIDE DEF new
      <4> QED BY <1>1, <3>6
    <3>10. todo' = <<[do |-> "run"]>>
      BY <1>1, <3>1 DEF Sets
    <3> HIDE DEF new
    <3> QED BY <1>1, <1>2, <2>2, <3>1, <3>8, <3>9, <3>10, FollowedGoesOn DEF IInv, Sets
  <2> QED BY <2>1, <2>2
<1> QED BY <1>2, <1>4, <1>5 DEF IInv

LEMMA UnsetStep == IInv /\ CmdUnset => IInv'
<1> SUFFICES ASSUME IInv, CmdUnset PROVE IInv'
  OBVIOUS
<1> DEFINE m == module[1]
           o == Head(todo).option
           known == module # <<>> /\ o \in DOMAIN m.values
           new == [m EXCEPT !.values[o] = Default(m.class, o)]
<1>1. /\ UNCHANGED <<registry, lastSearch, workspaces, workspace, reported, failed, copied, doing, did>>
      /\ todo # <<>> /\ Head(todo).do = "unset" /\ todo' = Tail(todo)
      /\ module' = IF known THEN <<new>> ELSE module
  BY DEF CmdUnset, Part, ghosts
<1>2. Grows /\ RegistryOK(registry)' /\ BuiltinsStay' /\ SearchOK' /\ WorkspacesOK'
  BY <1>1, QuietStep
<1>3. doing = <<>>
  BY <1>1, OnlyTyped DEF IInv
<1>4. ASSUME known PROVE Instance(new)
  <2>1. Instance(m)
    BY <1>4 DEF IInv, ModuleOK
  <2>2. PICK p, x : p = o /\ x = Default(m.class, o)
    OBVIOUS
  <2>3. p = "RHOST" => x \in {<<>>} \cup {<<a>> : a \in Addresses}
    <3>1. SUFFICES ASSUME p = "RHOST" PROVE x \in {<<>>} \cup {<<a>> : a \in Addresses}
      OBVIOUS
    <3>2. m.class \in Classes /\ DOMAIN m.values = DOMAIN m.class.options
      BY <2>1 DEF Instance
    <3>3. x = m.class.options["RHOST"].default /\ "RHOST" \in DOMAIN m.class.options
      BY <1>4, <2>2, <3>1, <3>2 DEF Default
    <3> QED BY <3>2, <3>3, ClassIs
  <2>4. p \in DOMAIN m.values
    BY <1>4, <2>2
  <2>5. new = [m EXCEPT !.values[p] = x]
    BY <2>2
  <2> QED BY <2>1, <2>3, <2>4, <2>5, SetIs
<1>5. ModuleOK'
  <2>1. CASE known
    <3> HIDE DEF new
    <3> QED BY <1>1, <1>4, <2>1 DEF ModuleOK
  <2>2. CASE ~known
    BY <1>1, <2>2, ModuleStays DEF IInv
  <2> QED BY <2>1, <2>2
<1>6. LinesOK'
  BY <1>1, <1>2, <1>3, TypedStep DEF IInv
<1> QED BY <1>2, <1>5, <1>6 DEF IInv

(* A module that is aimed runs. *)
LEMMA AimedRuns ==
  ASSUME NEW line, module # <<>>, Aimed(module[1], line)
  PROVE  Runnable
BY DEF Aimed, Plannable, Runnable

LEMMA RefusedStep == IInv /\ CmdRunRefused => IInv'
<1> SUFFICES ASSUME IInv, CmdRunRefused PROVE IInv'
  OBVIOUS
<1>1. /\ UNCHANGED <<registry, lastSearch, workspaces, workspace, reported, failed, copied, doing, did>>
      /\ UNCHANGED module
      /\ todo # <<>> /\ Head(todo).do = "run" /\ todo' = Tail(todo) /\ ~Runnable
  BY DEF CmdRunRefused, Part, ghosts, sessionVars
<1>2. Grows /\ RegistryOK(registry)' /\ BuiltinsStay' /\ SearchOK' /\ WorkspacesOK'
  BY <1>1, QuietStep
<1>3. doing = <<>>
  <2>1. SUFFICES ASSUME doing # <<>> PROVE FALSE
    OBVIOUS
  <2>2. Runs(doing[1].line, doing[1].as)
    BY <1>1, <2>1, FollowedPart DEF IInv, Shows, Uses, Sets
  <2> QED BY <1>1, <2>2, AimedRuns DEF Runs
<1>4. ModuleOK'
  BY <1>1, ModuleStays DEF IInv
<1>5. LinesOK'
  BY <1>1, <1>2, <1>3, TypedStep DEF IInv
<1> QED BY <1>2, <1>4, <1>5 DEF IInv

LEMMA RunsAt ==
  ASSUME IInv, Runnable
  PROVE  Target(module[1])[1] \in Addresses
<1> DEFINE m == module[1]
<1>1. Instance(m) /\ Target(m) # <<>>
  BY DEF IInv, ModuleOK, Runnable
<1>2. "RHOST" \in DOMAIN m.values /\ Target(m) = m.values["RHOST"]
  BY <1>1 DEF Target
<1>3. "RHOST" \in DOMAIN m.class.options
  BY <1>1, <1>2 DEF Instance
<1>4. m.values["RHOST"] \in {<<x>> : x \in Addresses}
  BY <1>1, <1>2, <1>3 DEF Instance
<1> QED BY <1>2, <1>4

(* A run ends a line that follows the plan. *)
LEMMA RunEndsLine ==
  ASSUME IInv, Grows, UNCHANGED <<copied, doing>>, Part("run"),
         did' = Append(did, [what |-> module[1].class.fullname, on |-> Target(module[1])[1]])
  PROVE  LinesOK'
<1>1. todo # <<>> /\ Head(todo).do = "run" /\ todo' = Tail(todo)
  BY DEF Part
<1>2. CASE doing = <<>>
  BY <1>1, <1>2, TypedStep DEF IInv
<1>3. CASE doing # <<>>
  <2> DEFINE line == doing[1].line
  <2>1. CopyOK(doing) /\ did = <<>> /\ line.what # "handoff" /\ Runs(line, doing[1].as)
    BY <1>1, <1>3, FollowedPart DEF IInv, Shows, Uses, Sets
  <2>2. module[1].class.fullname = line.what /\ Target(module[1]) = <<line.on>>
    BY <2>1 DEF Runs, Aimed
  <2>3. line = [what |-> line.what, on |-> line.on]
    BY <2>1 DEF CopyOK
  <2>4. did' = <<line>>
    BY <2>1, <2>2, <2>3
  <2>5. todo' = <<>> /\ doing' = doing
    BY <1>1, <2>1 DEF Runs
  <2>6. PlanCanBeFollowed'
    BY <2>1, <2>4, <2>5 DEF PlanCanBeFollowed, Runs
  <2> QED BY <1>3, <2>1, <2>5, <2>6, FollowedGoesOn DEF IInv
<1> QED BY <1>2, <1>3

LEMMA RunStep == IInv /\ CmdRun => IInv'
<1> SUFFICES ASSUME IInv, CmdRun PROVE IInv'
  OBVIOUS
<1> DEFINE host == Target(module[1])[1]
           ws == workspaces[workspace]
           After(ports, report) ==
             [graph |-> WithNode(ws.graph, host,
                          [ports |-> ports, leads |-> Recorded(Node(ws.graph, host).leads, ports)]),
              ledger |-> MergeLedger(ws.ledger, report)]
<1>1. PICK ports \in Views : \E report \in Reports(host, ports) :
        /\ workspaces' = [workspaces EXCEPT ![workspace] = After(ports, report)]
        /\ reported' = [reported EXCEPT ![workspace] = @ \o report]
        /\ did' = Append(did, [what |-> module[1].class.fullname, on |-> host])
  BY DEF CmdRun
<1>2. PICK report \in Reports(host, ports) :
        /\ workspaces' = [workspaces EXCEPT ![workspace] = After(ports, report)]
        /\ reported' = [reported EXCEPT ![workspace] = @ \o report]
        /\ did' = Append(did, [what |-> module[1].class.fullname, on |-> host])
  BY <1>1
<1>3. /\ UNCHANGED <<registry, lastSearch, module, workspace, copied, doing, failed>>
      /\ Part("run") /\ Runnable
  BY DEF CmdRun
<1>4. host \in Addresses
  BY <1>3, RunsAt
<1>5. /\ DOMAIN reported = DOMAIN workspaces /\ workspace \in DOMAIN workspaces
      /\ \A n \in DOMAIN workspaces : Consistent(workspaces[n], reported[n], n \in failed)
  BY DEF IInv, WorkspacesOK
<1>6. Consistent(After(ports, report), reported[workspace] \o report, workspace \in failed)
  <2>1. (workspace \in failed) \in BOOLEAN
    OBVIOUS
  <2>2. Consistent(ws, reported[workspace], workspace \in failed)
    BY <1>5
  <2> QED BY <1>4, <2>1, <2>2, RunConsistent
<1> HIDE DEF After
<1>7. WorkspacesOK'
  <2>1. /\ DOMAIN workspaces' = DOMAIN workspaces /\ DOMAIN reported' = DOMAIN workspaces
        /\ workspaces'[workspace] = After(ports, report)
        /\ reported'[workspace] = reported[workspace] \o report
        /\ \A n \in DOMAIN workspaces :
             n # workspace => workspaces'[n] = workspaces[n] /\ reported'[n] = reported[n]
    BY <1>2, <1>5
  <2>2. ASSUME NEW n \in DOMAIN workspaces PROVE Consistent(workspaces'[n], reported'[n], n \in failed)
    <3>1. CASE n = workspace
      BY <1>6, <2>1, <3>1
    <3>2. CASE n # workspace
      BY <1>5, <2>1, <3>2
    <3> QED BY <3>1, <3>2
  <2> QED BY <1>3, <1>5, <2>1, <2>2 DEF WorkspacesOK
<1>8. Grows
  <2>1. ASSUME NEW n \in DOMAIN workspaces, NEW cve, Has(reported[n], cve)
        PROVE  Has(reported'[n], cve)
    <3>1. CASE n = workspace
      <4>1. reported[n] \in Seq(Rows) /\ report \in Seq(Rows)
        BY <1>4, <1>5, ReportIs DEF Consistent
      <4>2. reported'[n] = reported[n] \o report
        BY <1>2, <1>5, <3>1
      <4> QED BY <2>1, <4>1, <4>2, BothHave
    <3>2. CASE n # workspace
      BY <1>2, <1>5, <2>1, <3>2
    <3> QED BY <3>1, <3>2
  <2>2. DOMAIN workspaces' = DOMAIN workspaces
    BY <1>2
  <2> QED BY <1>3, <2>1, <2>2 DEF Grows, IsReported
<1>9. RegistryOK(registry)' /\ BuiltinsStay'
  BY <1>3, RegistryStays DEF IInv
<1>10. SearchOK' /\ ModuleOK'
  BY <1>3, SearchStays, ModuleStays DEF IInv
<1>11. LinesOK'
  BY <1>2, <1>3, <1>8, RunEndsLine
<1> QED BY <1>7, <1>9, <1>10, <1>11 DEF IInv

LEMMA RaiseStep == IInv /\ CmdRunRaises => IInv'
<1> SUFFICES ASSUME IInv, CmdRunRaises PROVE IInv'
  OBVIOUS
<1> DEFINE host == Target(module[1])[1]
           ws == workspaces[workspace]
           After(node) == [ws EXCEPT !.graph = WithNode(ws.graph, host, node)]
<1>1. \E node : workspaces' = [workspaces EXCEPT ![workspace] = After(node)]
  BY DEF CmdRunRaises
<1>2. PICK node : workspaces' = [workspaces EXCEPT ![workspace] = After(node)]
  BY <1>1
<1>3. /\ UNCHANGED <<registry, lastSearch, module, workspace, copied, doing, reported>>
      /\ Part("run") /\ Runnable /\ failed' = failed \cup {workspace}
      /\ did' = Append(did, [what |-> module[1].class.fullname, on |-> host])
  BY DEF CmdRunRaises
<1>4. host \in Addresses
  BY <1>3, RunsAt
<1>5. /\ DOMAIN reported = DOMAIN workspaces /\ workspace \in DOMAIN workspaces
      /\ \A n \in DOMAIN workspaces : Consistent(workspaces[n], reported[n], n \in failed)
  BY DEF IInv, WorkspacesOK
<1>6. Consistent(After(node), reported[workspace], TRUE)
  <2>1. Consistent(ws, reported[workspace], workspace \in failed)
    BY <1>5
  <2> QED BY <1>4, <2>1, RaiseConsistent
<1> HIDE DEF After
<1>7. WorkspacesOK'
  <2>1. /\ DOMAIN workspaces' = DOMAIN workspaces
        /\ workspaces'[workspace] = After(node)
        /\ \A n \in DOMAIN workspaces : n # workspace => workspaces'[n] = workspaces[n]
    BY <1>2, <1>5
  <2>2. ASSUME NEW n \in DOMAIN workspaces PROVE Consistent(workspaces'[n], reported[n], n \in failed')
    <3>1. CASE n = workspace
      <4>1. (n \in failed') = TRUE
        BY <1>3, <3>1
      <4> QED BY <1>6, <2>1, <3>1, <4>1
    <3>2. CASE n # workspace
      <4>1. (n \in failed') = (n \in failed)
        BY <1>3, <3>2
      <4> QED BY <1>5, <2>1, <3>2, <4>1
    <3> QED BY <3>1, <3>2
  <2> QED BY <1>3, <1>5, <2>1, <2>2 DEF WorkspacesOK
<1>8. Grows
  BY <1>2, <1>3 DEF Grows, IsReported
<1>9. RegistryOK(registry)' /\ BuiltinsStay'
  BY <1>3, RegistryStays DEF IInv
<1>10. SearchOK' /\ ModuleOK'
  BY <1>3, SearchStays, ModuleStays DEF IInv
<1>11. LinesOK'
  BY <1>3, <1>8, RunEndsLine
<1> QED BY <1>7, <1>9, <1>10, <1>11 DEF IInv

LEMMA PlanStep == IInv /\ CmdPlan => IInv'
<1> SUFFICES ASSUME IInv, CmdPlan PROVE IInv'
  OBVIOUS
<1> DEFINE graph == workspaces[workspace].graph
           printed == UNION {Printed(Plan(graph[h]), h) : h \in DOMAIN graph}
<1>1. /\ UNCHANGED <<registry, lastSearch, module, workspaces, workspace, reported, failed, doing, did>>
      /\ todo # <<>> /\ Head(todo).do = "plan" /\ todo' = Tail(todo)
      /\ \/ copied' = <<>>
         \/ \E line \in printed, as \in {"printed", "completed"} :
              copied' = <<[line |-> line, in |-> workspace, as |-> as]>>
  BY DEF CmdPlan, Part, sessionVars
<1>2. Grows /\ RegistryOK(registry)' /\ BuiltinsStay' /\ SearchOK' /\ WorkspacesOK'
  BY <1>1, QuietStep
<1>3. ModuleOK'
  BY <1>1, ModuleStays DEF IInv
<1>4. doing = <<>>
  BY <1>1, OnlyTyped DEF IInv
<1>5. ASSUME NEW h \in DOMAIN graph, NEW line \in Printed(Plan(graph[h]), h), NEW as
      PROVE  CopyOK(<<[line |-> line, in |-> workspace, as |-> as]>>)
  <2> DEFINE copy == <<[line |-> line, in |-> workspace, as |-> as]>>
  <2>1. copy[1].line = line /\ copy[1].in = workspace
    OBVIOUS
  <2>2. /\ workspace \in DOMAIN workspaces
        /\ Consistent(workspaces[workspace], reported[workspace], workspace \in failed)
    BY DEF IInv, WorkspacesOK
  <2>3. h \in Addresses
    BY <2>2 DEF Consistent
  <2>4. \/ \E n \in Planned \cap DOMAIN registry : line = [what |-> n, on |-> h]
        \/ \E l \in graph[h].leads : line = [what |-> "handoff", on |-> l.cve]
    BY PrintedIs
  <2> HIDE DEF copy
  <2>5. CASE \E n \in Planned \cap DOMAIN registry : line = [what |-> n, on |-> h]
    <3>1. PICK n \in Planned \cap DOMAIN registry : line = [what |-> n, on |-> h]
      BY <2>5
    <3>2. line.what = n /\ line.on = h /\ line = [what |-> line.what, on |-> line.on]
      BY <3>1
    <3> QED BY <2>1, <2>2, <2>3, <3>2 DEF CopyOK, copy
  <2>6. CASE \E l \in graph[h].leads : line = [what |-> "handoff", on |-> l.cve]
    <3>1. PICK l \in graph[h].leads : line = [what |-> "handoff", on |-> l.cve]
      BY <2>6
    <3>2. line.what = "handoff" /\ line.on = l.cve /\ line = [what |-> line.what, on |-> line.on]
      BY <3>1
    <3>3. workspace \in failed \/ IsReported(workspace, line.on)
      BY <2>2, <3>2 DEF Consistent, IsReported
    <3> QED BY <2>1, <2>2, <3>2, <3>3 DEF CopyOK, copy
  <2> QED BY <2>4, <2>5, <2>6
<1>6. copied' # <<>> => CopyOK(copied)'
  <2>1. CASE copied' = <<>>
    BY <2>1
  <2>2. CASE \E line \in printed, as \in {"printed", "completed"} :
               copied' = <<[line |-> line, in |-> workspace, as |-> as]>>
    <3>1. PICK line \in printed, as \in {"printed", "completed"} :
            copied' = <<[line |-> line, in |-> workspace, as |-> as]>>
      BY <2>2
    <3>2. PICK h \in DOMAIN graph : line \in Printed(Plan(graph[h]), h)
      BY <3>1
    <3>3. PICK copy : copy = <<[line |-> line, in |-> workspace, as |-> as]>>
      OBVIOUS
    <3>4. CopyOK(copy)
      BY <1>5, <3>2, <3>3
    <3>5. CopyOK(copy)'
      BY <1>2, <3>4, CopyStays
    <3> QED BY <3>1, <3>3, <3>5 DEF CopyOK
  <2> QED BY <1>1, <2>1, <2>2
<1>7. todo' \in Seq(Parts)
  BY <1>1, <1>4, TypedPart DEF IInv
<1>8. LinesOK'
  BY <1>1, <1>4, <1>6, <1>7 DEF LinesOK
<1> QED BY <1>2, <1>3, <1>8 DEF IInv

LEMMA HandoffStep == IInv /\ CmdHandoff => IInv'
<1> SUFFICES ASSUME IInv, CmdHandoff PROVE IInv'
  OBVIOUS
<1> DEFINE line == doing[1].line
           as == doing[1].as
           ledger == workspaces[workspace].ledger
           rows == reported[workspace]
<1>1. /\ UNCHANGED <<registry, lastSearch, module, workspaces, workspace, reported, failed, copied, doing>>
      /\ todo # <<>> /\ Head(todo).do = "handoff" /\ todo' = Tail(todo)
      /\ LET found == {r \in Range(ledger) :
                         r.cve = Head(todo).cve /\ Head(todo).target \in {<<>>, <<r.target>>}}
         IN did' = IF found = {} THEN did
                   ELSE Append(did, [what |-> "handoff", on |-> Head(todo).cve])
  BY DEF CmdHandoff, Part, sessionVars
<1>2. Grows /\ RegistryOK(registry)' /\ BuiltinsStay' /\ SearchOK' /\ WorkspacesOK'
  BY <1>1, QuietStep
<1>3. ModuleOK'
  BY <1>1, ModuleStays DEF IInv
<1>4. doing # <<>>
  BY <1>1, HandoffFollowed DEF IInv
<1>5. CopyOK(doing) /\ did = <<>> /\ line.what = "handoff" /\ Shows(line, as)
  <2>1. LinesOK
    BY DEF IInv
  <2> QED BY <1>1, <1>4, <2>1, FollowedPart DEF Uses, Sets, Runs
<1>6. Head(todo).cve = line.on /\ todo' = <<>>
  BY <1>1, <1>5 DEF Shows
<1>7. line = [what |-> "handoff", on |-> line.on]
  BY <1>5 DEF CopyOK
<1>8. PlanCanBeFollowed'
  <2>1. CASE as = "printed"
    BY <1>1, <1>5, <2>1 DEF PlanCanBeFollowed
  <2> HIDE DEF ledger
  <2>2. ASSUME as # "printed"
        PROVE  /\ (\E r \in Range(ledger) : r.cve = line.on) =>
                    did' = <<[what |-> "handoff", on |-> line.on]>>
               /\ ~(\E r \in Range(ledger) : r.cve = line.on) => did' = <<>>
    <3>1. Head(todo).target = <<>>
      BY <1>5, <2>2 DEF Shows
    <3>2. {r \in Range(ledger) : r.cve = Head(todo).cve /\ Head(todo).target \in {<<>>, <<r.target>>}}
            = {r \in Range(ledger) : r.cve = line.on}
      BY <1>6, <3>1
    <3> QED BY <1>1, <1>5, <1>6, <3>2
  <2>3. CASE as # "printed" /\ \E r \in Range(ledger) : r.cve = line.on
    <3>1. did' = <<[what |-> "handoff", on |-> line.on]>>
      BY <2>2, <2>3
    <3> QED BY <1>1, <1>5, <1>7, <3>1 DEF PlanCanBeFollowed
  <2>4. CASE as # "printed" /\ ~\E r \in Range(ledger) : r.cve = line.on
    <3>1. did' = <<>>
      BY <2>2, <2>4
    <3>2. Consistent(workspaces[workspace], rows, workspace \in failed)
      BY DEF IInv, WorkspacesOK
    <3>3. \/ doing[1].in # workspace
          \/ Len(ledger) = MAX_LEDGER_ROWS
          \/ workspace \in failed
      <4> SUFFICES ASSUME doing[1].in = workspace, workspace \notin failed,
                          Len(ledger) # MAX_LEDGER_ROWS
                   PROVE  FALSE
        OBVIOUS
      <4>1. IsReported(workspace, line.on)
        <5>1. "handoff" \notin Planned
          BY PlannedAre
        <5> QED BY <1>5, <5>1 DEF CopyOK
      <4>2. PICK i \in 1..Len(rows) : rows[i].cve = line.on
        BY <4>1 DEF IsReported, Has
      <4>3. rows \in Seq(Rows) /\ ledger \in Seq(Rows) /\ Worklist(rows, ledger)
        BY <3>2 DEF Consistent, ledger
      <4>4. \E r \in Range(ledger) : r.cve = rows[i].cve
        <5> HIDE DEF rows, ledger
        <5> QED BY <4>2, <4>3, LeadIsListed
      <4> QED BY <2>4, <4>2, <4>4
    <3> QED BY <1>1, <1>5, <3>1, <3>3 DEF PlanCanBeFollowed, ledger
  <2> QED BY <2>1, <2>3, <2>4
<1>9. LinesOK'
  BY <1>1, <1>2, <1>4, <1>5, <1>6, <1>8, FollowedGoesOn DEF IInv
<1> QED BY <1>2, <1>3, <1>9 DEF IInv

LEMMA ImportStep == IInv /\ CmdImport => IInv'
<1> SUFFICES ASSUME IInv, CmdImport PROVE IInv'
  OBVIOUS
<1> DEFINE ws == workspaces[workspace]
           new == Head(todo).hosts \ DOMAIN ws.graph
           After == [ws EXCEPT !.graph = [h \in DOMAIN ws.graph \cup new |-> Node(ws.graph, h)]]
<1>1. /\ UNCHANGED <<registry, lastSearch, module, workspace, copied, doing, did, reported, failed>>
      /\ todo # <<>> /\ Head(todo).do = "import" /\ todo' = Tail(todo)
      /\ workspaces' = [workspaces EXCEPT ![workspace] = After]
  BY DEF CmdImport, Part, ghosts
<1>2. doing = <<>>
  BY <1>1, OnlyTyped DEF IInv
<1>3. new \in SUBSET Hosts
  <2>1. Head(todo) \in Parts
    BY <1>1, <1>2, TypedPart DEF IInv
  <2>2. Head(todo) \in [do : {"import"}, hosts : SUBSET Hosts]
    BY <1>1, <2>1 DEF Parts
  <2> QED BY <2>2
<1>4. /\ DOMAIN reported = DOMAIN workspaces /\ workspace \in DOMAIN workspaces
      /\ \A n \in DOMAIN workspaces : Consistent(workspaces[n], reported[n], n \in failed)
  BY DEF IInv, WorkspacesOK
<1>5. Consistent(After, reported[workspace], workspace \in failed)
  <2>1. Consistent(ws, reported[workspace], workspace \in failed)
    BY <1>4
  <2>2. (workspace \in failed) \in BOOLEAN
    OBVIOUS
  <2> HIDE DEF new
  <2> QED BY <1>3, <2>1, <2>2, ImportConsistent
<1> HIDE DEF After
<1>6. /\ DOMAIN workspaces' = DOMAIN workspaces
      /\ workspaces'[workspace] = After
      /\ \A n \in DOMAIN workspaces : n # workspace => workspaces'[n] = workspaces[n]
  BY <1>1, <1>4
<1>7. WorkspacesOK'
  <2>1. ASSUME NEW n \in DOMAIN workspaces PROVE Consistent(workspaces'[n], reported[n], n \in failed)
    <3>1. CASE n = workspace
      BY <1>5, <1>6, <3>1
    <3>2. CASE n # workspace
      BY <1>4, <1>6, <3>2
    <3> QED BY <3>1, <3>2
  <2> QED BY <1>1, <1>4, <1>6, <2>1 DEF WorkspacesOK
<1>8. Grows
  BY <1>1, <1>6 DEF Grows, IsReported
<1>9. RegistryOK(registry)' /\ BuiltinsStay'
  BY <1>1, RegistryStays DEF IInv
<1>10. SearchOK' /\ ModuleOK'
  BY <1>1, SearchStays, ModuleStays DEF IInv
<1>11. LinesOK'
  BY <1>1, <1>2, <1>8, TypedStep DEF IInv
<1> QED BY <1>7, <1>9, <1>10, <1>11 DEF IInv

LEMMA WorkspaceStep == IInv /\ CmdWorkspace => IInv'
<1> SUFFICES ASSUME IInv, CmdWorkspace PROVE IInv'
  OBVIOUS
<1> DEFINE name == Head(todo).name
           With(f, x) == [n \in DOMAIN f \cup {name} |-> IF n = name THEN x ELSE f[n]]
<1>1. /\ UNCHANGED <<registry, lastSearch, module, copied, doing, did, failed>>
      /\ todo # <<>> /\ Head(todo).do = "workspace" /\ todo' = Tail(todo)
  BY DEF CmdWorkspace, Part
<1>2. /\ DOMAIN reported = DOMAIN workspaces /\ workspace \in DOMAIN workspaces
      /\ \A n \in DOMAIN workspaces : Consistent(workspaces[n], reported[n], n \in failed)
  BY DEF IInv, WorkspacesOK
<1>3. doing = <<>>
  BY <1>1, OnlyTyped DEF IInv
<1>4. \/ UNCHANGED <<workspaces, reported>> /\ workspace' \in DOMAIN workspaces
      \/ /\ name \notin DOMAIN workspaces /\ workspace' = name
         /\ workspaces' = With(workspaces, NewWorkspace) /\ reported' = With(reported, <<>>)
  <2> DEFINE known == name \in DOMAIN workspaces
             made == /\ ~known
                     /\ Cardinality(DOMAIN workspaces) < MAX_WORKSPACES
                     /\ name \in LegalNames
  <2>1. CASE made
    BY <2>1 DEF CmdWorkspace
  <2>2. CASE ~made
    <3>1. /\ UNCHANGED <<workspaces, reported>>
          /\ workspace' = IF known THEN name ELSE workspace
      BY <2>2 DEF CmdWorkspace
    <3> QED BY <1>2, <3>1
  <2> QED BY <2>1, <2>2
<1>5. WorkspacesOK' /\ Grows
  <2>1. CASE UNCHANGED <<workspaces, reported>> /\ workspace' \in DOMAIN workspaces
    BY <1>1, <1>2, <2>1, NothingMoves DEF WorkspacesOK
  <2>2. CASE /\ name \notin DOMAIN workspaces /\ workspace' = name
             /\ workspaces' = With(workspaces, NewWorkspace) /\ reported' = With(reported, <<>>)
    <3>1. /\ DOMAIN workspaces' = DOMAIN workspaces \cup {name}
          /\ DOMAIN reported' = DOMAIN workspaces \cup {name}
          /\ workspaces'[name] = NewWorkspace /\ reported'[name] = <<>>
          /\ \A n \in DOMAIN workspaces :
               workspaces'[n] = workspaces[n] /\ reported'[n] = reported[n]
      BY <1>2, <2>2
    <3>2. Consistent(NewWorkspace, <<>>, name \in failed)
      BY NewConsistent DEF Consistent
    <3>3. ASSUME NEW n \in DOMAIN workspaces \cup {name}
          PROVE  Consistent(workspaces'[n], reported'[n], n \in failed)
      <4>1. CASE n = name
        BY <3>1, <3>2, <4>1
      <4>2. CASE n \in DOMAIN workspaces
        BY <1>2, <3>1, <4>2
      <4> QED BY <4>1, <4>2
    <3>4. WorkspacesOK'
      BY <1>1, <2>2, <3>1, <3>3 DEF WorkspacesOK
    <3>5. Grows
      BY <1>1, <3>1 DEF Grows, IsReported
    <3> QED BY <3>4, <3>5
  <2> QED BY <1>4, <2>1, <2>2
<1>6. RegistryOK(registry)' /\ BuiltinsStay'
  BY <1>1, RegistryStays DEF IInv
<1>7. SearchOK' /\ ModuleOK'
  BY <1>1, SearchStays, ModuleStays DEF IInv
<1>8. LinesOK'
  BY <1>1, <1>3, <1>5, TypedStep DEF IInv
<1> QED BY <1>5, <1>6, <1>7, <1>8 DEF IInv

LEMMA ExitStep == IInv /\ CmdExit => IInv'
<1> SUFFICES ASSUME IInv, CmdExit PROVE IInv'
  OBVIOUS
<1>1. /\ UNCHANGED <<registry, lastSearch, module, workspaces, workspace, reported, failed, copied, doing>>
      /\ todo # <<>> /\ Head(todo).do = "exit" /\ todo' = Tail(todo)
  BY DEF CmdExit, Part, ghosts
<1>2. Grows /\ RegistryOK(registry)' /\ BuiltinsStay' /\ SearchOK' /\ WorkspacesOK'
  BY <1>1, QuietStep
<1>3. doing = <<>>
  BY <1>1, OnlyTyped DEF IInv
<1>4. ModuleOK'
  BY <1>1, ModuleStays DEF IInv
<1>5. LinesOK'
  BY <1>1, <1>2, <1>3, TypedStep DEF IInv
<1> QED BY <1>2, <1>4, <1>5 DEF IInv

-------------------------------------------------------------------------------
(* The lines that are read. *)

LEMMA TypedAre == Typed \subseteq Seq(Parts)
<1> SUFFICES ASSUME NEW parts \in Typed PROVE parts \in Seq(Parts)
  OBVIOUS
<1>1. \A x \in Parts : <<x>> \in Seq(Parts)
  OBVIOUS
<1>2. CASE \E q \in Queries : parts = <<[do |-> "search", valid |-> TRUE, query |-> q]>>
  <2>1. PICK q \in Queries : parts = <<[do |-> "search", valid |-> TRUE, query |-> q]>>
    BY <1>2
  <2>2. [do |-> "search", valid |-> TRUE, query |-> q] \in Parts
    BY DEF Parts
  <2> QED BY <1>1, <2>1, <2>2
<1>3. CASE parts \in {<<[do |-> "search", valid |-> FALSE]>>, <<[do |-> "back"]>>, <<[do |-> "run"]>>,
                      <<[do |-> "plan"]>>, <<[do |-> "unset", option |-> "RHOST"]>>}
  <2>1. /\ [do |-> "search", valid |-> FALSE] \in Parts /\ [do |-> "back"] \in Parts
        /\ [do |-> "run"] \in Parts /\ [do |-> "plan"] \in Parts
        /\ [do |-> "unset", option |-> "RHOST"] \in Parts
    BY DEF Parts
  <2> QED BY <1>1, <1>3, <2>1
<1>4. CASE parts = <<[do |-> "exit"], [do |-> "run"]>>
  <2>1. [do |-> "exit"] \in Parts /\ [do |-> "run"] \in Parts
    BY DEF Parts
  <2> QED BY <1>4, <2>1
<1>5. CASE \E n \in Range(Names) : parts = <<[do |-> "use", name |-> n]>>
  <2>1. PICK n \in Range(Names) : parts = <<[do |-> "use", name |-> n]>>
    BY <1>5
  <2>2. [do |-> "use", name |-> n] \in Parts
    BY DEF Parts
  <2> QED BY <1>1, <2>1, <2>2
<1>6. CASE \E i \in 0..1 : parts = <<[do |-> "pick", index |-> i]>>
  <2>1. PICK i \in 0..1 : parts = <<[do |-> "pick", index |-> i]>>
    BY <1>6
  <2>2. [do |-> "pick", index |-> i] \in Parts
    BY DEF Parts
  <2> QED BY <1>1, <2>1, <2>2
<1>7. CASE \E o \in {"RHOST", "TOKEN"}, r \in Raw : parts = <<[do |-> "set", option |-> o, raw |-> r]>>
  <2>1. PICK o \in {"RHOST", "TOKEN"}, r \in Raw : parts = <<[do |-> "set", option |-> o, raw |-> r]>>
    BY <1>7
  <2>2. [do |-> "set", option |-> o, raw |-> r] \in Parts
    BY DEF Parts
  <2> QED BY <1>1, <2>1, <2>2
<1>8. CASE \E hs \in {{h} : h \in Hosts} \cup {{}} : parts = <<[do |-> "import", hosts |-> hs]>>
  <2>1. PICK hs \in SUBSET Hosts : parts = <<[do |-> "import", hosts |-> hs]>>
    BY <1>8
  <2>2. [do |-> "import", hosts |-> hs] \in Parts
    BY DEF Parts
  <2> QED BY <1>1, <2>1, <2>2
<1>9. CASE \E n \in WorkspaceNames : parts = <<[do |-> "workspace", name |-> n]>>
  <2>1. PICK n \in WorkspaceNames : parts = <<[do |-> "workspace", name |-> n]>>
    BY <1>9
  <2>2. [do |-> "workspace", name |-> n] \in Parts
    BY DEF Parts
  <2> QED BY <1>1, <2>1, <2>2
<1>10. CASE \E n \in Range(Names), h \in Hosts :
              parts = <<[do |-> "use", name |-> n], [do |-> "set", option |-> "RHOST", raw |-> h],
                        [do |-> "run"], [do |-> "plan"]>>
  <2>1. PICK n \in Range(Names), h \in Hosts :
          parts = <<[do |-> "use", name |-> n], [do |-> "set", option |-> "RHOST", raw |-> h],
                    [do |-> "run"], [do |-> "plan"]>>
    BY <1>10
  <2>2. /\ [do |-> "use", name |-> n] \in Parts
        /\ [do |-> "set", option |-> "RHOST", raw |-> h] \in Parts
        /\ [do |-> "run"] \in Parts /\ [do |-> "plan"] \in Parts
    BY DEF Parts
  <2> QED BY <2>1, <2>2
<1> QED BY <1>2, <1>3, <1>4, <1>5, <1>6, <1>7, <1>8, <1>9, <1>10 DEF Typed

LEMMA ReadKeeps ==
  ASSUME IInv, NEW parts, NEW copy, Read(parts, copy)
  PROVE  /\ Grows /\ RegistryOK(registry)' /\ BuiltinsStay' /\ SearchOK' /\ ModuleOK' /\ WorkspacesOK'
         /\ (copied # <<>> => CopyOK(copied))'
         /\ todo' = parts /\ doing' = copy /\ did' = <<>>
<1>1. /\ UNCHANGED <<registry, lastSearch, module, workspaces, workspace, reported, failed, copied>>
      /\ todo' = parts /\ doing' = copy /\ did' = <<>>
  BY DEF Read, sessionVars
<1>2. Grows /\ RegistryOK(registry)' /\ BuiltinsStay' /\ SearchOK' /\ WorkspacesOK'
  BY <1>1, QuietStep
<1>3. ModuleOK'
  BY <1>1, ModuleStays DEF IInv
<1>4. (copied # <<>> => CopyOK(copied))'
  BY <1>1, <1>2, CopiedStays DEF IInv
<1> QED BY <1>1, <1>2, <1>3, <1>4

LEMMA TypeStep == IInv /\ TypeLine => IInv'
<1> SUFFICES ASSUME IInv, NEW parts \in Typed, Read(parts, <<>>) PROVE IInv'
  BY DEF TypeLine
<1>1. /\ RegistryOK(registry)' /\ BuiltinsStay' /\ SearchOK' /\ ModuleOK' /\ WorkspacesOK'
      /\ (copied # <<>> => CopyOK(copied))' /\ todo' = parts /\ doing' = <<>>
  BY ReadKeeps
<1>2. LinesOK'
  BY <1>1, TypedAre DEF LinesOK
<1> QED BY <1>1, <1>2 DEF IInv

LEMMA FollowStep == IInv /\ FollowLine => IInv'
<1> SUFFICES ASSUME IInv, copied # <<>>, Read(Split(copied[1].line, copied[1].as), copied) PROVE IInv'
  BY DEF FollowLine
<1>1. /\ RegistryOK(registry)' /\ BuiltinsStay' /\ SearchOK' /\ ModuleOK' /\ WorkspacesOK'
      /\ (copied # <<>> => CopyOK(copied))'
      /\ todo' = Split(copied[1].line, copied[1].as) /\ doing' = copied /\ did' = <<>>
  BY ReadKeeps
<1>2. copied' = copied
  BY DEF Read
<1>3. CopyOK(doing)'
  BY <1>1, <1>2 DEF CopyOK
<1>4. Followed'
  BY <1>1, <1>3 DEF Followed, Split
<1>5. LinesOK'
  BY <1>1, <1>4 DEF LinesOK
<1> QED BY <1>1, <1>5 DEF IInv

LEMMA StutterStep == IInv /\ UNCHANGED vars => IInv'
<1> SUFFICES ASSUME IInv, UNCHANGED vars PROVE IInv'
  OBVIOUS
<1>1. UNCHANGED <<registry, lastSearch, module, workspaces, workspace, todo, copied, doing, did,
                  reported, failed>>
  BY DEF vars
<1>2. Grows /\ RegistryOK(registry)' /\ BuiltinsStay' /\ SearchOK' /\ WorkspacesOK'
  BY <1>1, QuietStep
<1>3. ModuleOK'
  BY <1>1, ModuleStays DEF IInv
<1>4. (copied # <<>> => CopyOK(copied))'
  BY <1>1, <1>2, CopiedStays DEF IInv
<1>5. CASE doing = <<>>
  <2>1. LinesOK'
    BY <1>1, <1>4, <1>5 DEF IInv, LinesOK
  <2> QED BY <1>2, <1>3, <2>1 DEF IInv
<1>6. CASE doing # <<>>
  <2>1. Followed
    BY <1>6 DEF IInv, LinesOK
  <2>2. CopyOK(doing)'
    BY <1>1, <1>2, <2>1, DoingStays DEF Followed
  <2>3. PlanCanBeFollowed => PlanCanBeFollowed'
    BY <1>1 DEF PlanCanBeFollowed
  <2>4. Followed'
    BY <1>1, <2>1, <2>2, <2>3 DEF Followed, Split, Used, Create, Default, Aimed, MissingRequired, Target
  <2>5. LinesOK'
    BY <1>1, <1>4, <1>6, <2>4 DEF LinesOK
  <2> QED BY <1>2, <1>3, <2>5 DEF IInv
<1> QED BY <1>5, <1>6

LEMMA Inductive == IInv /\ [Next]_vars => IInv'
<1> SUFFICES ASSUME IInv, [Next]_vars PROVE IInv'
  OBVIOUS
<1>1. CASE TypeLine \/ FollowLine
  BY <1>1, TypeStep, FollowStep
<1>2. CASE CmdSearch \/ CmdUse \/ CmdPick \/ CmdBack \/ CmdSet \/ CmdUnset
  BY <1>2, SearchStep, UseStep, PickStep, BackStep, SetStep, UnsetStep
<1>3. CASE CmdRunRefused \/ CmdRun \/ CmdRunRaises \/ CmdPlan \/ CmdHandoff
  BY <1>3, RefusedStep, RunStep, RaiseStep, PlanStep, HandoffStep
<1>4. CASE CmdImport \/ CmdWorkspace \/ CmdExit
  BY <1>4, ImportStep, WorkspaceStep, ExitStep
<1>5. CASE \E file \in PluginFiles : LoadPath(file)
  BY <1>5, LoadStep
<1>6. CASE UNCHANGED vars
  BY <1>6, StutterStep
<1> QED BY <1>1, <1>2, <1>3, <1>4, <1>5, <1>6 DEF Next

LEMMA Invariance == Spec => []IInv
BY Initial, Inductive, PTL DEF Spec

-------------------------------------------------------------------------------
(* What the operator may rely on. *)

LEMMA FollowedWorks == IInv => PlanCanBeFollowed
<1> SUFFICES ASSUME IInv, doing # <<>>, todo = <<>> PROVE PlanCanBeFollowed
  BY DEF PlanCanBeFollowed
<1>1. Followed
  BY DEF IInv, LinesOK
<1>2. Split(doing[1].line, doing[1].as) # <<>>
  BY DEF Split
<1> QED BY <1>1, <1>2 DEF Followed

LEMMA LedgerLists == IInv => LedgerIsWorklist
<1> SUFFICES ASSUME IInv, NEW n \in DOMAIN workspaces
             PROVE  LET rows == reported[n]
                        first == {i \in DOMAIN rows :
                                    \A j \in 1..(i - 1) : Identity(rows[j]) # Identity(rows[i])}
                        kept == {i \in first : Cardinality({j \in first : j < i}) < MAX_LEDGER_ROWS}
                        ledger == workspaces[n].ledger
                    IN /\ Range(ledger) = {rows[i] : i \in kept}
                       /\ Len(ledger) = Cardinality(kept)
                       /\ \A i, j \in DOMAIN ledger :
                            i < j => ledger[i].priority >= ledger[j].priority
  BY DEF LedgerIsWorklist
<1>1. Worklist(reported[n], workspaces[n].ledger)
  BY DEF IInv, WorkspacesOK, Consistent
<1> QED BY <1>1 DEF Worklist, KeptOf, FirstOf

(* A line of the plan can be followed whatever was selected, set, loaded or   *)
(* imported since it was printed: completed with its host it runs the module  *)
(* it names, once and there; as it is printed it only selects this module,    *)
(* with no option set; a hand-off finds its lead, unless the workspace was    *)
(* left, its ledger is full or a run of it raised (render_plan, _assign,      *)
(* register, cmd_use, cmd_set, cmd_run, cmd_handoff).                         *)
THEOREM PlanCanBeFollowedAlways == Spec => []PlanCanBeFollowed
BY Invariance, FollowedWorks, PTL

(* Whatever runs report, in whatever order and however often, the ledger of a *)
(* workspace holds the first rows of the different leads, as many as it has   *)
(* room for, once each and the most urgent first (merge_ledger).              *)
THEOREM LedgerIsWorklistAlways == Spec => []LedgerIsWorklist
BY Invariance, LedgerLists, PTL

===============================================================================
