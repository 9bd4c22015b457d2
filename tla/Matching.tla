------------------------------- MODULE Matching -------------------------------
(***************************************************************************)
(* From an NVD file to the leads of a fingerprint: the reading of records  *)
(* (reconkg/feeds.py), the corpus and its SQL (vulndb.py, builddb.py), the *)
(* choice of a resolver (resolver.py), the comparison of versions and of   *)
(* applicability statements (vulnref.py, cpe.py) and the ranking.          *)
(*                                                                         *)
(* The operator fetches files into a directory, whose records builddb      *)
(* ingests from the first to the last in batches, and which may end        *)
(* between two of them. He does not fetch while he builds. A lookup only   *)
(* reads, so it is an operator of the state and no step.                   *)
(*                                                                         *)
(* A version is the sequence of its tokens, <<1, n>> for a number and      *)
(* <<0, k>> for the k-th word in alphabetical order. NoVersion stands for  *)
(* *, - and none at all. Only the attributes that are matched are kept of  *)
(* a CPE, and its wildcard is "*".                                         *)
(***************************************************************************)
EXTENDS Integers, Sequences, FiniteSets, SequencesExt, Sorting

CONSTANTS
  CVEs,          (* identifiers: the order of the numbers is theirs          *)
  Files,         (* what a fetch may bring: sequences of NVD records         *)
  Fingerprints,
  AliasOf,       (* product of a CPE -> its name in words                    *)
  Naming,        (* name in words -> the fingerprinted products it occurs in *)
  Known,         (* _KNOWN_PRODUCTS: product -> [vendor, product]            *)
  Reference,     (* DEFAULT_REFERENCE: a sequence of entries                 *)
  Exploited,     (* the CVEs in the KEV catalogue                            *)
  Likelihood,    (* EPSS, in percent, of the CVEs that have one              *)
  Indexed,       (* infer_maturity(): the weight, in percent, that the       *)
                 (* public tooling for a CVE gives it                        *)
  Limit,         (* of the rows of a lookup                                  *)
  MaxStatements, (* MAX_CPE_RANGES_PER_CVE                                   *)
  BatchSize,     (* of an ingest                                             *)
  MinConfidence, (* min_confidence, in percent                               *)
  MaxLeads,      (* max_leads_per_service                                    *)
  StaleAfter,    (* FEED_STALE_AFTER of nvd                                  *)
  MajorDigits,   (* of a leading number that _major() reads                  *)
  Rank,          (* no part of the program: versions in the order that is    *)
                 (* meant, equal ranks for equal versions                    *)
  MaxDay,        (* bound: days                                              *)
  MaxFiles       (* bound: files in the directory                            *)

(* What there is to match. A bound that is not given is NoVersion.            *)

NoVersion == <<>>
Version == Seq({0, 1} \X Nat)
Bound == DOMAIN Rank \cup {NoVersion}

CPE == [part : STRING, vendor : STRING, product : STRING, version : Bound]

Statement ==
  [part : STRING, vendor : STRING, product : STRING, version : Bound,
   vsi : Bound, vse : Bound, vei : Bound, vee : Bound, vulnerable : BOOLEAN]

(* An NVD record has an identifier that can be used or not, a score in tenths *)
(* and a flat list of matches.                                                *)
Match == [negate : BOOLEAN, parses : BOOLEAN, statement : Statement]
Record == [cve : CVEs, usable : BOOLEAN, cvss : 0..100, matches : Seq(Match)]

(* A fingerprint has a CPE, whose part is "" when there is none or it cannot  *)
(* be parsed, a product and a version of its own, a confidence, a number of   *)
(* principals behind it, and the mark of a distribution's build.              *)
Fingerprint ==
  [cpe : CPE, product : STRING, version : Bound, confidence : 0..100, principals : Nat,
   marked : BOOLEAN]

(* ExploitMaturity.weight, in percent. *)
Maturity == {40, 50, 70, 90, 100}

(* An entry of the built-in reference has constraints and no statements.      *)
Constraint == {"<", "<=", ">", ">="} \X DOMAIN Rank
Declared ==
  [cve : CVEs, cvss : 0..100, product : STRING \ {""}, constraints : Seq(Constraint) \ {<<>>},
   statements : {<<>>}, requires_version : BOOLEAN, maturity : Maturity]

ASSUME MatchingAssumption ==
  /\ {Limit, MaxStatements, BatchSize, MaxLeads, MajorDigits} \subseteq Nat \ {0}
  /\ {MinConfidence, StaleAfter, MaxDay, MaxFiles} \subseteq Nat
  /\ IsFiniteSet(CVEs) /\ CVEs \subseteq Nat
  /\ Files \subseteq Seq(Record)
  /\ Fingerprints \subseteq Fingerprint
  /\ Reference \in Seq(Declared)
  /\ Exploited \subseteq CVEs
  /\ DOMAIN Likelihood \subseteq CVEs /\ \A c \in DOMAIN Likelihood : Likelihood[c] \in 0..100
  /\ DOMAIN Indexed \subseteq CVEs /\ \A c \in DOMAIN Indexed : Indexed[c] \in Maturity

VARIABLES
  configured,    (* RECONKG_VULN_DB: "unset", "missing" or "set"             *)
  resolver,      (* "none" yet, "static", "corpus", or "refused"             *)
  day,
  files,         (* the directory: [at, records], in the order of the names  *)
  left,          (* what the running build has still to ingest               *)
  building,
  cve,           (* table cve: CVE -> its columns, or Absent                 *)
  applicability, (* table applicability, as a set of rows                    *)
  product_alias, (* table product_alias, as a set                            *)
  fetched_at,    (* of the row for nvd in feed_source, 0 without one         *)
  fed            (* no state of the program: the entry last ingested for a   *)
                 (* CVE, as a sequence of at most one                        *)

matchingVars == <<configured, resolver, day, files, left, building, cve, applicability,
                  product_alias, fetched_at, fed>>

Absent == [in |-> FALSE, cvss |-> 0, product |-> ""]

InitMatching ==
  /\ configured \in {"unset", "missing", "set"}
  /\ resolver = "none"
  /\ day = 1
  /\ files = <<>>
  /\ left = <<>>
  /\ building = FALSE
  /\ cve = [c \in CVEs |-> Absent]
  /\ applicability = {}
  /\ product_alias = {}
  /\ fetched_at = 0
  /\ fed = [c \in CVEs |-> <<>>]

-------------------------------------------------------------------------------
(* Versions.                                                                  *)

(* _ABSENT: below a number, but above a word.                                 *)
Padded(v, i) == IF i \in DOMAIN v THEN v[i] ELSE <<1, 0>>

TokenLess(s, t) == s[1] < t[1] \/ (s[1] = t[1] /\ s[2] < t[2])

(* compare_versions(u, v) < 0. *)
Less(u, v) ==
  \E i \in 1..Max({Len(u), Len(v)}) :
    /\ TokenLess(Padded(u, i), Padded(v, i))
    /\ \A j \in 1..(i - 1) : Padded(u, j) = Padded(v, j)

(* Rank is the order of compare_versions().                                   *)
ASSUME RankAssumption ==
  /\ DOMAIN Rank \subseteq Version
  /\ \A u, v \in DOMAIN Rank : Rank[u] \in Int /\ (Rank[u] < Rank[v] <=> Less(u, v))

Same(u, v) == ~Less(u, v) /\ ~Less(v, u)

(* version_satisfies(), which refuses a version without any number. *)
HasNumber(v) == \E i \in DOMAIN v : v[i][1] = 1
Satisfies(v, op, bound) ==
  CASE op = "<"  -> Less(v, bound)
    [] op = "<=" -> ~Less(bound, v)
    [] op = ">"  -> Less(bound, v)
    [] op = ">=" -> ~Less(v, bound)

(* _major(): the leading number, cut to its first digits; -1 without one.     *)
Cut(n) == LET excess == Min({e \in 0..9 : n \div 10^e < 10^MajorDigits}) IN n \div 10^excess
Major(v) == IF v # NoVersion /\ v[1][1] = 1 THEN Cut(v[1][2]) ELSE -1

-------------------------------------------------------------------------------
(* Reading a file.                                                            *)

CpeRanges(record) ==
  LET usable == Sorted({i \in DOMAIN record.matches :
                          ~record.matches[i].negate /\ record.matches[i].parses},
                       LAMBDA i, j : i < j)
  IN [k \in 1..Min({MaxStatements, Len(usable)}) |-> record.matches[usable[k]].statement]

(* The product of the first statement that has one. *)
ProductMatch(statements) ==
  LET i == SelectInSeq(statements, LAMBDA s : s.product # "*")
  IN IF i = 0 THEN "" ELSE AliasOf[statements[i].product]

NvdEntry(record) ==
  [cve |-> record.cve, cvss |-> record.cvss, product |-> ProductMatch(CpeRanges(record)),
   constraints |-> <<>>, statements |-> CpeRanges(record), requires_version |-> FALSE,
   maturity |-> 50]

(* Where the records that can be used are: <<file, record>>.                  *)
Usable ==
  UNION {{i} \X {m \in DOMAIN files[i].records : files[i].records[m].usable} : i \in DOMAIN files}
EntryAt(p) == NvdEntry(files[p[1]].records[p[2]])

(* load_nvd() of one file after the other. *)
NvdEntries ==
  LET order == Sorted(Usable, LAMBDA p, q : p[1] < q[1] \/ (p[1] = q[1] /\ p[2] < q[2]))
  IN [k \in DOMAIN order |-> EntryAt(order[k])]

-------------------------------------------------------------------------------
(* The corpus.                                                                *)

(* The row of the n-th statement of an entry; the majors are those of its     *)
(* bounds, and the including bound is taken before the excluding one.         *)
RowOf(e, n) ==
  LET s == e.statements[n]
  IN [cve |-> e.cve, nth |-> n, statement |-> s,
      lo |-> Major(IF s.vsi # NoVersion THEN s.vsi ELSE s.vse),
      hi |-> Major(IF s.vei # NoVersion THEN s.vei ELSE s.vee)]

RowsOf(e) == {RowOf(e, n) : n \in DOMAIN e.statements}

(* Of two entries for a CVE in a batch the last one is written. *)
Survives(batch, i) == \A j \in (i + 1)..Len(batch) : batch[j].cve # batch[i].cve
Written(batch) == {batch[i] : i \in {j \in DOMAIN batch : Survives(batch, j)}}

(* What a batch does to the tables, given the entries of it that are written. *)
Write(entries) ==
  LET ids == {e.cve : e \in entries}
      Of(c) == CHOOSE e \in entries : e.cve = c
  IN /\ cve' = [c \in CVEs |->
                  IF c \in ids THEN [in |-> TRUE, cvss |-> Of(c).cvss, product |-> Of(c).product]
                  ELSE cve[c]]
     /\ applicability' =
          {r \in applicability : r.cve \notin ids} \cup UNION {RowsOf(e) : e \in entries}
     /\ product_alias' =
          {a \in product_alias : a.cve \notin ids}
            \cup {[cve |-> e.cve, alias |-> e.product] : e \in {x \in entries : x.product # ""}}
     /\ fed' = [c \in CVEs |-> IF c \in ids THEN <<Of(c)>> ELSE fed[c]]

WriteBatch ==
  /\ building /\ left # <<>>
  /\ LET n == Min({BatchSize, Len(left)})
     IN /\ Write(Written(SubSeq(left, 1, n)))
        /\ left' = SubSeq(left, n + 1, Len(left))
  /\ UNCHANGED <<configured, resolver, day, files, building, fetched_at>>

(* A fetch adds a file, whose records are newer than those there are.         *)
FetchFile ==
  /\ ~building
  /\ Len(files) < MaxFiles /\ day < MaxDay
  /\ \E records \in Files : files' = Append(files, [at |-> day, records |-> records])
  /\ day' = day + 1
  /\ UNCHANGED <<configured, resolver, left, building, cve, applicability, product_alias,
                 fetched_at, fed>>

(* builddb reads every file of the directory again. *)
Build ==
  /\ ~building
  /\ files # <<>>
  /\ building' = TRUE
  /\ left' = NvdEntries
  /\ UNCHANGED <<configured, resolver, day, files, cve, applicability, product_alias,
                 fetched_at, fed>>

(* record_provenance(), which takes the manifest's word for when the files    *)
(* were fetched: that of the last one. A row for the feed is replaced.        *)
RecordProvenance ==
  /\ building /\ left = <<>>
  /\ building' = FALSE
  /\ fetched_at' = Last(files).at
  /\ UNCHANGED <<configured, resolver, day, files, left, cve, applicability, product_alias, fed>>

(* Mutant: the provenance is written whatever became of the build. *)
BuildInterrupted_Stamped ==
  /\ building
  /\ building' = FALSE
  /\ left' = <<>>
  /\ fetched_at' = Last(files).at
  /\ UNCHANGED <<configured, resolver, day, files, cve, applicability, product_alias, fed>>

BuildInterrupted ==
  /\ building
  /\ building' = FALSE
  /\ left' = <<>>
  /\ UNCHANGED <<configured, resolver, day, files, cve, applicability, product_alias,
                 fetched_at, fed>>

NextDay ==
  /\ day < MaxDay
  /\ day' = day + 1
  /\ UNCHANGED <<configured, resolver, files, left, building, cve, applicability, product_alias,
                 fetched_at, fed>>

(* from_env(): a corpus that is named but not there stops the program.        *)
FromEnv ==
  /\ resolver = "none"
  /\ resolver' = CASE configured = "unset"   -> "static"
                   [] configured = "missing" -> "refused"
                   [] configured = "set"     -> "corpus"
  /\ UNCHANGED <<configured, day, files, left, building, cve, applicability, product_alias,
                 fetched_at, fed>>

NextMatching ==
  \/ FetchFile \/ Build \/ WriteBatch \/ RecordProvenance \/ BuildInterrupted
  \/ NextDay \/ FromEnv

SpecMatching == InitMatching /\ [][NextMatching]_matchingVars

-------------------------------------------------------------------------------
(* The lookup.                                                                *)

(* Mutant: a row whose last major is the observed one is left out. *)
Narrowed_Strict(cpe) ==
  LET major == Major(cpe.version)
  IN {r \in applicability :
        /\ r.statement.part = cpe.part
        /\ r.statement.vendor \in {cpe.vendor, "*"}
        /\ r.statement.product \in {cpe.product, "*"}
        /\ major = -1 \/ r.lo = -1 \/ r.lo <= major
        /\ major = -1 \/ r.hi = -1 \/ r.hi > major}

(* The WHERE of candidates_for_cpe(). *)
Narrowed(cpe) ==
  LET major == Major(cpe.version)
  IN {r \in applicability :
        /\ r.statement.part = cpe.part
        /\ r.statement.vendor \in {cpe.vendor, "*"}
        /\ r.statement.product \in {cpe.product, "*"}
        /\ major = -1 \/ r.lo = -1 \/ r.lo <= major
        /\ major = -1 \/ r.hi = -1 \/ r.hi >= major}

(* Its ORDER BY, with the order of the rows in the table.                     *)
Order(cpe, r) ==
  CASE Major(cpe.version) = -1 \/ r.lo = Major(cpe.version) -> 0
    [] Major(cpe.version) # -1 /\ r.lo = -1                 -> 1
    [] OTHER                                                -> 2

Precedes(cpe, r, s) ==
  \/ Order(cpe, r) < Order(cpe, s)
  \/ Order(cpe, r) = Order(cpe, s) /\ r.cve > s.cve
  \/ Order(cpe, r) = Order(cpe, s) /\ r.cve = s.cve /\ r.nth < s.nth

(* Its LIMIT: one more than the limit is asked for. *)
CandidateRows(cpe) ==
  LET rows == Narrowed(cpe)
  IN {r \in rows : Cardinality({s \in rows : Precedes(cpe, s, r)}) <= Limit}

(* _rows_to_entries(): what a lookup did not return of an entry is not there, *)
(* and an entry without statements asks for a version.                        *)
Entry(c, statements) ==
  [cve |-> c, cvss |-> cve[c].cvss, product |-> cve[c].product, constraints |-> <<>>,
   statements |-> statements, requires_version |-> statements = <<>>, maturity |-> 50]

CandidatesForCpe(cpe) ==
  LET rows == CandidateRows(cpe)
      Of(c) == Sorted({r \in rows : r.cve = c}, LAMBDA r, s : Precedes(cpe, r, s))
  IN {Entry(c, [k \in DOMAIN Of(c) |-> Of(c)[k].statement]) : c \in {r.cve : r \in rows}}

(* Its LIMIT of 200, which has no order, is above the number of CVEs here.    *)
CandidatesForProduct(product) ==
  {Entry(a.cve, <<>>) : a \in {b \in product_alias : product \in Naming[b.alias]}}

Candidates(fp) ==
  CASE resolver = "static" -> Range(Reference)
    [] resolver = "corpus" /\ fp.cpe.part # "" -> CandidatesForCpe(fp.cpe)
    [] resolver = "corpus" /\ fp.cpe.part = "" -> CandidatesForProduct(fp.product)
    [] OTHER -> {}

(* CPERange._within_window(). *)
WithinWindow(s, v) ==
  /\ s.vsi # NoVersion => ~Less(v, s.vsi)
  /\ s.vse # NoVersion => Less(s.vse, v)
  /\ s.vei # NoVersion => ~Less(s.vei, v)
  /\ s.vee # NoVersion => Less(v, s.vee)

HasWindow(s) == \E b \in {s.vsi, s.vse, s.vei, s.vee} : b # NoVersion

(* attribute_matches(). *)
AttributeMatches(criterion, candidate) == criterion \in {candidate, "*"}

(* CPERange.matches(): the method, or "no". *)
Method(s, cpe) ==
  CASE ~s.vulnerable \/ ~AttributeMatches(s.part, cpe.part)
         \/ ~AttributeMatches(s.vendor, cpe.vendor)
         \/ ~AttributeMatches(s.product, cpe.product) -> "no"
    [] OTHER ->
         CASE HasWindow(s) /\ cpe.version # NoVersion /\ WithinWindow(s, cpe.version) -> "range"
           [] ~HasWindow(s) /\ s.version # NoVersion /\ cpe.version # NoVersion
                /\ Same(cpe.version, s.version) -> "exact"
           [] ~HasWindow(s) /\ s.version = NoVersion -> "product"
           [] OTHER -> "no"

(* infer_cpe(), for a fingerprint without a CPE. *)
Observed(fp) ==
  IF fp.cpe.part = "" /\ fp.product \in DOMAIN Known
  THEN [part |-> "a", vendor |-> Known[fp.product].vendor, product |-> Known[fp.product].product,
        version |-> fp.version]
  ELSE fp.cpe

(* VulnEntry._product_match(). *)
ProductMatches(e, fp) ==
  /\ e.product # "" /\ fp.product \in Naming[e.product]
  /\ IF fp.version = NoVersion THEN ~e.requires_version
     ELSE \A i \in DOMAIN e.constraints :
            HasNumber(fp.version)
              /\ Satisfies(fp.version, e.constraints[i][1], e.constraints[i][2])

(* VulnEntry.matches(): the method of the first statement that matches, and   *)
(* of the product's name only for want of statements or of a CPE.             *)
MethodOf(e, fp) ==
  IF Observed(fp).part # "" /\ e.statements # <<>>
  THEN LET matching == {i \in DOMAIN e.statements : Method(e.statements[i], Observed(fp)) # "no"}
       IN IF matching = {} THEN "no" ELSE Method(e.statements[Min(matching)], Observed(fp))
  ELSE IF ~ProductMatches(e, fp) THEN "no"
  ELSE IF fp.version = NoVersion THEN "product" ELSE "substring"

(* MatchMethod.weight, in percent. *)
Weight == [exact |-> 100, range |-> 95, substring |-> 75, product |-> 30]

(* Mutant: a probability is taken before membership. *)
Factor_EpssFirst(c) ==
  CASE c \in DOMAIN Likelihood -> 1000 + 5 * Likelihood[c]
    [] c \in Exploited \ DOMAIN Likelihood -> 1600
    [] OTHER -> 1000

(* ExploitationSignals.factor(), in thousandths. *)
Factor(c) ==
  CASE c \in Exploited -> 1600
    [] c \notin Exploited /\ c \in DOMAIN Likelihood -> 1000 + 5 * Likelihood[c]
    [] OTHER -> 1000

(* _corroboration_bonus(), in eighths. *)
Bonus(fp) == IF fp.principals = 0 THEN 8 ELSE Min({7 + fp.principals, 10})

(* infer_maturity(), which never downgrades. *)
Inferred(e) ==
  IF e.cve \in DOMAIN Indexed THEN Max({e.maturity, Indexed[e.cve]}) ELSE e.maturity

(* score(), in ten-thousandths, to which every number below is rounded. The   *)
(* weight of a maturity is 50 for every entry of a corpus.                    *)
Score(e, fp, method) ==
  LET product == e.cvss * (fp.confidence * Bonus(fp) * Weight[method] * Inferred(e))
  IN Min({(product + 40000) \div 80000, 10000})

(* The penalties for a build of a distribution and for a contradiction.       *)
Doubted(priority, fp, contradicted) ==
  LET backported == IF fp.marked THEN (priority + 2) \div 4 ELSE priority
  IN IF contradicted THEN (backported + 1) \div 2 ELSE backported

Priority(e, fp, method, contradicted) ==
  Doubted(Min({(Score(e, fp, method) * Factor(e.cve) + 500) \div 1000, 10000}), fp, contradicted)

(* build_leads() before it is cut. A fingerprint without a version gives none *)
(* by default.                                                                *)
Matched(fp, contradicted) ==
  IF fp.confidence < MinConfidence \/ fp.version = NoVersion THEN {}
  ELSE {l \in {LET m == MethodOf(e, fp)
               IN [cve |-> e.cve, cvss |-> e.cvss, maturity |-> Inferred(e), method |-> m,
                   priority |-> IF m = "no" THEN 0 ELSE Priority(e, fp, m, contradicted)] :
               e \in Candidates(fp)} : l.method # "no"}

(* Only the leads with the highest priority are reported. Of equal ones those *)
(* that were found first are, which is left open.                             *)
Reported(leads) == {l \in leads : Cardinality({k \in leads : k.priority > l.priority}) < MaxLeads}

(* describe(): what it says of a corpus. *)
Describe ==
  CASE \A c \in CVEs : ~cve[c].in -> "empty"
    [] (\E c \in CVEs : cve[c].in) /\ fetched_at = 0 -> "unknown"
    [] (\E c \in CVEs : cve[c].in) /\ fetched_at # 0 /\ day - fetched_at > StaleAfter -> "stale"
    [] OTHER -> "fresh"

-------------------------------------------------------------------------------
(* Properties.                                                                *)

(* What a statement says, by the order that is meant.                         *)
Affects(s, cpe) ==
  LET v == Rank[cpe.version]
  IN /\ s.vulnerable
     /\ s.part = cpe.part
     /\ s.vendor \in {cpe.vendor, "*"} /\ s.product \in {cpe.product, "*"}
     /\ s.vsi # NoVersion => v >= Rank[s.vsi]
     /\ s.vse # NoVersion => v > Rank[s.vse]
     /\ s.vei # NoVersion => v <= Rank[s.vei]
     /\ s.vee # NoVersion => v < Rank[s.vee]
     /\ ~HasWindow(s) /\ s.version # NoVersion => v = Rank[s.version]

AffectedBy(e, cpe) == \E s \in Range(e.statements) : Affects(s, cpe)

Meets(fp, constraint) ==
  LET v == Rank[fp.version]
      b == Rank[constraint[2]]
  IN CASE constraint[1] = "<" -> v < b [] constraint[1] = "<=" -> v <= b
       [] constraint[1] = ">" -> v > b [] constraint[1] = ">=" -> v >= b

Precise(fp) ==
  /\ fp.cpe.part # "" /\ fp.cpe.version # NoVersion
  /\ fp.version # NoVersion /\ fp.confidence >= MinConfidence

Truncated(cpe) == Cardinality(Narrowed(cpe)) > Limit
Leads(fp) == {l.cve : l \in Matched(fp, FALSE)}

(* A fingerprint with a CPE and a version gets a lead for exactly those CVEs  *)
(* whose record, as it was last ingested, says that it is affected, unless    *)
(* the lookup was cut short: the SQL narrows by major version, orders and     *)
(* groups (vulndb.py:399), and rows are replaced when a record is ingested    *)
(* again, but none of it changes an answer. From the built-in reference it    *)
(* gets those whose constraints it meets.                                     *)
LookupIsExact ==
  \A fp \in Fingerprints :
    /\ resolver = "corpus" /\ Precise(fp) /\ ~Truncated(fp.cpe) =>
         Leads(fp) = {c \in CVEs : fed[c] # <<>> /\ AffectedBy(fed[c][1], fp.cpe)}
    /\ resolver = "static" /\ Precise(fp) =>
         Leads(fp) = {e.cve : e \in {x \in Range(Reference) :
                                      /\ fp.product \in Naming[x.product]
                                      /\ HasNumber(fp.version)
                                      /\ \A k \in DOMAIN x.constraints : Meets(fp, x.constraints[k])}}

(* No lead for a vulnerability that was fetched longer ago than the refresh   *)
(* window allows means that describe() has a warning for its reader, however  *)
(* many builds were interrupted (resolver.py:136). A record that was revised  *)
(* is left out: a build ingests its old version again before the new one.     *)
NoLeadsIsExplained ==
  resolver = "corpus" /\ Describe = "fresh" =>
    LET due == {p \in Usable :
                  /\ day - files[p[1]].at > StaleAfter
                  /\ \A q \in Usable : EntryAt(q).cve = EntryAt(p).cve => q = p}
    IN due # {} =>
         \A fp \in Fingerprints :
           Precise(fp) /\ ~Truncated(fp.cpe) =>
             {EntryAt(p).cve : p \in {q \in due : AffectedBy(EntryAt(q), fp.cpe)}} \subseteq Leads(fp)

(* A lead for a vulnerability that is known to be exploited, of a score of 7.5 *)
(* or more, and one for a vulnerability that no feed has a sign of, found      *)
(* alike.                                                                      *)
Attacked(l, k) ==
  /\ l.cve \in Exploited /\ l.cvss >= 75
  /\ k.cve \notin Exploited \cup DOMAIN Likelihood
  /\ l.method = k.method /\ l.maturity = k.maturity

(* The first is ranked before the second whatever the score of that, and not  *)
(* cut from the leads in favour of it (feeds.py:398), unless both are at the  *)
(* clamp, where neither is before the other (vulnref.py:302).                 *)
ExploitedIsKept ==
  resolver \in {"static", "corpus"} =>
    \A fp \in Fingerprints, contradicted \in BOOLEAN :
      \A matched \in {Matched(fp, contradicted)} :
        \A l \in matched, k \in Reported(matched) :
          Attacked(l, k) =>
            /\ l.priority >= k.priority
            /\ k.priority < Doubted(10000, fp, contradicted) =>
                 l.priority > k.priority /\ l \in Reported(matched)

(* What vulnref.py:338 says: the factor is applied before the clamp, so that  *)
(* it can reorder. score() has clamped the number by then.                    *)
AttackedGoesFirst ==
  resolver = "corpus" =>
    \A fp \in Fingerprints :
      \A matched \in {Matched(fp, FALSE)} :
        \A l, k \in matched : Attacked(l, k) => l.priority > k.priority

(* What vulndb.py:639 says: the narrowing is never too strict. A row that     *)
(* applies to what was observed is among those that a lookup reads.           *)
NeverTooStrict ==
  resolver = "corpus" =>
    \A fp \in Fingerprints :
      {r \in applicability : r.statement.part = fp.cpe.part /\ Method(r.statement, fp.cpe) # "no"}
        \subseteq Narrowed(fp.cpe)

===============================================================================
