-------------------------------- MODULE Engine --------------------------------
(***************************************************************************)
(* reconkg/engine.py: DiscoveryEngine, with the stages it runs             *)
(* (stages.py), the writes it makes to the knowledge graph (store.py,      *)
(* models.py) and the ingress that feeds it (app.py).                      *)
(*                                                                         *)
(* A scan suspends in three places only: at the lock of its target, in     *)
(* asyncio.wait_for while a stage runs in a task of its own, and between   *)
(* the end of that task and its own resumption.  Everything else, the      *)
(* writes to the store and the correlation included, runs to completion:   *)
(* no lock of the store is ever contended and no subscriber blocks.        *)
(* Anything can happen at the three places: other scans, new evidence,     *)
(* a timeout, cancellation.                                                *)
(*                                                                         *)
(* A version string is the CVE-bearing identity of a fingerprint; product  *)
(* names are left out, so there is one product per port.                   *)
(***************************************************************************)
EXTENDS Confidence, Sequences, FiniteSets

CONSTANTS
  Targets, Ports, Versions, Principals,
  WebPorts,    (* the ports whose service is http                            *)
  Affected,    (* [port, version] pairs some CVE of the reference matches    *)
  MaxHead,     (* MAX_PROVENANCE_HEAD: oldest entries a log keeps            *)
  MaxTail,     (* MAX_PROVENANCE_TAIL: newest entries a log keeps            *)
  Scans,       (* requests to scan                                           *)
  Staged,      (* evidence there may be before the first request             *)
  Offers,      (* [tool, data] pairs that may be submitted later             *)
  MaxPuts      (* bound: submissions                                         *)

Unresolved == "?"     \* a fingerprint without a version

(* The pipeline: slots of one technique and its fallbacks. *)
Pipeline == << <<"syn", "connect">>, <<"banner", "deep">>, <<"web">> >>
Sweeps == {"syn", "connect"}
Probes == {"banner", "deep"}
Tools == Sweeps \cup Probes \cup {"web"}

(* What a probe says of each port it saw. *)
Entry == [version : Versions \cup {Unresolved}, ambiguous : BOOLEAN]
Report == UNION {[S -> Entry] : S \in SUBSET Ports}

(* Evidence of a tool: nothing, something its stage trips over, what it saw, *)
(* or an adapter that computes what it saw and may take too long.            *)
Nothing == [kind |-> "nothing"]
Broken == [kind |-> "broken"]
Data(tool) ==
  {Nothing, Broken} \cup
  IF tool \in Sweeps THEN [kind : {"seen", "adapter"}, ports : SUBSET Ports \ {{}}]
                     ELSE [kind : {"seen", "adapter"}, report : Report]

NoEvidence == [data |-> Nothing, by |-> "system"]
Evidence(tool) == {NoEvidence} \cup [data : Data(tool), by : Principals]

ASSUME EngineAssumption ==
  /\ WebPorts \subseteq Ports
  /\ Affected \subseteq Ports \X Versions
  /\ MaxHead \in Nat \ {0}
  /\ MaxTail \in Nat \ {0}
  /\ "system" \notin Principals
  /\ "none" \notin Targets
  /\ Unresolved \notin Versions
  /\ MaxPuts \in Nat
  /\ \A e \in Staged :
       /\ e \in [Tools \X Targets -> UNION {Evidence(tool) : tool \in Tools}]
       /\ \A k \in Tools \X Targets : e[k] \in Evidence(k[1])
  /\ \A o \in Offers : o.tool \in Tools /\ o.data \in Data(o.tool)

VARIABLES
  evidence,   (* EvidenceSource: what each tool last saw of each target     *)
  graph,      (* TargetStore: what is known of each target                  *)
  queue,      (* the lock of each target: its holder, then those waiting    *)
  scan,       (* the coroutine of each request                              *)
  reports,    (* AppState.reports                                           *)
  puts        (* what MaxPuts bounds                                        *)

vars == <<evidence, graph, queue, scan, reports, puts>>

-----------------------------------------------------------------------------
(* The graph of one target. *)

(* log is the provenance log, as the principals of its entries.  heard and   *)
(* sources are no state of the program: every submitter the log ever named,  *)
(* and who really submitted what the fingerprint rests on.                   *)
NoFingerprint == [level |-> 0 - 1]
Fingerprint ==
  [level : Level, ambiguous : BOOLEAN,
   log : Seq(Principals \cup {"system"}),
   heard : SUBSET (Principals \cup {"system"}),
   sources : SUBSET (Principals \cup {"system"})]
Keys == Ports \X (Versions \cup {Unresolved})
Fingerprints == [Keys -> Fingerprint \cup {NoFingerprint}]
NoFingerprints == [k \in Keys |-> NoFingerprint]
Lead == [port : Ports, version : Versions, disputed : BOOLEAN]

Host ==
  [known : BOOLEAN, ports : SUBSET Ports, services : SUBSET Ports, leads : SUBSET Lead,
   fps : Fingerprints]
EmptyHost(known) ==
  [known |-> known, ports |-> {}, services |-> {}, leads |-> {},
   fps |-> NoFingerprints]

(* Fingerprint keys somebody has made a claim about. *)
Claimed(h) == {k \in Keys : h.fps[k] # NoFingerprint}

(* CorrelationConfig.min_confidence. *)
Floor == 4500
Credible(h) == {k \in Claimed(h) : h.fps[k].level >= Floor /\ k[2] # Unresolved}

(* Two credible, unambiguous versions of one port cannot both be true. *)
Disputed(h, k) ==
  ~h.fps[k].ambiguous /\
  \E other \in Credible(h) : other[1] = k[1] /\ other[2] # k[2] /\ ~h.fps[other].ambiguous

(* build_leads() over every fingerprint: none for a version no CVE affects,  *)
(* and one that stands for the rest, cut or not, for any other.              *)
Ledger(h) ==
  {[port |-> k[1], version |-> k[2], disputed |-> Disputed(h, k)] :
     k \in Credible(h) \cap Affected}

(* Mutant: leads are told apart by CVE alone, not by fingerprint. *)
Correlated_ByPort(h) ==
  [h EXCEPT !.leads = @ \cup {row \in Ledger(h) : \A l \in h.leads : l.port # row.port}]

(* record_lead(): the first lead on a fingerprint stays as it was recorded. *)
Correlated(h) ==
  [h EXCEPT !.leads = @ \cup {row \in Ledger(h) :
                                 \A l \in h.leads : l.port # row.port \/ l.version # row.version}]

-----------------------------------------------------------------------------
(* Stages: what one makes of its evidence. *)

(* default_registry(), and the confidence a stage assigns when none is given. *)
Reliability == [banner |-> 7500, deep |-> 9000, web |-> 8500]
Declared == [banner |-> 6000, deep |-> 6000, web |-> 7000]
DecayFactor == [syn |-> 6000, connect |-> 6000, banner |-> 5000, deep |-> 5000, web |-> 6000]

Claim(tool, ambiguous) ==
  Scaled(IF ambiguous /\ tool \in Probes THEN Declared[tool] \div 2 ELSE Declared[tool],
         Reliability[tool])

Outcomes == {"success", "ambiguous", "timeout", "error", "no_data", "skipped"}

(* Mutant: AMBIGUOUS settles a slot. *)
NeedsFallback_Hasty(outcome) == outcome \in {"timeout", "error", "no_data"}

NeedsFallback(outcome) == outcome \in {"ambiguous", "timeout", "error", "no_data"}

EmptyReport == [p \in {} |-> Unresolved]
StageResults ==
  [outcome : Outcomes, ports : SUBSET Ports, report : Report, scope : SUBSET Ports,
   source : Principals \cup {"system"}]
Result(outcome, scope) ==
  [outcome |-> outcome, ports |-> {}, report |-> EmptyReport, scope |-> scope, source |-> "system"]

(* A banner without a version is ambiguous, whatever it says of itself. *)
Vague(e) == e.ambiguous \/ e.version = Unresolved

ProbeResult(seen) ==
  LET report == [p \in DOMAIN seen |-> [seen[p] EXCEPT !.ambiguous = Vague(seen[p])]]
      vague == {p \in DOMAIN seen : report[p].ambiguous}
  IN  IF DOMAIN seen = {} THEN Result("no_data", {})
      ELSE IF vague # {} THEN [Result("ambiguous", vague) EXCEPT !.report = report]
      ELSE [Result("success", DOMAIN seen) EXCEPT !.report = report]

WebResult(seen, web) ==
  LET apps == DOMAIN seen \cap web IN
  IF apps = {} THEN Result("no_data", {})
  ELSE [Result("success", web) EXCEPT !.report = [p \in apps |-> seen[p]]]

(* context: the services this very scan has recorded. *)
StageResult(tool, data, context) ==
  IF tool = "web" /\ context \cap WebPorts = {} THEN Result("skipped", {})
  ELSE IF data = Nothing THEN Result("no_data", {})
  ELSE IF data = Broken THEN Result("error", context)
  ELSE IF tool \in Sweeps
    THEN [Result("success", data.ports) EXCEPT !.ports = data.ports]
  ELSE IF tool \in Probes THEN ProbeResult(data.report)
  ELSE WebResult(data.report, context \cap WebPorts)

-----------------------------------------------------------------------------
(* What the engine does with the result of a stage. *)

(* Mutant: the newest entries only, without the head. *)
Bounded_TailOnly(log) ==
  IF Len(log) <= MaxHead + MaxTail THEN log
  ELSE SubSeq(log, Len(log) - (MaxHead + MaxTail) + 1, Len(log))

(* _append_bounded(): the head is kept and the middle elided. *)
Bounded(log) ==
  IF Len(log) <= MaxHead + MaxTail THEN log
  ELSE SubSeq(log, 1, MaxHead) \o SubSeq(log, Len(log) - MaxTail + 1, Len(log))

(* corroborating_principals, before the new observation is appended. *)
Named(fp, by) == \E i \in DOMAIN fp.log : fp.log[i] = by

Upserted(fp, claim, ambiguous, by, source) ==
  IF fp = NoFingerprint
    THEN [level |-> claim, ambiguous |-> ambiguous,
          log |-> <<by>>, heard |-> {by}, sources |-> {source}]
    ELSE [level |-> Folded(fp.level, claim, Named(fp, by)),
          ambiguous |-> fp.ambiguous /\ ambiguous,
          log |-> Bounded(Append(fp.log, by)), heard |-> fp.heard \cup {by},
          sources |-> fp.sources \cup {source}]

(* Observations about a port that was never recorded are rejected one by one. *)
Landed(h, result) == DOMAIN result.report \cap h.ports

(* _apply(): set_service and record_fingerprint of each observation that lands. *)
Applied(h, tool, result, by) ==
  LET landed == Landed(h, result) IN
  [h EXCEPT
    !.ports = @ \cup result.ports,
    !.services = @ \cup landed,
    !.fps = [k \in Keys |->
               IF k[1] \in landed /\ result.report[k[1]].version = k[2]
                 THEN LET ambiguous == result.report[k[1]].ambiguous IN
                      Upserted(@[k], Claim(tool, ambiguous), ambiguous, by, result.source)
                 ELSE @[k]]]

(* Mutant: a stage that examined nothing counts against the fingerprints. *)
Spares_Skipped(outcome) == outcome = "skipped"

(* NO_DATA is not a downgrade: nothing was examined. *)
Spares(outcome) == outcome \in {"no_data", "skipped"}

Decayed(fp, tool) ==
  [fp EXCEPT !.level = Scaled(@, DecayFactor[tool]), !.log = Bounded(Append(@, "system"))]

(* An empty scope is every port. *)
Suspect(h, k, result) ==
  /\ k \in Claimed(h)
  /\ result.scope = {} \/ k[1] \in result.scope
  /\ result.outcome = "ambiguous" => h.fps[k].ambiguous

(* _downgrade() *)
Downgraded(h, tool, result) ==
  IF Spares(result.outcome) THEN h
  ELSE [h EXCEPT !.fps = [k \in Keys |->
          IF Suspect(h, k, result) THEN Decayed(h.fps[k], tool) ELSE h.fps[k]]]

-----------------------------------------------------------------------------
(* Coroutines of the requests. *)

(* found is no state of the program: the fingerprints a scan started from. *)
NoResult == [outcome |-> "none"]
Idle(st, target) ==
  [st |-> st, target |-> target, slot |-> 1, index |-> 1, context |-> {},
   held |-> NoEvidence, result |-> NoResult, attempts |-> <<>>, exhausted |-> {}, found |-> NoFingerprints]
NoScan == Idle("new", "none")
NoReport == [done |-> FALSE]

Tool(r) == Pipeline[scan[r].slot][scan[r].index]
Seen(r) == evidence[<<Tool(r), scan[r].target>>]

Attempt == [slot : DOMAIN Pipeline, index : 1..2, outcome : Outcomes]
ScanState ==
  [st : {"new", "waiting", "calling", "hanging", "answered", "done", "cancelled"},
   target : Targets \cup {"none"}, slot : DOMAIN Pipeline, index : 1..2,
   context : SUBSET Ports, held : UNION {Evidence(tool) : tool \in Tools},
   result : StageResults \cup {NoResult}, attempts : Seq(Attempt),
   exhausted : SUBSET DOMAIN Pipeline, found : Fingerprints]
ReportState ==
  {NoReport} \cup
  [done : {TRUE}, scan : Scans, ledger : SUBSET Lead, attempts : Seq(Attempt),
   exhausted : SUBSET DOMAIN Pipeline]

TypeOK ==
  /\ evidence \in [Tools \X Targets -> UNION {Evidence(tool) : tool \in Tools}]
  /\ \A k \in Tools \X Targets : evidence[k] \in Evidence(k[1])
  /\ graph \in [Targets -> Host]
  /\ queue \in [Targets -> Seq(Scans)]
  /\ scan \in [Scans -> ScanState]
  /\ \A r \in Scans :
       /\ scan[r].st # "new" => scan[r].target \in Targets
       /\ scan[r].index \in DOMAIN Pipeline[scan[r].slot]
       /\ scan[r].held \in Evidence(Tool(r))
       /\ scan[r].st = "answered" =>
            /\ scan[r].result # NoResult
            /\ Tool(r) \in Sweeps => DOMAIN scan[r].result.report = {}
  /\ reports \in [Targets -> ReportState]
  /\ puts \in 0..MaxPuts

Init ==
  /\ evidence \in Staged
  /\ graph = [t \in Targets |->
                EmptyHost(\E tool \in Tools : evidence[<<tool, t>>] # NoEvidence)]
  /\ queue = [t \in Targets |-> <<>>]
  /\ scan = [r \in Scans |-> NoScan]
  /\ reports = [t \in Targets |-> NoReport]
  /\ puts = 0

(* POST /api/targets. *)
CreateTarget(t) ==
  /\ ~graph[t].known
  /\ graph' = [graph EXCEPT ![t].known = TRUE]
  /\ UNCHANGED <<evidence, queue, scan, reports, puts>>

(* POST /api/evidence: the data, and who submitted it. *)
Submit(p, t) ==
  /\ graph[t].known
  /\ puts < MaxPuts
  /\ \E o \in Offers : evidence' = [evidence EXCEPT ![<<o.tool, t>>] = [data |-> o.data, by |-> p]]
  /\ puts' = puts + 1
  /\ UNCHANGED <<graph, queue, scan, reports>>

(* POST /api/targets/{address}/scan, up to the lock of the target. *)
Request(r, t) ==
  /\ scan[r].st = "new"
  /\ graph[t].known
  /\ scan' = [scan EXCEPT ![r].st = "waiting", ![r].target = t]
  /\ queue' = [queue EXCEPT ![t] = Append(@, r)]
  /\ UNCHANGED <<evidence, graph, reports, puts>>

(* Mutant: every scan finds a lock of its own. *)
MayBegin_Always(r) == scan[r].st = "waiting"

MayBegin(r) == scan[r].st = "waiting" /\ Head(queue[scan[r].target]) = r

(* The lock is taken and the first stage starts in its task. *)
Begin(r) ==
  /\ MayBegin(r)
  /\ scan' = [scan EXCEPT ![r].st = "calling", ![r].found = graph[scan[r].target].fps]
  /\ UNCHANGED <<evidence, graph, queue, reports, puts>>

Answer(r, result) ==
  /\ scan' = [scan EXCEPT ![r].st = "answered", ![r].held = NoEvidence, ![r].result = result]
  /\ UNCHANGED <<evidence, graph, queue, reports, puts>>

Found(r, seen) ==
  [StageResult(Tool(r), seen.data, scan[r].context) EXCEPT !.source = seen.by]

(* The task of the stage collects its evidence: unless that is an adapter to *)
(* wait for, and a precondition of the stage is met, it ends with it.        *)
Collect(r) ==
  LET seen == Seen(r)
      waits == seen.data.kind = "adapter" /\ Found(r, seen).outcome # "skipped"
  IN
  /\ scan[r].st = "calling"
  /\ \/ ~waits /\ Answer(r, Found(r, seen))
     \/ /\ waits
        /\ scan' = [scan EXCEPT ![r].st = "hanging", ![r].held = seen]
        /\ UNCHANGED <<evidence, graph, queue, reports, puts>>

(* The adapter comes back, or raises. *)
AdapterEnds(r) ==
  /\ scan[r].st = "hanging"
  /\ Answer(r, Found(r, scan[r].held)) \/ Answer(r, Result("error", scan[r].context))

(* Mutant: no wait_for around a stage. *)
TimeOut_Never(r) == FALSE /\ UNCHANGED vars

(* wait_for gives up on it. *)
TimeOut(r) ==
  /\ scan[r].st = "hanging"
  /\ Answer(r, Result("timeout", scan[r].context))

(* Where _run_locked goes on to after an attempt: [slot, index], slot 4 being the end. *)
Following(slot, index, outcome) ==
  IF NeedsFallback(outcome) /\ index < Len(Pipeline[slot])
    THEN [slot |-> slot, index |-> index + 1]
    ELSE [slot |-> slot + 1, index |-> 1]

(* What the scan writes of its result: what the stage learnt, as submitted   *)
(* by whoever principal_for() names now, less what it failed to confirm.     *)
Written(r) ==
  LET result == scan[r].result
      host == Applied(graph[scan[r].target], Tool(r), result, Seen(r).by)
  IN  IF NeedsFallback(result.outcome) THEN Downgraded(host, Tool(r), result) ELSE host

Onward(r) == Following(scan[r].slot, scan[r].index, scan[r].result.outcome)
Attempts(r) ==
  Append(scan[r].attempts,
         [slot |-> scan[r].slot, index |-> scan[r].index, outcome |-> scan[r].result.outcome])
Exhausted(r) ==
  scan[r].exhausted \cup
  {slot \in {scan[r].slot} : NeedsFallback(scan[r].result.outcome) /\ Onward(r).slot # slot}
Context(r) ==
  scan[r].context \cup
  IF Tool(r) \in Probes THEN Landed(graph[scan[r].target], scan[r].result) ELSE {}

(* The scan picks up the result and starts the next stage. *)
Advance(r) ==
  /\ scan[r].st = "answered"
  /\ Onward(r).slot \in DOMAIN Pipeline
  /\ graph' = [graph EXCEPT ![scan[r].target] = Written(r)]
  /\ scan' = [scan EXCEPT ![r] =
                [@ EXCEPT !.st = "calling", !.slot = Onward(r).slot, !.index = Onward(r).index,
                          !.context = Context(r), !.held = NoEvidence, !.result = NoResult,
                          !.attempts = Attempts(r), !.exhausted = Exhausted(r)]]
  /\ UNCHANGED <<evidence, queue, reports, puts>>

(* The scan picks up the result of the last stage, correlates and reports. *)
Conclude(r) ==
  LET t == scan[r].target IN
  /\ scan[r].st = "answered"
  /\ Onward(r).slot \notin DOMAIN Pipeline
  /\ graph' = [graph EXCEPT ![t] = Correlated(Written(r))]
  /\ reports' = [reports EXCEPT ![t] =
                   [done |-> TRUE, scan |-> r, ledger |-> Ledger(Written(r)),
                    attempts |-> Attempts(r), exhausted |-> Exhausted(r)]]
  /\ scan' = [scan EXCEPT ![r] = Idle("done", t)]
  /\ queue' = [queue EXCEPT ![t] = Tail(@)]
  /\ UNCHANGED <<evidence, puts>>

Resume(r) == Advance(r) \/ Conclude(r)

(* A queue without one of its members. *)
Without(q, r) ==
  LET at == CHOOSE i \in DOMAIN q : q[i] = r
  IN  [i \in 1..(Len(q) - 1) |-> q[IF i < at THEN i ELSE i + 1]]

(* The request is cancelled at one of its awaits: the lock, or its place in *)
(* the queue, is given up; what was written stays.                          *)
Cancel(r) ==
  /\ scan[r].st \in {"waiting", "calling", "hanging", "answered"}
  /\ scan' = [scan EXCEPT ![r] = Idle("cancelled", scan[r].target)]
  /\ queue' = [queue EXCEPT ![scan[r].target] = Without(@, r)]
  /\ UNCHANGED <<evidence, graph, reports, puts>>

ScanStep(r) == Begin(r) \/ Collect(r) \/ AdapterEnds(r) \/ TimeOut(r) \/ Resume(r)

Next ==
  \/ \E t \in Targets : CreateTarget(t) \/ (\E p \in Principals : Submit(p, t))
  \/ \E r \in Scans : ScanStep(r) \/ Cancel(r) \/ (\E t \in Targets : Request(r, t))

Spec == Init /\ [][Next]_vars

(* Coroutines that can run do run; an adapter may hang, the timer of its     *)
(* stage does not.                                                           *)
Fairness ==
  \A r \in Scans :
    /\ WF_vars(Begin(r))
    /\ WF_vars(Collect(r))
    /\ WF_vars(TimeOut(r))
    /\ WF_vars(Resume(r))

FairSpec == Spec /\ Fairness

-----------------------------------------------------------------------------
(* Properties. *)

Running(r) == scan[r].st \in {"calling", "hanging", "answered"}

(* run() serialises the scans of a target: no two of them are past its lock, *)
(* whoever is cancelled, in the queue or inside a stage.                     *)
OneScanPerTarget ==
  \A r, other \in Scans :
    Running(r) /\ Running(other) /\ scan[r].target = scan[other].target => r = other

(* The most a single submitter's claim can be worth. *)
BestClaim == 5950

(* RC-01b: what only one submitter was ever named on in the log is never     *)
(* worth more than its best single claim, however many tools it reports      *)
(* under, how often it is scanned again, what was decayed in between, and    *)
(* whatever of the log has been cut: the head names the first submitter.     *)
OneOpinion ==
  \A t \in Targets : \A k \in Claimed(graph[t]) :
    Cardinality(graph[t].fps[k].heard) <= 1 => graph[t].fps[k].level <= BestClaim

Silent(a) == a.outcome \in {"no_data", "skipped"} \/ (a.slot = 1 /\ a.outcome = "success")

(* NO_DATA and SKIPPED are no evidence: a scan that has met nothing else     *)
(* but ports leaves every fingerprint as it found it, and so do the others.  *)
SilenceIsNoEvidence ==
  \A r \in Scans :
    Running(r) /\ (\A i \in DOMAIN scan[r].attempts : Silent(scan[r].attempts[i]))
      => graph[scan[r].target].fps = scan[r].found

(* What a report says of a slot is what became of its techniques: they were  *)
(* tried one after the other, in order, up to the first that was a success   *)
(* or skipped, and the slot is exhausted iff there was none and none is left. *)
Explained(attempts, exhausted, slot) ==
  LET tried == {i \in DOMAIN attempts : attempts[i].slot = slot}
      settled == {i \in tried : attempts[i].outcome \in {"success", "skipped"}}
  IN  \E before \in 0..Len(attempts), n \in DOMAIN Pipeline[slot] :
        /\ tried = (before + 1)..(before + n)
        /\ \A i \in 1..n : attempts[before + i].index = i
        /\ IF slot \in exhausted
             THEN settled = {} /\ n = Len(Pipeline[slot])
             ELSE settled = {before + n}

(* The failure record explains the report, slot by slot.                     *)
AttemptsExplainReport ==
  \A t \in Targets : reports[t].done =>
    \A slot \in DOMAIN Pipeline :
      Explained(reports[t].attempts, reports[t].exhausted, slot)

(* What the analyst was shown survives with the graph: every row of the last *)
(* report of a target is a lead on the same version in its graph, however    *)
(* often it was scanned, contested, decayed and claimed again; and a target   *)
(* that has no report yet, its scans being cancelled, has no lead.           *)
LedgerIsRecorded ==
  \A t \in Targets :
    /\ reports[t].done => \A row \in reports[t].ledger :
         \E l \in graph[t].leads : l.port = row.port /\ l.version = row.version
    /\ ~reports[t].done => graph[t].leads = {}

(* Every request to scan ends, whatever hangs, fails or is cancelled.        *)
EveryScanEnds ==
  \A r \in Scans : scan[r].st = "waiting" ~> scan[r].st \in {"done", "cancelled"}

(* models.py: "A principal we have already heard from cannot compound its    *)
(* own claim", by who really submitted the evidence.                         *)
NoSelfCorroboration ==
  \A t \in Targets : \A k \in Claimed(graph[t]) :
    Cardinality(graph[t].fps[k].sources) <= 1 => graph[t].fps[k].level <= BestClaim

(* models.py: the same claim by the log's own account, "no matter how many    *)
(* source_tool labels it rotates through": where nobody new is heard, no     *)
(* fingerprint rises above both what it was and the best single claim.       *)
HeardCannotCompound ==
  [][\A t \in Targets : \A k \in Claimed(graph[t]) :
       LET old == graph[t].fps[k]  new == graph'[t].fps[k] IN
       new.heard = old.heard => new.level <= old.level \/ new.level <= BestClaim]_vars

(* stages.py: scope_ports are the "Ports whose existing fingerprints should  *)
(* be downgraded on a bad outcome".                                          *)
DowngradeInScope ==
  [][\A t \in Targets : \A k \in Claimed(graph[t]) :
       graph'[t].fps[k].level < graph[t].fps[k].level =>
         \E r \in Scans :
           scan[r].target = t /\ scan[r].st = "answered" /\ k[1] \in scan[r].result.scope]_vars
=============================================================================
