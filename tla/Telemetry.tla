------------------------------- MODULE Telemetry -------------------------------
(***************************************************************************)
(* reconkg/observability.py: counters and histograms with a cap on their   *)
(* label sets, the subscriber that feeds them from the store, and the ASGI *)
(* middleware that counts and times requests. Routes of app.py call it,    *)
(* and the engine emits what it counts.                                    *)
(*                                                                         *)
(* Every change of a metric is a run of dict operations without an await,  *)
(* and so is part of the step that makes it: a request is one step, and a  *)
(* scan one at the lock of its target and one for each event of its        *)
(* pipeline. Between any two of them it may break off.                     *)
(***************************************************************************)
EXTENDS Integers, Sequences, FiniteSets, SequencesExt

CONSTANTS
  Requests,      (* HTTP requests                                            *)
  Call,          (* Requests -> [template, path, method, principal, target]  *)
  Targets,
  Raw,           (* values callers choose                                    *)
  Clean,         (* Raw -> labels: _clean_label_value()                      *)
  Bounds,        (* buckets of the histograms, strictly increasing           *)
  MaxSeries,     (* max_series                                               *)
  MaxEmitted     (* bound: events and outcomes of requests                   *)

Counters ==
  {"scans_started", "scans_finished", "stage_outcomes", "stage_fallbacks", "rejected",
   "leads", "leads_disputed", "downgrades", "change_events", "evidence", "ratelimited",
   "auth_failures", "http_requests", "cardinality"}
Histograms == {"stage_duration", "scan_duration", "http_duration"}
Metrics == Counters \cup Histograms

(* How many labels each has (default_specs()).                                *)
Width(m) ==
  IF m \in {"stage_outcomes", "http_requests"} THEN 3
  ELSE IF m \in {"scans_finished", "downgrades", "evidence", "ratelimited", "stage_duration",
                 "http_duration"} THEN 2
  ELSE 1

ASSUME TelemetryAssumption ==
  /\ Call \in [Requests -> [template : STRING, path : STRING, method : STRING,
                            principal : Raw, target : Targets]]
  /\ Clean \in [Raw -> STRING]
  /\ Targets \subseteq STRING
  /\ Bounds \in Seq(Nat) /\ \A i, j \in 1..Len(Bounds) : i < j => Bounds[i] < Bounds[j]
  /\ MaxSeries \in Nat \ {0} /\ MaxEmitted \in Nat

VARIABLES
  series,        (* _Family.series of each metric: key to value              *)
  capped,        (* _Family.capped_events                                    *)
  seen,          (* no state of the program: what was observed under each    *)
                 (* key, folded or not                                       *)
  task,          (* what each request does                                   *)
  emitted

vars == <<series, capped, seen, task, emitted>>

Other == "_other"
OverflowKey(m) == [i \in 1..Width(m) |-> Other]

(* A counter, or a histogram: counts has a slot for +Inf.                     *)
Zero(m) ==
  IF m \in Counters THEN [total |-> 0, counts |-> <<>>]
  ELSE [total |-> 0, counts |-> [i \in 1..(Len(Bounds) + 1) |-> 0]]

Init ==
  /\ series = [m \in Metrics |-> <<>>]
  /\ capped = [m \in Metrics |-> 0]
  /\ seen = [m \in Metrics |-> <<>>]
  /\ task = [r \in Requests |-> "new"]
  /\ emitted = 0

-------------------------------------------------------------------------------
(* One observation [m, key, amount, value]: value is what a histogram gets.   *)
(* A registry is [series, capped, seen].                                      *)

Obs(m, key) == [m |-> m, key |-> key, amount |-> 1, value |-> 0]
ObsOf(m, key, amount) == [m |-> m, key |-> key, amount |-> amount, value |-> 0]
Timing(m, key, value) == [m |-> m, key |-> key, amount |-> 1, value |-> value]

With(f, k, v) == [x \in DOMAIN f \cup {k} |-> IF x = k THEN v ELSE f[x]]

(* Mutant: there is no overflow series; a fold lands on one that is there.    *)
Resolve_Dropping(s, m, key) ==
  IF key \in DOMAIN s[m] \/ Cardinality(DOMAIN s[m]) < MaxSeries THEN key
  ELSE CHOOSE k \in DOMAIN s[m] : TRUE

(* resolve(): the key to use; the overflow series is exempt from the cap.     *)
Resolve(s, m, key) ==
  IF key \in DOMAIN s[m] \/ key = OverflowKey(m)
     \/ Cardinality(DOMAIN s[m] \ {OverflowKey(m)}) < MaxSeries
  THEN key ELSE OverflowKey(m)

Folded(s, m, key) == Resolve(s, m, key) # key

(* _Histogram.observe(): the first bucket that holds the value.               *)
Slots(v) ==
  {i \in 1..(Len(Bounds) + 1) :
     /\ i > Len(Bounds) \/ v <= Bounds[i]
     /\ \A j \in 1..(i - 1) : v > Bounds[j]}

Added(x, o) ==
  [total |-> x.total + o.amount,
   counts |-> [i \in DOMAIN x.counts |-> IF i \in Slots(o.value) THEN x.counts[i] + 1 ELSE x.counts[i]]]

(* inc() and observe(), before they note that the cap was met.                *)
Recorded(reg, o) ==
  LET key == Resolve(reg.series, o.m, o.key)
      old == IF key \in DOMAIN reg.series[o.m] THEN reg.series[o.m][key] ELSE Zero(o.m)
      was == IF o.key \in DOMAIN reg.seen[o.m] THEN reg.seen[o.m][o.key] ELSE 0
  IN [series |-> [reg.series EXCEPT ![o.m] = With(reg.series[o.m], key, Added(old, o))],
      capped |-> [reg.capped EXCEPT ![o.m] = IF Folded(reg.series, o.m, o.key) THEN @ + 1 ELSE @],
      seen   |-> [reg.seen EXCEPT ![o.m] = With(reg.seen[o.m], o.key, was + o.amount)]]

(* Mutant: _note_cap() is silent. *)
Noted_Silent(reg, o) == Recorded(reg, o)

(* _note_cap(): a fold is an observation of its own.                          *)
Noted(reg, o) ==
  LET new == Recorded(reg, o) IN
  IF Folded(reg.series, o.m, o.key) /\ o.m # "cardinality"
  THEN Recorded(new, Obs("cardinality", <<o.m>>)) ELSE new

(* A run of observations, in order. *)
Observe(os) ==
  LET reg[n \in 0..Len(os)] ==
        IF n = 0 THEN [series |-> series, capped |-> capped, seen |-> seen]
        ELSE Noted(reg[n - 1], os[n])
      new == reg[Len(os)] IN
  /\ series' = new.series
  /\ capped' = new.capped
  /\ seen' = new.seen

-------------------------------------------------------------------------------
(* The subscriber. An event is [kind, target] and what its payload tells.     *)

Changed(kind) == Obs("change_events", <<kind>>)

(* Mutant: the rejection variant of stage.finished falls through. *)
StageFinished_Overloaded(stage, e) ==
  IF e.rejected > 0
  THEN <<ObsOf("rejected", <<stage>>, e.rejected), Obs("stage_outcomes", <<e.slot, stage, "None">>)>>
  ELSE <<Obs("stage_outcomes", <<e.slot, stage, e.outcome>>),
         Timing("stage_duration", <<e.slot, stage>>, e.took)>>

(* _stage_finished(): the kind has two shapes. *)
StageFinished(stage, e) ==
  IF e.rejected > 0 THEN <<ObsOf("rejected", <<stage>>, e.rejected)>>
  ELSE <<Obs("stage_outcomes", <<e.slot, stage, e.outcome>>),
         Timing("stage_duration", <<e.slot, stage>>, e.took)>>

(* _handle() *)
Handle(kind, target, e) ==
  <<Changed(kind)>> \o
  CASE kind = "pipeline.started" -> <<Obs("scans_started", <<target>>)>>
    [] kind = "pipeline.finished" ->
         <<Obs("scans_finished", <<target, IF e.exhausted THEN "exhausted" ELSE "ok">>)>>
    [] kind = "stage.finished" -> StageFinished("stage", e)
    [] kind = "lead.added" ->
         <<Obs("leads", <<target>>)>> \o
         (IF e.disputed THEN <<Obs("leads_disputed", <<target>>)>> ELSE <<>>)
    [] kind = "fingerprint.confidence_changed" ->
         IF e.down THEN <<Obs("downgrades", <<target, "failed">>)>> ELSE <<>>
    [] OTHER -> <<>>

-------------------------------------------------------------------------------
(* Requests.                                                                  *)

(* _route_label() *)
RouteLabel(r, status) ==
  IF Call[r].template # "" THEN Call[r].template
  ELSE IF status \in {"404", "405"} THEN "_unmatched" ELSE Call[r].path

(* The middleware, when the application has returned or raised. *)
Served(r, status, took) ==
  LET route == RouteLabel(r, status) IN
  <<Obs("http_requests", <<Call[r].method, route, status>>),
    Timing("http_duration", <<Call[r].method, route>>, took)>>

Emits(os) ==
  /\ emitted < MaxEmitted /\ emitted' = emitted + 1
  /\ Observe(os)

Ends(r, os, status, took) ==
  /\ task' = [task EXCEPT ![r] = "done"]
  /\ Emits(os \o Served(r, status, took))

Routed(r) == Call[r].template # ""
ScanRoute == "/api/targets/{address}/scan"
Principal(r) == Clean[Call[r].principal]

(* A request no route matches, with a path or a method the caller chose. *)
Unmatched(r, took) ==
  /\ task[r] = "new" /\ ~Routed(r)
  /\ \E status \in {"404", "405"} : Ends(r, <<>>, status, took)

(* require_principal() refuses and calls the hook of lifespan(). *)
Unauthenticated(r, took) ==
  /\ task[r] = "new" /\ Routed(r)
  /\ Ends(r, <<Obs("auth_failures", <<"missing">>)>>, "401", took)

(* create_target(), put_evidence() and scan() past their bucket. *)
RateLimited(r, took) ==
  /\ task[r] = "new" /\ Routed(r)
  /\ Ends(r, <<Obs("ratelimited", <<Principal(r), Call[r].template>>)>>, "429", took)

(* put_evidence(), answered or not once it has counted what it took in. *)
PutEvidence(r, took) ==
  /\ task[r] = "new" /\ Call[r].template = "/api/evidence"
  /\ \E status \in {"201", "500"} :
       Ends(r, <<Obs("evidence", <<Principal(r), "tool">>)>>, status, took)

(* scan() reaches the engine, and the lock of its target. *)
ScanQueues(r) ==
  /\ task[r] = "new" /\ Call[r].template = ScanRoute
  /\ task' = [task EXCEPT ![r] = "queued"]
  /\ UNCHANGED <<series, capped, seen, emitted>>

(* The lock is free, and the host known to the store. *)
ScanStarts(r) ==
  /\ task[r] = "queued"
  /\ \A q \in Requests : task[q] = "scanning" => Call[q].target # Call[r].target
  /\ task' = [task EXCEPT ![r] = "scanning"]
  /\ Emits(Handle("pipeline.started", Call[r].target, <<>>))

(* What the engine emits while a scan runs. *)
ScanEmits(r, kind, e) ==
  /\ task[r] = "scanning"
  /\ Emits(Handle(kind, Call[r].target, e))
  /\ UNCHANGED task

StagePayload(took) ==
  [slot : {"ports"}, outcome : {"ok", "timeout"}, rejected : {0, 2}, took : {took}]

(* The first n observations record_scan_report() makes. *)
Reported(r, n, took) ==
  IF n = 0 THEN <<>>
  ELSE <<Timing("scan_duration", <<Call[r].target>>, took)>>
         \o [i \in 1..(n - 1) |-> Obs("stage_fallbacks", <<"ports">>)]

Finished(r, exhausted) == Handle("pipeline.finished", Call[r].target, [exhausted |-> exhausted])

(* The pipeline ends and its report is recorded. *)
ScanEnds(r, exhausted, fallbacks, took) ==
  /\ task[r] = "scanning"
  /\ Ends(r, Finished(r, exhausted) \o Reported(r, fallbacks + 1, took), "200", took)

(* The pipeline ends, and its report is not recorded in full, or not answered. *)
ReportBreaks(r, exhausted, n, took) ==
  /\ task[r] = "scanning"
  /\ Ends(r, Finished(r, exhausted) \o Reported(r, n, took), "500", took)

(* Mutant: what there is of a report is recorded in a finally clause. *)
Breaks_Timed(r, took) ==
  /\ task[r] \in {"new", "queued", "scanning"} /\ Routed(r)
  /\ Ends(r, Reported(r, IF task[r] = "scanning" THEN 1 ELSE 0, took), "500", took)

(* The client is gone, or a route raises, before, at the lock or in a scan:  *)
(* no response ever started.                                                 *)
Breaks(r, took) ==
  /\ task[r] \in {"new", "queued", "scanning"} /\ Routed(r)
  /\ Ends(r, <<>>, "500", took)

Next ==
  \/ \E r \in Requests : ScanQueues(r)
  \/ \E r \in Requests, took \in {0, 2} :
       \/ Unmatched(r, took) \/ Unauthenticated(r, took) \/ RateLimited(r, took)
       \/ PutEvidence(r, took)
       \/ ScanStarts(r)
       \/ \E e \in StagePayload(took) : ScanEmits(r, "stage.finished", e)
       \/ \E disputed \in BOOLEAN : ScanEmits(r, "lead.added", [disputed |-> disputed])
       \/ \E down \in BOOLEAN : ScanEmits(r, "fingerprint.confidence_changed", [down |-> down])
       \/ \E exhausted \in BOOLEAN, fallbacks \in {0, 2} : ScanEnds(r, exhausted, fallbacks, took)
       \/ \E exhausted \in BOOLEAN, n \in {0, 1, 3} : ReportBreaks(r, exhausted, n, took)
       \/ Breaks(r, took)

Spec == Init /\ [][Next]_vars

-------------------------------------------------------------------------------
(* total() *)
Total(m) == SumFunction([key \in DOMAIN series[m] |-> series[m][key].total])

(* cumulative(), which snapshot() and render_prometheus() both expose.        *)
Cumulative(m, key) ==
  [i \in 1..(Len(Bounds) + 1) |-> SumFunctionOnSet(series[m][key].counts, 1..i)]

-------------------------------------------------------------------------------
(* The cap holds, loses nothing and misfiles nothing: a series that has a     *)
(* place counts all that was observed under its labels, and _other the rest.  *)
FoldingIsExact ==
  \A m \in Metrics :
    LET kept == DOMAIN series[m] \ {OverflowKey(m)}
        rest == DOMAIN seen[m] \ kept
    IN /\ Cardinality(kept) <= MaxSeries
       /\ \A key \in kept : series[m][key].total = seen[m][key]
       /\ Total(m) = SumFunction(seen[m])
       /\ rest # {} <=> OverflowKey(m) \in DOMAIN series[m]

(* The meta-counter says of every metric how often it was folded, unless it   *)
(* was folded itself.                                                         *)
FoldsAreReported ==
  /\ Total("cardinality") = SumFunctionOnSet(capped, Metrics \ {"cardinality"})
  /\ \A m \in Metrics \ {"cardinality"} :
       <<m>> \in DOMAIN series["cardinality"] => series["cardinality"][<<m>>].total = capped[m]

(* Requests for a scan that got no answer, by the middleware's account. *)
Broken(key) == key[2] = ScanRoute /\ key[3] = "500"
ScansBroken ==
  SumFunction([key \in DOMAIN seen["http_requests"] |->
                 IF Broken(key) THEN seen["http_requests"][key] ELSE 0])

(* Metrics fed by one event agree, whatever is folded in each of them: every  *)
(* outcome of a stage is timed, a disputed lead is a lead, and every request  *)
(* is counted and timed. Those fed along the way of a scan account for it     *)
(* wherever it breaks off: it has a duration only if it finished, it finished *)
(* only if it started and is no longer under way, and if it started and has   *)
(* no duration it is under way or among the 500s of its route. The buckets a  *)
(* scrape shows of a histogram grow up to its count.                          *)
FamiliesAgree ==
  /\ Total("stage_outcomes") = Total("stage_duration")
  /\ Total("leads_disputed") <= Total("leads")
  /\ LET under == Cardinality({r \in Requests : task[r] = "scanning"})
     IN /\ Total("scan_duration") <= Total("scans_finished")
        /\ Total("scans_finished") + under <= Total("scans_started")
        /\ Total("scans_started") <= Total("scan_duration") + under + ScansBroken
  /\ Total("http_requests") = Total("http_duration")
  /\ Total("http_requests") = Cardinality({r \in Requests : task[r] = "done"})
  /\ \A m \in Histograms : \A key \in DOMAIN series[m] :
       LET c == Cumulative(m, key)
       IN /\ \A i \in 1..Len(Bounds) : c[i] <= c[i + 1]
          /\ c[Len(Bounds) + 1] = series[m][key].total

===============================================================================
