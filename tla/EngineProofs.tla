----------------------------- MODULE EngineProofs -----------------------------
(***************************************************************************)
(* What holds of the engine for every value of the constants: types, one   *)
(* scan per target, one opinion per submitter, silence that is no evidence,*)
(* and reports that explain themselves and survive in the graph.           *)
(***************************************************************************)
EXTENDS Engine, TLAPS, FiniteSetTheorems

-----------------------------------------------------------------------------
(* The inductive invariant. *)

(* The queue of a target holds its unfinished scans, each once, and only the *)
(* scan at its head is past the lock.                                        *)
Active(r) == scan[r].st \in {"waiting", "calling", "hanging", "answered"}

Distinct(q) == \A i, j \in DOMAIN q : q[i] = q[j] => i = j
Holds(q, r) == \E i \in DOMAIN q : q[i] = r

QueueOK ==
  \A t \in Targets :
    /\ Distinct(queue[t])
    /\ \A r \in Scans : Holds(queue[t], r) <=> Active(r) /\ scan[r].target = t
    /\ \A r \in Scans : Running(r) /\ scan[r].target = t => Head(queue[t]) = r

(* Observations rest on evidence somebody submitted, and resubmission does   *)
(* not make it anonymous.                                                    *)
BySomeone ==
  \A r \in Scans :
    \/ scan[r].st = "hanging"
    \/ scan[r].st = "answered" /\ DOMAIN scan[r].result.report # {}
    => Seen(r).by \in Principals

(* A log that is cut keeps its first entry, so a submitter heard alone is     *)
(* always named in it, and makes no more than a claim of the fingerprint.    *)
Single(fp) == \A a, b \in fp.heard : a = b
Sound(fp) ==
  \/ fp = NoFingerprint
  \/ /\ IsFiniteSet(fp.heard)
     /\ 1 \in DOMAIN fp.log /\ fp.log[1] \in fp.heard
     /\ Single(fp) => fp.level <= BestClaim

OpinionOK == \A t \in Targets : \A k \in Keys : Sound(graph[t].fps[k])

IInv == TypeOK /\ QueueOK /\ BySomeone /\ OpinionOK

-----------------------------------------------------------------------------
(* Confidence arithmetic. *)

LEMMA ProductBound ==
  ASSUME NEW m \in Nat, NEW x \in 0..m, NEW y \in 0..m
  PROVE  x * y \in 0..(m * m)
<1>1. x \in Int /\ y \in Int /\ 0 <= x /\ 0 <= y /\ x <= m /\ y <= m
  BY SMT
<1>2. x * y \in Int /\ 0 <= x * y
  BY <1>1, SMT
<1>3. x * y <= x * m
  BY <1>1, SMT
<1>4. x * m <= m * m
  BY <1>1, SMT
<1>5. x * m \in Int /\ m * m \in Int
  BY <1>1, SMT
<1> QED BY <1>2, <1>3, <1>4, <1>5, SMT

LEMMA RoundBound ==
  ASSUME NEW n \in Nat, NEW k \in Nat, n <= k * One
  PROVE  RoundDiv(n, One) \in 0..k
<1>1. (2 * n + 10000) \div (2 * 10000) \in Int
  BY SMT
<1>2. (2 * n + 10000) \div (2 * 10000) >= 0
  BY SMT
<1>3. (2 * n + 10000) \div (2 * 10000) <= k
  BY SMT DEF One
<1> QED BY <1>1, <1>2, <1>3, SMT DEF RoundDiv, One

LEMMA ClaimRange ==
  ASSUME NEW tool \in Probes \cup {"web"}, NEW ambiguous \in BOOLEAN
  PROVE  Claim(tool, ambiguous) \in 0..BestClaim
<1>1. CASE tool = "banner"
  BY <1>1, SMT DEF Claim, Scaled, RoundDiv, One, Declared, Reliability, BestClaim, Probes
<1>2. CASE tool = "deep"
  BY <1>2 DEF Claim, Scaled, RoundDiv, One, Declared, Reliability, BestClaim, Probes
<1>3. CASE tool = "web"
  BY <1>3 DEF Claim, Scaled, RoundDiv, One, Declared, Reliability, BestClaim, Probes
<1> QED BY <1>1, <1>2, <1>3 DEF Probes

LEMMA DecayRange ==
  ASSUME NEW tool \in Tools, NEW level \in Level
  PROVE  Scaled(level, DecayFactor[tool]) \in 0..level
<1> DEFINE factor == DecayFactor[tool]
<1>1. factor \in {5000, 6000}
  BY DEF DecayFactor, Tools, Sweeps, Probes
<1>2. level \in Nat
  BY SMT DEF Level, One
<1>3. level * factor \in Nat /\ level * factor <= level * One
  <2> HIDE DEF factor
  <2> QED BY <1>1, <1>2, SMT DEF One
<1> QED BY <1>2, <1>3, RoundBound DEF Scaled

LEMMA NoisyOrRange ==
  ASSUME NEW a \in Level, NEW b \in Level
  PROVE  NoisyOr(a, b) \in Level
<1> DEFINE both == (One - a) * (One - b)
<1>1. One \in Nat
  BY SMT DEF One
<1>2. One - a \in 0..One /\ One - b \in 0..One
  BY <1>1, SMT DEF Level
<1>3. both \in 0..(One * One)
  BY <1>1, <1>2, ProductBound
<1>4. One * One - both \in Nat /\ One * One - both <= One * One
  <2> HIDE DEF both
  <2> QED BY <1>1, <1>3, SMT
<1> QED BY <1>1, <1>4, RoundBound DEF NoisyOr, Level

LEMMA FoldedRange ==
  ASSUME NEW old \in Level, NEW claim \in 0..BestClaim, NEW heardBefore
  PROVE  /\ Folded(old, claim, heardBefore) \in Level
         /\ heardBefore /\ old <= BestClaim => Folded(old, claim, heardBefore) <= BestClaim
<1>1. claim \in Level
  BY SMT DEF BestClaim, Level, One
<1>2. CASE heardBefore
  <2>1. Folded(old, claim, heardBefore) = IF old < claim THEN claim ELSE old
    BY <1>2 DEF Folded
  <2>2. (IF old < claim THEN claim ELSE old) \in Level
    BY <1>1
  <2>3. old <= BestClaim => (IF old < claim THEN claim ELSE old) <= BestClaim
    BY SMT DEF Level, One, BestClaim
  <2> QED BY <2>1, <2>2, <2>3
<1>3. CASE ~heardBefore
  <2>1. Folded(old, claim, heardBefore) = NoisyOr(old, claim)
    BY <1>3 DEF Folded
  <2> QED BY <1>1, <1>3, <2>1, NoisyOrRange
<1> QED BY <1>2, <1>3

-----------------------------------------------------------------------------
(* The pipeline and the results of its stages. *)

LEMMA PipelineFacts ==
  /\ DOMAIN Pipeline = 1..3 /\ Len(Pipeline) = 3
  /\ \A slot \in 1..3 : \A i \in DOMAIN Pipeline[slot] :
       /\ i \in 1..2 /\ Pipeline[slot][i] \in Tools
       /\ i < Len(Pipeline[slot]) => i + 1 \in DOMAIN Pipeline[slot]
  /\ \A slot \in 1..3 : 1 \in DOMAIN Pipeline[slot]
<1>1. Pipeline \in Seq({<<"syn", "connect">>, <<"banner", "deep">>, <<"web">>})
  BY DEF Pipeline
<1>2. DOMAIN Pipeline = 1..3 /\ Len(Pipeline) = 3
  BY DEF Pipeline
<1>3. /\ Pipeline[1] = <<"syn", "connect">>
      /\ Pipeline[2] = <<"banner", "deep">>
      /\ Pipeline[3] = <<"web">>
  BY DEF Pipeline
<1>4. ASSUME NEW slot \in 1..3, NEW i \in DOMAIN Pipeline[slot]
      PROVE  /\ i \in 1..2 /\ Pipeline[slot][i] \in Tools
             /\ i < Len(Pipeline[slot]) => i + 1 \in DOMAIN Pipeline[slot]
  <2>1. CASE slot = 1
    BY <1>3, <1>4, <2>1 DEF Tools, Sweeps, Probes
  <2>2. CASE slot = 2
    BY <1>3, <1>4, <2>2 DEF Tools, Sweeps, Probes
  <2>3. CASE slot = 3
    BY <1>3, <1>4, <2>3 DEF Tools, Sweeps, Probes
  <2> QED BY <1>4, <2>1, <2>2, <2>3
<1>5. \A slot \in 1..3 : 1 \in DOMAIN Pipeline[slot]
  BY <1>3
<1> QED BY <1>2, <1>4, <1>5

LEMMA ResultType ==
  ASSUME NEW outcome \in Outcomes, NEW scope \in SUBSET Ports
  PROVE  Result(outcome, scope) \in StageResults /\ DOMAIN Result(outcome, scope).report = {}
<1>1. EmptyReport \in [{} -> Entry] /\ DOMAIN EmptyReport = {}
  BY DEF EmptyReport
<1>2. EmptyReport \in Report
  BY <1>1 DEF Report
<1> QED BY <1>1, <1>2 DEF Result, StageResults

LEMMA ReportFacts ==
  ASSUME NEW seen \in Report
  PROVE  DOMAIN seen \in SUBSET Ports /\ seen \in [DOMAIN seen -> Entry]
BY DEF Report

LEMMA StageResultType ==
  ASSUME NEW tool \in Tools, NEW data \in Data(tool), NEW context \in SUBSET Ports
  PROVE  /\ StageResult(tool, data, context) \in StageResults
         /\ tool \in Sweeps \/ data = Nothing =>
              DOMAIN StageResult(tool, data, context).report = {}
<1> DEFINE res == StageResult(tool, data, context)
<1> USE DEF Outcomes
<1>1. CASE tool = "web" /\ context \cap WebPorts = {}
  <2>1. res = Result("skipped", {})
    BY <1>1 DEF StageResult
  <2> QED BY <2>1, ResultType
<1>2. CASE ~(tool = "web" /\ context \cap WebPorts = {}) /\ data = Nothing
  <2>1. res = Result("no_data", {})
    BY <1>2 DEF StageResult
  <2> QED BY <2>1, ResultType
<1>3. CASE ~(tool = "web" /\ context \cap WebPorts = {}) /\ data = Broken
  <2>1. data # Nothing
    BY <1>3 DEF Broken, Nothing
  <2>2. res = Result("error", context)
    BY <1>3, <2>1 DEF StageResult
  <2> QED BY <2>1, <2>2, ResultType
<1>4. CASE tool \in Sweeps /\ data # Nothing /\ data # Broken
  <2>1. data.ports \in SUBSET Ports
    BY <1>4 DEF Data
  <2>2. tool # "web"
    BY <1>4 DEF Sweeps
  <2>3. res = [Result("success", data.ports) EXCEPT !.ports = data.ports]
    BY <1>4, <2>2 DEF StageResult
  <2>4. Result("success", data.ports) \in StageResults
        /\ DOMAIN Result("success", data.ports).report = {}
    BY <2>1, ResultType
  <2> QED BY <2>1, <2>3, <2>4 DEF StageResults
<1>5. CASE tool \in Probes /\ data # Nothing /\ data # Broken
  <2>1. data.report \in Report /\ tool # "web" /\ tool \notin Sweeps
    BY <1>5 DEF Data, Probes, Sweeps
  <2>2. res = ProbeResult(data.report)
    BY <1>5, <2>1 DEF StageResult
  <2> DEFINE seen == data.report
             report == [p \in DOMAIN seen |-> [seen[p] EXCEPT !.ambiguous = Vague(seen[p])]]
             vague == {p \in DOMAIN seen : report[p].ambiguous}
  <2>3. DOMAIN seen \in SUBSET Ports /\ vague \in SUBSET Ports
    BY <2>1, ReportFacts
  <2>4. report \in [DOMAIN seen -> Entry]
    <3> SUFFICES ASSUME NEW p \in DOMAIN seen
                 PROVE  [seen[p] EXCEPT !.ambiguous = Vague(seen[p])] \in Entry
      OBVIOUS
    <3>1. seen[p] \in Entry
      BY <2>1, ReportFacts
    <3>2. Vague(seen[p]) \in BOOLEAN
      BY <3>1 DEF Vague, Entry
    <3> QED BY <3>1, <3>2 DEF Entry
  <2>5. report \in Report
    BY <2>3, <2>4 DEF Report
  <2>6. \/ res = Result("no_data", {})
        \/ res = [Result("ambiguous", vague) EXCEPT !.report = report]
        \/ res = [Result("success", DOMAIN seen) EXCEPT !.report = report]
    BY <2>2 DEF ProbeResult
  <2> HIDE DEF report, vague, seen, res
  <2>7. res \in StageResults
    BY <2>3, <2>5, <2>6, ResultType DEF StageResults
  <2> QED BY <1>5, <2>1, <2>7 DEF res
<1>6. CASE tool = "web" /\ context \cap WebPorts # {} /\ data # Nothing /\ data # Broken
  <2> DEFINE seen == data.report
             apps == DOMAIN seen \cap (context \cap WebPorts)
             report == [p \in apps |-> seen[p]]
  <2>1. seen \in Report /\ tool \notin Sweeps /\ tool \notin Probes
    BY <1>6 DEF Data, Probes, Sweeps
  <2>2. res = WebResult(seen, context \cap WebPorts)
    BY <1>6, <2>1 DEF StageResult
  <2>3. report \in [apps -> Entry] /\ apps \in SUBSET Ports
    BY <2>1, ReportFacts
  <2>4. report \in Report
    BY <2>3 DEF Report
  <2>5. \/ res = Result("no_data", {})
        \/ res = [Result("success", context \cap WebPorts) EXCEPT !.report = report]
    BY <2>2 DEF WebResult
  <2>6. context \cap WebPorts \in SUBSET Ports
    OBVIOUS
  <2> HIDE DEF report, apps, seen, res
  <2>7. res \in StageResults
    BY <2>4, <2>5, <2>6, ResultType DEF StageResults
  <2> QED BY <1>6, <2>1, <2>7 DEF res
<1> QED BY <1>1, <1>2, <1>3, <1>4, <1>5, <1>6 DEF Tools

-----------------------------------------------------------------------------
(* What the engine writes to the graph of a target. *)

LEMMA FingerprintFacts ==
  /\ NoFingerprint \notin Fingerprint
  /\ \A fp \in Fingerprint : fp.level \in Level /\ fp.ambiguous \in BOOLEAN
<1>1. \A fp \in Fingerprint : fp.level \in Level /\ fp.ambiguous \in BOOLEAN
  BY DEF Fingerprint
<1>2. NoFingerprint.level \notin Level
  BY DEF NoFingerprint, Level
<1> QED BY <1>1, <1>2

LEMMA ConcatOK ==
  ASSUME NEW S, NEW a \in Seq(S), NEW b \in Seq(S)
  PROVE  a \o b \in Seq(S) /\ Len(a \o b) = Len(a) + Len(b)
<1>1. a \o b \in Seq(S)
  OBVIOUS
<1>2. Len(a \o b) = Len(a) + Len(b)
  OBVIOUS
<1> QED BY <1>1, <1>2

LEMMA BoundedOK ==
  ASSUME NEW S, NEW log \in Seq(S), 1 \in DOMAIN log
  PROVE  Bounded(log) \in Seq(S) /\ 1 \in DOMAIN Bounded(log) /\ Bounded(log)[1] = log[1]
<1> DEFINE head == SubSeq(log, 1, MaxHead)
           tail == SubSeq(log, Len(log) - MaxTail + 1, Len(log))
<1>1. CASE Len(log) <= MaxHead + MaxTail
  BY <1>1 DEF Bounded
<1>2. CASE ~(Len(log) <= MaxHead + MaxTail)
  <2>1. Len(log) \in Nat /\ MaxHead \in Nat /\ MaxTail \in Nat /\ 1 <= MaxHead /\ 1 <= MaxTail
    BY EngineAssumption
  <2>2. MaxHead <= Len(log) /\ 1 <= Len(log) - MaxTail + 1
    BY <1>2, <2>1
  <2>3. head \in Seq(S) /\ Len(head) = MaxHead /\ head[1] = log[1]
    BY <2>1, <2>2
  <2>4. tail \in Seq(S)
    BY <2>1, <2>2
  <2>5. Bounded(log) = head \o tail
    BY <1>2 DEF Bounded
  <2> HIDE DEF head, tail
  <2>6. head \o tail \in Seq(S) /\ Len(head \o tail) = Len(head) + Len(tail)
    BY <2>3, <2>4, ConcatOK
  <2>7. (head \o tail)[1] = head[1] /\ 1 \in DOMAIN (head \o tail)
    BY <2>1, <2>3, <2>4, <2>6
  <2> QED BY <2>3, <2>5, <2>6, <2>7
<1> QED BY <1>1, <1>2

LEMMA LoggedOK ==
  ASSUME NEW S, NEW log \in Seq(S), 1 \in DOMAIN log, NEW entry \in S
  PROVE  /\ Bounded(Append(log, entry)) \in Seq(S)
         /\ 1 \in DOMAIN Bounded(Append(log, entry))
         /\ Bounded(Append(log, entry))[1] = log[1]
<1>1. Append(log, entry) \in Seq(S) /\ 1 \in DOMAIN Append(log, entry)
      /\ Append(log, entry)[1] = log[1]
  OBVIOUS
<1> QED BY <1>1, BoundedOK

LEMMA UpsertedOK ==
  ASSUME NEW fp \in Fingerprint \cup {NoFingerprint}, Sound(fp),
         NEW claim \in 0..BestClaim, NEW ambiguous \in BOOLEAN, NEW by \in Principals,
         NEW source \in Principals \cup {"system"}
  PROVE  /\ Upserted(fp, claim, ambiguous, by, source) \in Fingerprint
         /\ Sound(Upserted(fp, claim, ambiguous, by, source))
<1> DEFINE up == Upserted(fp, claim, ambiguous, by, source)
           Names == Principals \cup {"system"}
<1>0. claim \in Level
  BY DEF Level, BestClaim, One
<1>1. CASE fp = NoFingerprint
  <2>1. up = [level |-> claim, ambiguous |-> ambiguous,
              log |-> <<by>>, heard |-> {by}, sources |-> {source}]
    BY <1>1 DEF Upserted
  <2>2. <<by>> \in Seq(Names) /\ {by} \in SUBSET Names /\ {source} \in SUBSET Names
    OBVIOUS
  <2>3. up \in Fingerprint
    BY <1>0, <2>1, <2>2 DEF Fingerprint
  <2>4. up.level = claim /\ up.heard = {by} /\ up.log = <<by>>
    BY <2>1
  <2>5. IsFiniteSet(up.heard) /\ 1 \in DOMAIN up.log /\ up.log[1] \in up.heard
        /\ up.level <= BestClaim
    <3>1. IsFiniteSet({by})
      BY FS_Singleton
    <3>2. claim <= BestClaim
      BY DEF BestClaim
    <3> HIDE DEF up
    <3> QED BY <2>4, <3>1, <3>2
  <2> HIDE DEF up
  <2> QED BY <2>3, <2>5 DEF Sound, up
<1>2. CASE fp # NoFingerprint
  <2>1. fp \in Fingerprint
    BY <1>2
  <2> DEFINE named == Named(fp, by)
             level == Folded(fp.level, claim, named)
             log == Bounded(Append(fp.log, by))
  <2>2. up = [level |-> level, ambiguous |-> fp.ambiguous /\ ambiguous,
              log |-> log, heard |-> fp.heard \cup {by}, sources |-> fp.sources \cup {source}]
    BY <1>2 DEF Upserted
  <2>3. level \in Level /\ (named /\ fp.level <= BestClaim => level <= BestClaim)
    <3>1. fp.level \in Level
      BY <2>1, FingerprintFacts
    <3> HIDE DEF named
    <3> QED BY <3>1, FoldedRange
  <2>4. /\ IsFiniteSet(fp.heard) /\ 1 \in DOMAIN fp.log /\ fp.log[1] \in fp.heard
        /\ fp.log \in Seq(Names)
    BY <1>2, <2>1 DEF Sound, Fingerprint
  <2>5. log \in Seq(Names) /\ 1 \in DOMAIN log /\ log[1] = fp.log[1]
    <3>1. by \in Names
      OBVIOUS
    <3> HIDE DEF Names
    <3> QED BY <2>4, <3>1, LoggedOK
  <2> HIDE DEF level, log, named
  <2>6. up \in Fingerprint
    <3>1. /\ (fp.ambiguous /\ ambiguous) \in BOOLEAN
          /\ fp.heard \cup {by} \in SUBSET Names
          /\ fp.sources \cup {source} \in SUBSET Names
      BY <2>1 DEF Fingerprint
    <3> QED BY <2>2, <2>3, <2>5, <3>1 DEF Fingerprint
  <2>7. up.heard = fp.heard \cup {by} /\ up.level = level /\ up.log = log
    BY <2>2
  <2>8. IsFiniteSet(up.heard) /\ 1 \in DOMAIN up.log /\ up.log[1] \in up.heard
    BY <2>4, <2>5, <2>7, FS_AddElement
  <2>9. Single(up) => level <= BestClaim
    <3> SUFFICES ASSUME Single(up) PROVE level <= BestClaim
      OBVIOUS
    <3>1. fp.log[1] = by
      BY <2>4, <2>7 DEF Single
    <3>2. named
      BY <2>4, <3>1 DEF named, Named
    <3>3. Single(fp)
      BY <2>7 DEF Single
    <3> QED BY <1>2, <2>3, <3>2, <3>3 DEF Sound
  <2> HIDE DEF up
  <2> QED BY <2>6, <2>7, <2>8, <2>9 DEF Sound, up
<1> QED BY <1>1, <1>2

SoundHost(h) == h \in Host /\ \A k \in Keys : Sound(h.fps[k])

LEMMA AppliedOK ==
  ASSUME NEW h, SoundHost(h), NEW tool \in Tools, NEW result \in StageResults,
         NEW by \in Principals \cup {"system"},
         tool \in Sweeps => DOMAIN result.report = {},
         DOMAIN result.report # {} => by \in Principals
  PROVE  SoundHost(Applied(h, tool, result, by)) /\ Landed(h, result) \in SUBSET Ports
<1> DEFINE report == result.report
           landed == Landed(h, result)
           fps == [k \in Keys |->
               IF k[1] \in landed /\ report[k[1]].version = k[2]
                 THEN LET ambiguous == report[k[1]].ambiguous IN
                      Upserted(h.fps[k], Claim(tool, ambiguous), ambiguous, by, result.source)
                 ELSE h.fps[k]]
<1>1. report \in Report /\ result.ports \in SUBSET Ports
      /\ result.source \in Principals \cup {"system"}
  BY DEF StageResults
<1>2. landed \in SUBSET Ports /\ landed \subseteq DOMAIN report
  BY <1>1, ReportFacts DEF Landed
<1>3. /\ h.ports \in SUBSET Ports /\ h.services \in SUBSET Ports
      /\ h.fps \in [Keys -> Fingerprint \cup {NoFingerprint}]
  BY DEF SoundHost, Host, Fingerprints
<1>4. ASSUME NEW k \in Keys
      PROVE  fps[k] \in Fingerprint \cup {NoFingerprint} /\ Sound(fps[k])
  <2>1. CASE k[1] \in landed /\ report[k[1]].version = k[2]
    <3> DEFINE ambiguous == report[k[1]].ambiguous
    <3>1. ambiguous \in BOOLEAN
      BY <1>1, <1>2, <2>1, ReportFacts DEF Entry
    <3>2. tool \in Probes \cup {"web"} /\ by \in Principals
      BY <1>2, <2>1 DEF Tools
    <3>3. Claim(tool, ambiguous) \in 0..BestClaim
      BY <3>1, <3>2, ClaimRange
    <3>4. h.fps[k] \in Fingerprint \cup {NoFingerprint} /\ Sound(h.fps[k])
      BY <1>3 DEF SoundHost
    <3>5. fps[k] = Upserted(h.fps[k], Claim(tool, ambiguous), ambiguous, by, result.source)
      BY <2>1
    <3> HIDE DEF ambiguous, fps
    <3> QED BY <1>1, <3>1, <3>2, <3>3, <3>4, <3>5, UpsertedOK
  <2>2. CASE ~(k[1] \in landed /\ report[k[1]].version = k[2])
    <3>1. fps[k] = h.fps[k]
      BY <2>2
    <3> HIDE DEF fps
    <3> QED BY <1>3, <3>1 DEF SoundHost
  <2> QED BY <2>1, <2>2
<1>5. fps \in Fingerprints
  <2>1. fps = [k \in Keys |-> fps[k]]
    OBVIOUS
  <2> HIDE DEF fps
  <2> QED BY <1>4, <2>1 DEF Fingerprints
<1>6. Applied(h, tool, result, by) =
        [h EXCEPT !.ports = @ \cup result.ports, !.services = @ \cup landed, !.fps = fps]
  BY DEF Applied
<1> HIDE DEF fps, landed
<1>7. /\ Applied(h, tool, result, by) \in Host
      /\ Applied(h, tool, result, by).fps = fps
  BY ZenonT(90), <1>1, <1>2, <1>3, <1>5, <1>6 DEF Host, SoundHost
<1> QED BY <1>2, <1>4, <1>7 DEF SoundHost, landed

LEMMA DecayedOK ==
  ASSUME NEW fp \in Fingerprint, Sound(fp), NEW tool \in Tools
  PROVE  Decayed(fp, tool) \in Fingerprint /\ Sound(Decayed(fp, tool))
<1> DEFINE down == Decayed(fp, tool)
           level == Scaled(fp.level, DecayFactor[tool])
<1>1. fp.level \in Level /\ fp # NoFingerprint
  BY FingerprintFacts
<1>2. level \in 0..fp.level
  BY <1>1, DecayRange
<1>3. level \in Level /\ (fp.level <= BestClaim => level <= BestClaim)
  <2> DEFINE old == fp.level
  <2> HIDE DEF level
  <2>1. old \in Nat /\ old <= 10000
    <3>1. \A x \in Level : x \in Nat /\ x <= 10000
      BY SMT DEF Level, One
    <3> QED BY <1>1, <3>1
  <2>2. level \in Nat /\ level <= old
    BY <1>2, <2>1
  <2> HIDE DEF old
  <2>3. level <= 10000 /\ (old <= 5950 => level <= 5950)
    BY <2>1, <2>2, SMT
  <2> QED BY <2>2, <2>3, SMT DEF old, Level, One, BestClaim
<1> DEFINE log == Bounded(Append(fp.log, "system"))
           Names == Principals \cup {"system"}
<1>4. down = [fp EXCEPT !.level = level, !.log = log]
  BY DEF Decayed
<1>5. IsFiniteSet(fp.heard) /\ 1 \in DOMAIN fp.log /\ fp.log[1] \in fp.heard
      /\ fp.log \in Seq(Names)
  BY <1>1 DEF Sound, Fingerprint
<1>6. log \in Seq(Names) /\ 1 \in DOMAIN log /\ log[1] = fp.log[1]
  <2>1. "system" \in Names
    OBVIOUS
  <2> HIDE DEF Names
  <2> QED BY <1>5, <2>1, LoggedOK
<1> HIDE DEF down, level, log
<1>7. down \in Fingerprint
  BY <1>3, <1>4, <1>6 DEF Fingerprint
<1>8. down.level = level /\ down.heard = fp.heard /\ down.log = log
  BY <1>4 DEF Fingerprint
<1>9. Sound(down)
  BY <1>1, <1>3, <1>5, <1>6, <1>8 DEF Sound, Single
<1> QED BY <1>7, <1>9 DEF down

LEMMA DowngradedOK ==
  ASSUME NEW h, SoundHost(h), NEW tool \in Tools, NEW result \in StageResults
  PROVE  SoundHost(Downgraded(h, tool, result))
<1> DEFINE fps == [k \in Keys |->
              IF Suspect(h, k, result) THEN Decayed(h.fps[k], tool) ELSE h.fps[k]]
<1>1. h.fps \in [Keys -> Fingerprint \cup {NoFingerprint}]
  BY DEF SoundHost, Host, Fingerprints
<1>2. ASSUME NEW k \in Keys
      PROVE  fps[k] \in Fingerprint \cup {NoFingerprint} /\ Sound(fps[k])
  <2>1. Sound(h.fps[k]) /\ h.fps[k] \in Fingerprint \cup {NoFingerprint}
    BY <1>1 DEF SoundHost
  <2>2. CASE Suspect(h, k, result)
    <3>1. h.fps[k] \in Fingerprint
      BY <2>1, <2>2 DEF Claimed, Suspect
    <3>2. fps[k] = Decayed(h.fps[k], tool)
      BY <2>2
    <3> HIDE DEF fps
    <3> QED BY <2>1, <3>1, <3>2, DecayedOK
  <2>3. CASE ~Suspect(h, k, result)
    <3>1. fps[k] = h.fps[k]
      BY <2>3
    <3> HIDE DEF fps
    <3> QED BY <2>1, <3>1
  <2> QED BY <2>2, <2>3
<1>3. fps \in Fingerprints
  <2>1. fps = [k \in Keys |-> fps[k]]
    OBVIOUS
  <2> HIDE DEF fps
  <2> QED BY <1>2, <2>1 DEF Fingerprints
<1>4. Downgraded(h, tool, result) = h \/ Downgraded(h, tool, result) = [h EXCEPT !.fps = fps]
  BY DEF Downgraded
<1> HIDE DEF fps
<1> QED BY <1>2, <1>3, <1>4 DEF SoundHost, Host

LEMMA LedgerType ==
  ASSUME NEW h \in Host
  PROVE  Ledger(h) \in SUBSET Lead
<1> SUFFICES ASSUME NEW k \in Credible(h) \cap Affected
             PROVE  [port |-> k[1], version |-> k[2], disputed |-> Disputed(h, k)] \in Lead
  BY DEF Ledger
<1>1. k[1] \in Ports /\ k[2] \in Versions
  BY EngineAssumption
<1>2. Disputed(h, k) \in BOOLEAN
  BY DEF Disputed
<1> QED BY <1>1, <1>2 DEF Lead

LEMMA CorrelatedOK ==
  ASSUME NEW h, SoundHost(h)
  PROVE  SoundHost(Correlated(h))
<1> DEFINE leads == h.leads \cup {row \in Ledger(h) :
                  \A l \in h.leads : l.port # row.port \/ l.version # row.version}
<1>1. h \in Host /\ Ledger(h) \in SUBSET Lead
  BY LedgerType DEF SoundHost
<1>2. leads \in SUBSET Lead
  BY <1>1 DEF Host
<1>3. Correlated(h) = [h EXCEPT !.leads = leads]
  BY DEF Correlated
<1> HIDE DEF leads
<1> QED BY <1>1, <1>2, <1>3 DEF SoundHost, Host

-----------------------------------------------------------------------------
(* Queues. *)

LEMMA QueueFacts ==
  ASSUME NEW q \in Seq(Scans)
  PROVE  /\ Len(q) \in Nat /\ DOMAIN q = 1..Len(q)
         /\ \A i \in DOMAIN q : q[i] \in Scans
         /\ \A x : Holds(q, x) => q # <<>> /\ Len(q) >= 1 /\ Head(q) = q[1]
BY DEF Holds

LEMMA Appended ==
  ASSUME NEW q \in Seq(Scans), Distinct(q), NEW r \in Scans, ~Holds(q, r)
  PROVE  /\ Append(q, r) \in Seq(Scans) /\ Distinct(Append(q, r))
         /\ \A x : Holds(Append(q, r), x) <=> Holds(q, x) \/ x = r
         /\ \A x : Holds(q, x) => Head(Append(q, r)) = Head(q)
<1> DEFINE q2 == Append(q, r)
<1>1. /\ q2 \in Seq(Scans) /\ Len(q) \in Nat /\ DOMAIN q = 1..Len(q)
      /\ DOMAIN q2 = 1..(Len(q) + 1)
      /\ \A i \in 1..Len(q) : q2[i] = q[i]
      /\ q2[Len(q) + 1] = r
  OBVIOUS
<1> HIDE DEF q2
<1>2. Distinct(q2)
  <2> SUFFICES ASSUME NEW i \in DOMAIN q2, NEW j \in DOMAIN q2, q2[i] = q2[j]
               PROVE  i = j
    BY DEF Distinct
  <2>1. CASE i \in 1..Len(q) /\ j \in 1..Len(q)
    BY <1>1, <2>1 DEF Distinct
  <2>2. CASE i = Len(q) + 1 \/ j = Len(q) + 1
    BY <1>1, <2>2 DEF Holds
  <2> QED BY <1>1, <2>1, <2>2
<1>3. \A x : Holds(q2, x) <=> Holds(q, x) \/ x = r
  <2> TAKE x
  <2>1. ASSUME Holds(q2, x) PROVE Holds(q, x) \/ x = r
    <3>1. PICK i \in DOMAIN q2 : q2[i] = x
      BY <2>1 DEF Holds
    <3>2. i \in 1..Len(q) \/ i = Len(q) + 1
      BY <1>1, <3>1
    <3> QED BY <1>1, <3>1, <3>2 DEF Holds
  <2>2. ASSUME Holds(q, x) PROVE Holds(q2, x)
    BY <1>1, <2>2 DEF Holds
  <2>3. Holds(q2, r)
    <3>1. Len(q) + 1 \in DOMAIN q2
      BY <1>1
    <3> QED BY <1>1, <3>1 DEF Holds
  <2> QED BY <2>1, <2>2, <2>3
<1>4. ASSUME NEW x, Holds(q, x) PROVE Head(q2) = Head(q)
  <2>1. Len(q) >= 1 /\ Head(q) = q[1]
    BY <1>4, QueueFacts
  <2>2. Head(q2) = q2[1]
    BY <1>1, <2>1
  <2> QED BY <1>1, <2>1, <2>2
<1> QED BY <1>1, <1>2, <1>3, <1>4 DEF q2

LEMMA Dequeued ==
  ASSUME NEW q \in Seq(Scans), Distinct(q), NEW r, Holds(q, r), Head(q) = r
  PROVE  /\ Tail(q) \in Seq(Scans) /\ Distinct(Tail(q))
         /\ \A x : Holds(Tail(q), x) <=> Holds(q, x) /\ x # r
<1> DEFINE q2 == Tail(q)
<1>1. /\ Len(q) \in Nat /\ Len(q) >= 1 /\ DOMAIN q = 1..Len(q) /\ q[1] = r /\ q # <<>>
  BY QueueFacts
<1>2. /\ q2 \in Seq(Scans)
      /\ DOMAIN q2 = 1..(Len(q) - 1)
      /\ \A i \in 1..(Len(q) - 1) : q2[i] = q[i + 1]
  BY <1>1
<1> HIDE DEF q2
<1>3. Distinct(q2)
  <2> SUFFICES ASSUME NEW i \in DOMAIN q2, NEW j \in DOMAIN q2, q2[i] = q2[j]
               PROVE  i = j
    BY DEF Distinct
  <2>1. i + 1 \in DOMAIN q /\ j + 1 \in DOMAIN q /\ q[i + 1] = q[j + 1]
    BY <1>1, <1>2
  <2>2. i + 1 = j + 1
    BY <2>1 DEF Distinct
  <2> QED BY <1>2, <2>2
<1>4. \A x : Holds(q2, x) <=> Holds(q, x) /\ x # r
  <2> TAKE x
  <2>1. ASSUME Holds(q2, x) PROVE Holds(q, x) /\ x # r
    <3>1. PICK i \in DOMAIN q2 : q2[i] = x
      BY <2>1 DEF Holds
    <3>2. i + 1 \in DOMAIN q /\ q[i + 1] = x /\ 1 \in DOMAIN q /\ i + 1 # 1
      BY <1>1, <1>2, <3>1
    <3> QED BY <1>1, <3>2 DEF Holds, Distinct
  <2>2. ASSUME Holds(q, x), x # r PROVE Holds(q2, x)
    <3>1. PICK i \in DOMAIN q : q[i] = x
      BY <2>2 DEF Holds
    <3>2. i # 1
      BY <1>1, <2>2, <3>1
    <3>3. i - 1 \in DOMAIN q2 /\ q2[i - 1] = x
      BY <1>1, <1>2, <3>1, <3>2
    <3> QED BY <3>3 DEF Holds
  <2> QED BY <2>1, <2>2
<1> QED BY <1>2, <1>3, <1>4 DEF q2

LEMMA Removed ==
  ASSUME NEW q \in Seq(Scans), Distinct(q), NEW r, Holds(q, r)
  PROVE  /\ Without(q, r) \in Seq(Scans) /\ Distinct(Without(q, r))
         /\ \A x : Holds(Without(q, r), x) <=> Holds(q, x) /\ x # r
         /\ Head(q) # r => Head(Without(q, r)) = Head(q)
<1> DEFINE q2 == Without(q, r)
           at == CHOOSE i \in DOMAIN q : q[i] = r
           n == Len(q)
           old(i) == IF i < at THEN i ELSE i + 1
<1>1. /\ n \in Nat /\ n >= 1 /\ DOMAIN q = 1..n /\ Head(q) = q[1]
      /\ \A i \in DOMAIN q : q[i] \in Scans
  BY QueueFacts
<1>2. at \in 1..n /\ q[at] = r
  BY <1>1 DEF Holds
<1>3. q2 = [i \in 1..(n - 1) |-> q[old(i)]]
  BY DEF Without
<1> HIDE DEF q2, at, n
<1>4. \A i \in 1..(n - 1) : old(i) \in 1..n /\ old(i) # at
  BY <1>1, <1>2
<1>5. DOMAIN q2 = 1..(n - 1) /\ \A i \in 1..(n - 1) : q2[i] = q[old(i)]
  BY <1>3
<1>6. q2 \in Seq(Scans)
  <2>1. n - 1 \in Nat
    BY <1>1
  <2>2. \A i \in 1..(n - 1) : q[old(i)] \in Scans
    BY <1>1, <1>4
  <2> QED BY <1>3, <2>1, <2>2
<1>7. Distinct(q2)
  <2> SUFFICES ASSUME NEW i \in 1..(n - 1), NEW j \in 1..(n - 1), q2[i] = q2[j]
               PROVE  i = j
    BY <1>5 DEF Distinct
  <2>1. old(i) = old(j)
    BY <1>1, <1>4, <1>5 DEF Distinct
  <2> QED BY <1>2, <2>1
<1>8. \A x : Holds(q2, x) <=> Holds(q, x) /\ x # r
  <2> TAKE x
  <2>1. ASSUME Holds(q2, x) PROVE Holds(q, x) /\ x # r
    <3>1. PICK i \in 1..(n - 1) : q2[i] = x
      BY <1>5, <2>1 DEF Holds
    <3>2. old(i) \in DOMAIN q /\ q[old(i)] = x /\ old(i) # at /\ at \in DOMAIN q
      BY <1>1, <1>2, <1>4, <1>5, <3>1
    <3> HIDE DEF old
    <3> QED BY <1>2, <3>2 DEF Holds, Distinct
  <2>2. ASSUME Holds(q, x), x # r PROVE Holds(q2, x)
    <3>1. PICK i \in 1..n : q[i] = x
      BY <1>1, <2>2 DEF Holds
    <3>2. i # at
      BY <1>2, <2>2, <3>1
    <3>3. CASE i < at
      <4>1. i \in 1..(n - 1) /\ old(i) = i
        BY <1>1, <1>2, <3>3
      <4> QED BY <1>5, <3>1, <4>1 DEF Holds
    <3>4. CASE i > at
      <4>1. i - 1 \in 1..(n - 1) /\ old(i - 1) = i
        BY <1>1, <1>2, <3>4
      <4> QED BY <1>5, <3>1, <4>1 DEF Holds
    <3> QED BY <1>2, <3>2, <3>3, <3>4
  <2> QED BY <2>1, <2>2
<1>9. Head(q) # r => Head(q2) = Head(q)
  <2> SUFFICES ASSUME Head(q) # r PROVE Head(q2) = Head(q)
    OBVIOUS
  <2>1. at > 1 /\ n > 1
    BY <1>1, <1>2
  <2>2. 1 \in 1..(n - 1) /\ old(1) = 1
    BY <1>1, <2>1
  <2>3. Head(q2) = q2[1]
    BY <1>5, <1>6, <2>2
  <2> QED BY <1>1, <1>5, <2>2, <2>3
<1> QED BY <1>6, <1>7, <1>8, <1>9 DEF q2

-----------------------------------------------------------------------------
(* Initial states. *)

LEMMA IdleType ==
  ASSUME NEW st \in {"new", "done", "cancelled"}, NEW t \in Targets \cup {"none"}
  PROVE  /\ Idle(st, t) \in ScanState /\ Idle(st, t).held = NoEvidence
         /\ Idle(st, t).slot = 1 /\ Idle(st, t).index = 1
         /\ Idle(st, t).st = st /\ Idle(st, t).target = t
         /\ \A tool : NoEvidence \in Evidence(tool)
<1>1. NoFingerprints \in Fingerprints
  BY DEF NoFingerprints, Fingerprints
<1>2. \A tool : NoEvidence \in Evidence(tool)
  BY DEF Evidence
<1>3. NoEvidence \in UNION {Evidence(tool) : tool \in Tools}
  BY <1>2 DEF Tools, Sweeps, Probes
<1>4. <<>> \in Seq(Attempt) /\ 1 \in DOMAIN Pipeline
  BY PipelineFacts
<1> QED BY <1>1, <1>2, <1>3, <1>4 DEF Idle, ScanState

LEMMA SpotKnown ==
  ASSUME TypeOK, NEW r \in Scans
  PROVE  /\ scan[r] \in ScanState /\ scan[r].slot \in 1..3
         /\ scan[r].index \in DOMAIN Pipeline[scan[r].slot]
         /\ Tool(r) \in Tools
         /\ scan[r].st # "new" =>
              /\ scan[r].target \in Targets
              /\ graph[scan[r].target] \in Host
              /\ Seen(r) \in Evidence(Tool(r))
<1>1. scan[r] \in ScanState /\ scan[r].index \in DOMAIN Pipeline[scan[r].slot]
  BY DEF TypeOK
<1>2. scan[r].slot \in 1..3
  BY <1>1, PipelineFacts DEF ScanState
<1>3. Tool(r) \in Tools
  BY <1>1, <1>2, PipelineFacts DEF Tool
<1>4. ASSUME scan[r].st # "new"
      PROVE  /\ scan[r].target \in Targets
             /\ graph[scan[r].target] \in Host
             /\ Seen(r) \in Evidence(Tool(r))
  <2>1. scan[r].target \in Targets
    BY <1>4 DEF TypeOK
  <2>2. <<Tool(r), scan[r].target>> \in Tools \X Targets
    BY <1>3, <2>1
  <2>3. evidence[<<Tool(r), scan[r].target>>] \in Evidence(<<Tool(r), scan[r].target>>[1])
    BY <2>2 DEF TypeOK
  <2> QED BY <2>1, <2>3 DEF TypeOK, Seen
<1> QED BY <1>1, <1>2, <1>3, <1>4

LEMMA InitInv == Init => IInv
<1> SUFFICES ASSUME Init PROVE IInv
  OBVIOUS
<1>0. \A r \in Scans : scan[r].st = "new"
  BY IdleType DEF Init, NoScan
<1>1. TypeOK
  <2>1. \A k \in Tools \X Targets : evidence[k] \in Evidence(k[1])
    BY EngineAssumption DEF Init
  <2>2. evidence \in [Tools \X Targets -> UNION {Evidence(tool) : tool \in Tools}]
    BY EngineAssumption DEF Init
  <2>3. graph \in [Targets -> Host]
    <3>1. NoFingerprints \in Fingerprints
      BY DEF NoFingerprints, Fingerprints
    <3>2. \A known \in BOOLEAN : EmptyHost(known) \in Host
      BY <3>1 DEF EmptyHost, Host
    <3> QED BY <3>2 DEF Init
  <2>4. queue \in [Targets -> Seq(Scans)]
    BY DEF Init
  <2>5. scan \in [Scans -> ScanState] /\ \A r \in Scans : scan[r] = NoScan
    BY IdleType DEF Init, NoScan
  <2>6. \A r \in Scans : scan[r].index \in DOMAIN Pipeline[scan[r].slot]
    BY <2>5, IdleType, PipelineFacts DEF NoScan
  <2>7. \A r \in Scans : scan[r].held \in Evidence(Tool(r))
    BY <2>5, IdleType DEF NoScan
  <2>8. reports \in [Targets -> ReportState]
    BY DEF Init, ReportState
  <2>9. puts \in 0..MaxPuts
    BY EngineAssumption DEF Init
  <2> QED BY <2>1, <2>2, <2>3, <2>4, <2>5, <2>6, <2>7, <2>8, <2>9, <1>0 DEF TypeOK
<1>3. QueueOK
  BY <1>0 DEF QueueOK, Init, Distinct, Holds, Active, Running
<1>4. BySomeone
  BY <1>0 DEF BySomeone
<1>5. OpinionOK
  <2> SUFFICES ASSUME NEW t \in Targets, NEW k \in Keys
               PROVE  graph[t].fps[k] = NoFingerprint
    BY DEF OpinionOK, Sound
  <2>1. graph[t].fps = NoFingerprints
    BY DEF Init, EmptyHost
  <2> QED BY <2>1 DEF NoFingerprints
<1> QED BY <1>1, <1>3, <1>4, <1>5 DEF IInv

-----------------------------------------------------------------------------
(* Steps. *)

(* One scan moves, within its place in the queue, and writes nothing. *)
LEMMA ScanMoves ==
  ASSUME IInv, NEW r \in Scans, NEW new \in ScanState,
         scan' = [scan EXCEPT ![r] = new],
         UNCHANGED <<evidence, graph, queue, reports, puts>>,
         Active(r), new.st \in {"waiting", "calling", "hanging", "answered"},
         new.target = scan[r].target, new.slot = scan[r].slot, new.index = scan[r].index,
         new.held \in Evidence(Tool(r)),
         new.st = "answered" =>
           new.result # NoResult /\ (Tool(r) \in Sweeps => DOMAIN new.result.report = {}),
         new.st = "waiting" \/ Head(queue[scan[r].target]) = r,
         new.st = "hanging" \/ (new.st = "answered" /\ DOMAIN new.result.report # {})
           => Seen(r).by \in Principals
  PROVE  IInv'
<1>1. /\ scan' \in [Scans -> ScanState] /\ scan'[r] = new
      /\ \A x \in Scans : x # r => scan'[x] = scan[x]
  BY DEF IInv, TypeOK
<1>2. scan[r].st # "new" /\ scan[r].target \in Targets
  BY SpotKnown DEF Active, IInv
<1>3. \A x \in Scans : Tool(x)' = Tool(x) /\ Seen(x)' = Seen(x)
  BY <1>1 DEF Tool, Seen
<1>4. TypeOK'
  <2>1. ASSUME NEW x \in Scans
        PROVE  /\ scan'[x].st # "new" => scan'[x].target \in Targets
               /\ scan'[x].index \in DOMAIN Pipeline[scan'[x].slot]
               /\ scan'[x].held \in Evidence(Tool(x)')
               /\ scan'[x].st = "answered" =>
                    /\ scan'[x].result # NoResult
                    /\ Tool(x)' \in Sweeps => DOMAIN scan'[x].result.report = {}
    <3>1. CASE x = r
      BY <1>1, <1>2, <1>3, <3>1 DEF IInv, TypeOK
    <3>2. CASE x # r
      BY <1>1, <1>3, <3>2 DEF IInv, TypeOK
    <3> QED BY <3>1, <3>2
  <2> QED BY <1>1, <2>1 DEF IInv, TypeOK
<1>5. QueueOK'
  <2> SUFFICES ASSUME NEW t \in Targets
               PROVE  /\ Distinct(queue[t])
                      /\ \A x \in Scans : Holds(queue[t], x) <=> Active(x)' /\ scan'[x].target = t
                      /\ \A x \in Scans : Running(x)' /\ scan'[x].target = t => Head(queue[t]) = x
    BY DEF QueueOK
  <2>1. \A x \in Scans : (Active(x)' <=> Active(x)) /\ scan'[x].target = scan[x].target
    BY <1>1 DEF Active
  <2>2. ASSUME NEW x \in Scans, Running(x)', scan'[x].target = t PROVE Head(queue[t]) = x
    <3>1. CASE x = r
      BY <1>1, <2>2, <3>1 DEF Running
    <3>2. CASE x # r
      BY <1>1, <2>2, <3>2 DEF Running, IInv, QueueOK
    <3> QED BY <3>1, <3>2
  <2> QED BY <2>1, <2>2 DEF IInv, QueueOK
<1>6. BySomeone'
  <2> SUFFICES ASSUME NEW x \in Scans,
                      \/ scan'[x].st = "hanging"
                      \/ scan'[x].st = "answered" /\ DOMAIN scan'[x].result.report # {}
               PROVE  Seen(x)'.by \in Principals
    BY DEF BySomeone
  <2>1. CASE x = r
    BY <1>1, <1>3, <2>1
  <2>2. CASE x # r
    BY <1>1, <1>3, <2>2 DEF IInv, BySomeone
  <2> QED BY <2>1, <2>2
<1>7. OpinionOK'
  BY DEF IInv, OpinionOK
<1> QED BY <1>4, <1>5, <1>6, <1>7 DEF IInv

LEMMA BeginStep ==
  ASSUME IInv, NEW r \in Scans, Begin(r)
  PROVE  IInv'
<1> DEFINE new == [scan[r] EXCEPT !.st = "calling", !.found = graph[scan[r].target].fps]
<1>1. scan[r].st = "waiting" /\ Head(queue[scan[r].target]) = r
  BY DEF Begin, MayBegin
<1>2. scan[r] \in ScanState /\ graph[scan[r].target] \in Host
  BY <1>1, SpotKnown DEF IInv
<1>3. graph[scan[r].target].fps \in Fingerprints
  BY <1>2 DEF Host
<1>4. new \in ScanState
  BY <1>2, <1>3 DEF ScanState
<1>5. /\ new.st = "calling" /\ new.target = scan[r].target /\ new.slot = scan[r].slot
      /\ new.index = scan[r].index /\ new.held = scan[r].held
  BY <1>2 DEF ScanState
<1>6. scan' = [scan EXCEPT ![r] = new]
  BY DEF Begin
<1>7. new.held \in Evidence(Tool(r))
  BY <1>5 DEF IInv, TypeOK
<1> HIDE DEF new
<1> QED BY <1>1, <1>4, <1>5, <1>6, <1>7, ScanMoves DEF Begin, Active

LEMMA AnswerStep ==
  ASSUME IInv, NEW r \in Scans, scan[r].st \in {"calling", "hanging"},
         NEW result \in StageResults,
         Tool(r) \in Sweeps => DOMAIN result.report = {},
         DOMAIN result.report # {} => Seen(r).by \in Principals,
         Answer(r, result)
  PROVE  IInv'
<1> DEFINE new == [scan[r] EXCEPT !.st = "answered", !.held = NoEvidence, !.result = result]
<1>1. scan[r] \in ScanState /\ Tool(r) \in Tools /\ scan[r].target \in Targets
  BY SpotKnown DEF IInv
<1>2. NoEvidence \in UNION {Evidence(tool) : tool \in Tools} /\ NoEvidence \in Evidence(Tool(r))
  BY <1>1 DEF Evidence
<1>3. new \in ScanState
  BY <1>1, <1>2 DEF ScanState
<1>4. /\ new.st = "answered" /\ new.target = scan[r].target /\ new.slot = scan[r].slot
      /\ new.index = scan[r].index /\ new.held = NoEvidence /\ new.result = result
  BY <1>1 DEF ScanState
<1>5. scan' = [scan EXCEPT ![r] = new]
  BY DEF Answer
<1>6. result # NoResult
  <2>1. \A x \in StageResults : x.outcome \in Outcomes
    BY DEF StageResults
  <2>2. NoResult.outcome \notin Outcomes
    BY DEF NoResult, Outcomes
  <2> QED BY <2>1, <2>2
<1>7. Head(queue[scan[r].target]) = r
  BY <1>1 DEF IInv, QueueOK, Running
<1> HIDE DEF new
<1> QED BY <1>2, <1>3, <1>4, <1>5, <1>6, <1>7, ScanMoves DEF Answer, Active

LEMMA EvidenceFacts ==
  ASSUME NEW tool \in Tools, NEW e \in Evidence(tool)
  PROVE  /\ e.data \in Data(tool) /\ e.by \in Principals \cup {"system"}
         /\ e.by \in Principals \/ e.data = Nothing
BY DEF Evidence, NoEvidence, Data

LEMMA FoundType ==
  ASSUME IInv, NEW r \in Scans, NEW e \in Evidence(Tool(r))
  PROVE  /\ Found(r, e) \in StageResults
         /\ Tool(r) \in Sweeps => DOMAIN Found(r, e).report = {}
         /\ DOMAIN Found(r, e).report # {} => e.by \in Principals
<1> DEFINE res == StageResult(Tool(r), e.data, scan[r].context)
<1>1. Tool(r) \in Tools /\ scan[r].context \in SUBSET Ports
  BY SpotKnown DEF IInv, ScanState
<1>2. e.data \in Data(Tool(r)) /\ e.by \in Principals \cup {"system"}
      /\ (e.by \in Principals \/ e.data = Nothing)
  BY <1>1, EvidenceFacts
<1>3. res \in StageResults /\ (Tool(r) \in Sweeps \/ e.data = Nothing => DOMAIN res.report = {})
  BY <1>1, <1>2, StageResultType
<1>4. Found(r, e) = [res EXCEPT !.source = e.by]
  BY DEF Found
<1> HIDE DEF res
<1>5. Found(r, e) \in StageResults /\ Found(r, e).report = res.report
  BY <1>2, <1>3, <1>4 DEF StageResults
<1> QED BY <1>2, <1>3, <1>5

LEMMA CollectStep ==
  ASSUME IInv, NEW r \in Scans, Collect(r)
  PROVE  IInv'
<1>1. scan[r].st = "calling"
  BY DEF Collect
<1>2. Seen(r) \in Evidence(Tool(r)) /\ Tool(r) \in Tools /\ scan[r] \in ScanState
      /\ scan[r].target \in Targets
  BY <1>1, SpotKnown DEF IInv
<1>3. CASE Answer(r, Found(r, Seen(r)))
  BY <1>1, <1>2, <1>3, FoundType, AnswerStep
<1>4. CASE /\ Seen(r).data.kind = "adapter"
           /\ scan' = [scan EXCEPT ![r].st = "hanging", ![r].held = Seen(r)]
           /\ UNCHANGED <<evidence, graph, queue, reports, puts>>
  <2> DEFINE new == [scan[r] EXCEPT !.st = "hanging", !.held = Seen(r)]
  <2>1. Seen(r) \in UNION {Evidence(tool) : tool \in Tools}
    BY <1>2
  <2>2. new \in ScanState
    BY <1>2, <2>1 DEF ScanState
  <2>3. /\ new.st = "hanging" /\ new.target = scan[r].target /\ new.slot = scan[r].slot
        /\ new.index = scan[r].index /\ new.held = Seen(r)
    BY <1>2 DEF ScanState
  <2>4. scan' = [scan EXCEPT ![r] = new]
    BY <1>4
  <2>5. Seen(r).by \in Principals
    BY <1>2, <1>4, EvidenceFacts DEF Nothing
  <2>6. Head(queue[scan[r].target]) = r
    BY <1>1, <1>2 DEF IInv, QueueOK, Running
  <2> HIDE DEF new
  <2> QED BY <1>1, <1>2, <1>4, <2>2, <2>3, <2>4, <2>5, <2>6, ScanMoves DEF Active
<1> QED BY <1>3, <1>4 DEF Collect

LEMMA AdapterStep ==
  ASSUME IInv, NEW r \in Scans, AdapterEnds(r) \/ TimeOut(r)
  PROVE  IInv'
<1>1. scan[r].st = "hanging"
  BY DEF AdapterEnds, TimeOut
<1>2. scan[r].held \in Evidence(Tool(r)) /\ Seen(r).by \in Principals
  BY <1>1 DEF IInv, TypeOK, BySomeone
<1>3. scan[r].context \in SUBSET Ports
  BY SpotKnown DEF IInv, ScanState
<1>4. CASE Answer(r, Found(r, scan[r].held))
  BY <1>1, <1>2, <1>4, FoundType, AnswerStep
<1>5. ASSUME NEW outcome \in {"error", "timeout"}, Answer(r, Result(outcome, scan[r].context))
      PROVE  IInv'
  <2>1. outcome \in Outcomes
    BY DEF Outcomes
  <2>2. /\ Result(outcome, scan[r].context) \in StageResults
        /\ DOMAIN Result(outcome, scan[r].context).report = {}
    BY <1>3, <2>1, ResultType
  <2> QED BY <1>1, <1>2, <1>5, <2>2, AnswerStep
<1> QED BY <1>4, <1>5 DEF AdapterEnds, TimeOut

LEMMA CreateTargetStep ==
  ASSUME IInv, NEW t \in Targets, CreateTarget(t)
  PROVE  IInv'
<1> DEFINE new == [graph[t] EXCEPT !.known = TRUE]
<1>1. graph \in [Targets -> Host] /\ graph[t] \in Host
  BY DEF IInv, TypeOK
<1>2. new \in Host /\ new.fps = graph[t].fps
  BY <1>1 DEF Host
<1>3. graph' = [graph EXCEPT ![t] = new]
  BY DEF CreateTarget
<1> HIDE DEF new
<1>4. graph' \in [Targets -> Host] /\ \A u \in Targets : graph'[u].fps = graph[u].fps
  BY <1>1, <1>2, <1>3
<1>5. UNCHANGED <<evidence, queue, scan, reports, puts>>
  BY DEF CreateTarget
<1>6. \A r \in Scans : Tool(r)' = Tool(r) /\ Seen(r)' = Seen(r)
  BY <1>5 DEF Tool, Seen
<1>7. TypeOK'
  BY <1>4, <1>5, <1>6 DEF IInv, TypeOK
<1>8. QueueOK' /\ BySomeone'
  BY <1>5, <1>6 DEF IInv, QueueOK, BySomeone, Active, Running
<1>9. OpinionOK'
  BY <1>4 DEF IInv, OpinionOK
<1> QED BY <1>7, <1>8, <1>9 DEF IInv

LEMMA SubmitStep ==
  ASSUME IInv, NEW p \in Principals, NEW t \in Targets, Submit(p, t)
  PROVE  IInv'
<1>1. PICK o \in Offers :
        evidence' = [evidence EXCEPT ![<<o.tool, t>>] = [data |-> o.data, by |-> p]]
  BY DEF Submit
<1> DEFINE e == [data |-> o.data, by |-> p]
<1>2. o.tool \in Tools /\ o.data \in Data(o.tool)
  BY EngineAssumption
<1>3. e \in Evidence(o.tool) /\ e.by = p
  BY <1>2 DEF Evidence
<1>4. UNCHANGED <<graph, queue, scan, reports>> /\ puts' = puts + 1 /\ puts < MaxPuts
  BY DEF Submit
<1>5. <<o.tool, t>> \in Tools \X Targets
  BY <1>2
<1> HIDE DEF e
<1>6. \A k \in Tools \X Targets :
        evidence'[k] = IF k = <<o.tool, t>> THEN e ELSE evidence[k]
  BY <1>1 DEF IInv, TypeOK, e
<1>7. \A k \in Tools \X Targets : evidence'[k] \in Evidence(k[1])
  <2> SUFFICES ASSUME NEW k \in Tools \X Targets
               PROVE  evidence'[k] \in Evidence(k[1])
    OBVIOUS
  <2>1. CASE k = <<o.tool, t>>
    BY <1>3, <1>6, <2>1
  <2>2. CASE k # <<o.tool, t>>
    BY <1>6, <2>2 DEF IInv, TypeOK
  <2> QED BY <2>1, <2>2
<1>8. evidence' \in [Tools \X Targets -> UNION {Evidence(tool) : tool \in Tools}]
  <2>1. e \in UNION {Evidence(tool) : tool \in Tools}
    BY <1>2, <1>3
  <2> QED BY <1>1, <2>1 DEF IInv, TypeOK, e
<1>9. puts' \in 0..MaxPuts
  BY <1>4, EngineAssumption DEF IInv, TypeOK
<1>10. \A r \in Scans : Tool(r)' = Tool(r)
  BY <1>4 DEF Tool
<1>11. TypeOK'
  BY <1>4, <1>7, <1>8, <1>9, <1>10 DEF IInv, TypeOK
<1>12. BySomeone'
  <2> SUFFICES ASSUME NEW r \in Scans,
                      \/ scan[r].st = "hanging"
                      \/ scan[r].st = "answered" /\ DOMAIN scan[r].result.report # {}
               PROVE  Seen(r)'.by \in Principals
    BY <1>4 DEF BySomeone
  <2>1. Seen(r).by \in Principals
    BY DEF IInv, BySomeone
  <2>2. <<Tool(r), scan[r].target>> \in Tools \X Targets
    BY SpotKnown DEF IInv
  <2>3. Seen(r)' = e \/ Seen(r)' = Seen(r)
    BY <1>4, <1>6, <1>10, <2>2 DEF Seen
  <2> QED BY <1>3, <2>1, <2>3
<1>13. QueueOK' /\ OpinionOK'
  BY <1>4 DEF IInv, QueueOK, OpinionOK, Active, Running
<1> QED BY <1>11, <1>12, <1>13 DEF IInv

LEMMA RequestStep ==
  ASSUME IInv, NEW r \in Scans, NEW t \in Targets, Request(r, t)
  PROVE  IInv'
<1> DEFINE new == [scan[r] EXCEPT !.st = "waiting", !.target = t]
           q == queue[t]
<1>1. scan[r].st = "new" /\ UNCHANGED <<evidence, graph, reports, puts>>
  BY DEF Request
<1>2. scan[r] \in ScanState /\ q \in Seq(Scans) /\ Distinct(q)
      /\ scan \in [Scans -> ScanState] /\ queue \in [Targets -> Seq(Scans)]
  BY DEF IInv, TypeOK, QueueOK
<1>3. /\ new \in ScanState /\ new.st = "waiting" /\ new.target = t /\ new.slot = scan[r].slot
      /\ new.index = scan[r].index /\ new.held = scan[r].held
  BY <1>2 DEF ScanState
<1>4. scan' = [scan EXCEPT ![r] = new] /\ queue' = [queue EXCEPT ![t] = Append(q, r)]
  BY DEF Request
<1> HIDE DEF new
<1>5. scan'[r] = new /\ \A x \in Scans : x # r => scan'[x] = scan[x]
  BY <1>2, <1>4
<1>6. \A x \in Scans : ~Active(x) => ~Holds(q, x)
  BY DEF IInv, QueueOK
<1>7. ~Active(r)
  BY <1>1 DEF Active
<1>8. /\ Append(q, r) \in Seq(Scans) /\ Distinct(Append(q, r))
      /\ \A x : Holds(Append(q, r), x) <=> Holds(q, x) \/ x = r
      /\ \A x : Holds(q, x) => Head(Append(q, r)) = Head(q)
  BY <1>2, <1>6, <1>7, Appended
<1>9. \A x \in Scans : Tool(x)' = Tool(x)
  BY <1>3, <1>5 DEF Tool
<1>10. TypeOK'
  <2>1. scan' \in [Scans -> ScanState]
    BY <1>2, <1>3, <1>4
  <2>2. queue' \in [Targets -> Seq(Scans)]
    BY <1>2, <1>4, <1>8
  <2>3. ASSUME NEW x \in Scans
        PROVE  /\ scan'[x].st # "new" => scan'[x].target \in Targets
               /\ scan'[x].index \in DOMAIN Pipeline[scan'[x].slot]
               /\ scan'[x].held \in Evidence(Tool(x)')
               /\ scan'[x].st = "answered" =>
                    /\ scan'[x].result # NoResult
                    /\ Tool(x)' \in Sweeps => DOMAIN scan'[x].result.report = {}
    <3>1. CASE x = r
      BY <1>3, <1>5, <1>9, <3>1 DEF IInv, TypeOK
    <3>2. CASE x # r
      BY <1>5, <1>9, <3>2 DEF IInv, TypeOK
    <3> QED BY <3>1, <3>2
  <2> QED BY <1>1, <2>1, <2>2, <2>3 DEF IInv, TypeOK
<1>11. QueueOK'
  <2> SUFFICES ASSUME NEW u \in Targets
               PROVE  /\ Distinct(queue'[u])
                      /\ \A x \in Scans : Holds(queue'[u], x) <=> Active(x)' /\ scan'[x].target = u
                      /\ \A x \in Scans : Running(x)' /\ scan'[x].target = u => Head(queue'[u]) = x
    BY DEF QueueOK
  <2>1. \A x \in Scans : x # r => (Active(x)' <=> Active(x)) /\ (Running(x)' <=> Running(x))
    BY <1>5 DEF Active, Running
  <2>2. Active(r)' /\ ~Running(r)' /\ scan'[r].target = t
    BY <1>3, <1>5 DEF Active, Running
  <2>3. CASE u = t
    <3>1. queue'[u] = Append(q, r)
      BY <1>2, <1>4, <2>3
    <3>2. \A x \in Scans : Holds(queue'[u], x) <=> Active(x)' /\ scan'[x].target = u
      BY <1>5, <1>8, <2>1, <2>2, <2>3, <3>1 DEF IInv, QueueOK
    <3>3. ASSUME NEW x \in Scans, Running(x)', scan'[x].target = u
          PROVE  Head(queue'[u]) = x
      <4>1. x # r /\ Running(x) /\ scan[x].target = t
        BY <1>5, <2>1, <2>2, <2>3, <3>3
      <4>2. Head(q) = x /\ Holds(q, x)
        BY <4>1 DEF IInv, QueueOK, Running, Active
      <4> QED BY <1>8, <3>1, <4>2
    <3> QED BY <1>8, <3>1, <3>2, <3>3
  <2>4. CASE u # t
    <3>1. queue'[u] = queue[u]
      BY <1>2, <1>4, <2>4
    <3> QED BY <1>5, <1>7, <2>1, <2>2, <2>4, <3>1 DEF IInv, QueueOK
  <2> QED BY <2>3, <2>4
<1>12. BySomeone'
  <2> SUFFICES ASSUME NEW x \in Scans,
                      \/ scan'[x].st = "hanging"
                      \/ scan'[x].st = "answered" /\ DOMAIN scan'[x].result.report # {}
               PROVE  Seen(x)'.by \in Principals
    BY DEF BySomeone
  <2>1. x # r
    BY <1>3, <1>5
  <2>2. scan'[x] = scan[x]
    BY <1>5, <2>1
  <2>3. Seen(x)' = Seen(x)
    BY <1>1, <1>9, <2>2 DEF Seen
  <2> QED BY <2>2, <2>3 DEF IInv, BySomeone
<1>13. OpinionOK'
  BY <1>1 DEF IInv, OpinionOK
<1> QED BY <1>10, <1>11, <1>12, <1>13 DEF IInv

(* A scan ends, gives up its place in the queue and leaves a graph behind. *)
LEMMA ScanEnds ==
  ASSUME IInv, NEW r \in Scans, Active(r), NEW st \in {"done", "cancelled"},
         NEW q2 \in Seq(Scans), Distinct(q2),
         \A x : Holds(q2, x) <=> Holds(queue[scan[r].target], x) /\ x # r,
         \A x \in Scans : x # r /\ Running(x) /\ scan[x].target = scan[r].target
           => Head(q2) = x,
         scan' = [scan EXCEPT ![r] = Idle(st, scan[r].target)],
         queue' = [queue EXCEPT ![scan[r].target] = q2],
         graph' \in [Targets -> Host], OpinionOK', reports' \in [Targets -> ReportState],
         UNCHANGED <<evidence, puts>>
  PROVE  IInv'
<1> DEFINE t == scan[r].target
           new == Idle(st, t)
<1>1. t \in Targets
  BY SpotKnown DEF Active, IInv
<1>2. scan \in [Scans -> ScanState] /\ queue \in [Targets -> Seq(Scans)]
  BY DEF IInv, TypeOK
<1>3. /\ new \in ScanState /\ new.held = NoEvidence /\ new.slot = 1 /\ new.index = 1
      /\ new.st = st /\ new.target = t /\ \A tool : NoEvidence \in Evidence(tool)
  BY <1>1, IdleType
<1> HIDE DEF new
<1>4. scan'[r] = new /\ \A x \in Scans : x # r => scan'[x] = scan[x]
  BY <1>2 DEF new
<1>5. \A x \in Scans : x # r => Tool(x)' = Tool(x) /\ Seen(x)' = Seen(x)
  BY <1>4 DEF Tool, Seen
<1>6. TypeOK'
  <2>1. scan' \in [Scans -> ScanState]
    BY <1>2, <1>3 DEF new
  <2>2. queue' \in [Targets -> Seq(Scans)]
    BY <1>2
  <2>3. ASSUME NEW x \in Scans
        PROVE  /\ scan'[x].st # "new" => scan'[x].target \in Targets
               /\ scan'[x].index \in DOMAIN Pipeline[scan'[x].slot]
               /\ scan'[x].held \in Evidence(Tool(x)')
               /\ scan'[x].st = "answered" =>
                    /\ scan'[x].result # NoResult
                    /\ Tool(x)' \in Sweeps => DOMAIN scan'[x].result.report = {}
    <3>1. CASE x = r
      BY <1>1, <1>3, <1>4, <3>1, PipelineFacts
    <3>2. CASE x # r
      BY <1>4, <1>5, <3>2 DEF IInv, TypeOK
    <3> QED BY <3>1, <3>2
  <2> QED BY <2>1, <2>2, <2>3 DEF IInv, TypeOK
<1>7. QueueOK'
  <2> SUFFICES ASSUME NEW u \in Targets
               PROVE  /\ Distinct(queue'[u])
                      /\ \A x \in Scans : Holds(queue'[u], x) <=> Active(x)' /\ scan'[x].target = u
                      /\ \A x \in Scans : Running(x)' /\ scan'[x].target = u => Head(queue'[u]) = x
    BY DEF QueueOK
  <2>1. \A x \in Scans : x # r => (Active(x)' <=> Active(x)) /\ (Running(x)' <=> Running(x))
    BY <1>4 DEF Active, Running
  <2>2. ~Active(r)' /\ ~Running(r)'
    BY <1>3, <1>4 DEF Active, Running
  <2>3. CASE u = t
    <3>1. queue'[u] = q2
      BY <1>2, <2>3
    <3>2. \A x \in Scans : Holds(queue'[u], x) <=> Active(x)' /\ scan'[x].target = u
      BY <1>4, <2>1, <2>2, <2>3, <3>1 DEF IInv, QueueOK
    <3>3. \A x \in Scans : Running(x)' /\ scan'[x].target = u => Head(queue'[u]) = x
      BY <1>4, <2>1, <2>2, <2>3, <3>1
    <3> QED BY <3>1, <3>2, <3>3
  <2>4. CASE u # t
    <3>1. queue'[u] = queue[u]
      BY <1>2, <2>4
    <3>2. \A x \in Scans : Active(x)' /\ scan'[x].target = u <=> Active(x) /\ scan[x].target = u
      BY <1>4, <2>1, <2>2, <2>4
    <3> QED BY <1>4, <2>1, <2>2, <3>1, <3>2 DEF IInv, QueueOK
  <2> QED BY <2>3, <2>4
<1>8. BySomeone'
  <2> SUFFICES ASSUME NEW x \in Scans,
                      \/ scan'[x].st = "hanging"
                      \/ scan'[x].st = "answered" /\ DOMAIN scan'[x].result.report # {}
               PROVE  Seen(x)'.by \in Principals
    BY DEF BySomeone
  <2>1. x # r
    BY <1>3, <1>4
  <2> QED BY <1>4, <1>5, <2>1 DEF IInv, BySomeone
<1> QED BY <1>6, <1>7, <1>8 DEF IInv

LEMMA CancelStep ==
  ASSUME IInv, NEW r \in Scans, Cancel(r)
  PROVE  IInv'
<1> DEFINE q == queue[scan[r].target]
<1>1. Active(r) /\ UNCHANGED <<evidence, graph, reports, puts>>
  BY DEF Cancel, Active
<1>2. scan[r].target \in Targets
  BY <1>1, SpotKnown DEF Active, IInv
<1>3. q \in Seq(Scans) /\ Distinct(q) /\ Holds(q, r)
  BY <1>1, <1>2 DEF IInv, TypeOK, QueueOK
<1>4. /\ Without(q, r) \in Seq(Scans) /\ Distinct(Without(q, r))
      /\ \A x : Holds(Without(q, r), x) <=> Holds(q, x) /\ x # r
      /\ Head(q) # r => Head(Without(q, r)) = Head(q)
  BY <1>3, Removed
<1>5. \A x \in Scans : x # r /\ Running(x) /\ scan[x].target = scan[r].target
        => Head(Without(q, r)) = x
  BY <1>2, <1>4 DEF IInv, QueueOK
<1>6. graph' \in [Targets -> Host] /\ OpinionOK' /\ reports' \in [Targets -> ReportState]
  BY <1>1 DEF IInv, TypeOK, OpinionOK
<1>7. /\ scan' = [scan EXCEPT ![r] = Idle("cancelled", scan[r].target)]
      /\ queue' = [queue EXCEPT ![scan[r].target] = Without(q, r)]
  BY DEF Cancel
<1> HIDE DEF q
<1> QED BY <1>1, <1>4, <1>5, <1>6, <1>7, ScanEnds DEF q

(* What a scan writes is a graph of the right type, and keeps opinions single. *)
LEMMA WrittenOK ==
  ASSUME IInv, NEW r \in Scans, scan[r].st = "answered"
  PROVE  /\ SoundHost(Written(r))
         /\ Landed(graph[scan[r].target], scan[r].result) \in SUBSET Ports
         /\ scan[r].result \in StageResults
<1> DEFINE h == graph[scan[r].target]
           result == scan[r].result
           host == Applied(h, Tool(r), result, Seen(r).by)
<1>1. /\ scan[r] \in ScanState /\ Tool(r) \in Tools /\ scan[r].target \in Targets
      /\ h \in Host /\ Seen(r) \in Evidence(Tool(r))
  BY SpotKnown DEF IInv
<1>2. SoundHost(h)
  BY <1>1 DEF SoundHost, IInv, OpinionOK
<1>3. result \in StageResults /\ (Tool(r) \in Sweeps => DOMAIN result.report = {})
  BY <1>1 DEF ScanState, IInv, TypeOK
<1>4. Seen(r).by \in Principals \cup {"system"}
  BY <1>1, EvidenceFacts
<1>5. DOMAIN result.report # {} => Seen(r).by \in Principals
  BY DEF IInv, BySomeone
<1>6. SoundHost(host) /\ Landed(h, result) \in SUBSET Ports
  BY <1>1, <1>2, <1>3, <1>4, <1>5, AppliedOK
<1>7. SoundHost(Downgraded(host, Tool(r), result))
  BY <1>1, <1>3, <1>6, DowngradedOK
<1>8. Written(r) = host \/ Written(r) = Downgraded(host, Tool(r), result)
  BY DEF Written
<1> HIDE DEF host
<1> QED BY <1>3, <1>6, <1>7, <1>8

LEMMA GraphWritten ==
  ASSUME IInv, NEW t \in Targets, NEW h, SoundHost(h), graph' = [graph EXCEPT ![t] = h]
  PROVE  graph' \in [Targets -> Host] /\ OpinionOK'
BY DEF IInv, TypeOK, SoundHost, OpinionOK

LEMMA OnwardType ==
  ASSUME IInv, NEW r \in Scans, scan[r].st = "answered"
  PROVE  /\ Attempts(r) \in Seq(Attempt)
         /\ Exhausted(r) \in SUBSET DOMAIN Pipeline
         /\ Context(r) \in SUBSET Ports
         /\ Onward(r).slot \in DOMAIN Pipeline =>
              Onward(r).index \in DOMAIN Pipeline[Onward(r).slot]
<1>1. /\ scan[r] \in ScanState /\ scan[r].slot \in 1..3
      /\ scan[r].index \in DOMAIN Pipeline[scan[r].slot]
  BY SpotKnown DEF IInv
<1>2. scan[r].index \in 1..2 /\ scan[r].result.outcome \in Outcomes
  BY <1>1, WrittenOK DEF ScanState, StageResults
<1>3. Attempts(r) \in Seq(Attempt)
  <2> DEFINE a == [slot |-> scan[r].slot, index |-> scan[r].index,
                   outcome |-> scan[r].result.outcome]
  <2>1. a \in Attempt
    BY <1>1, <1>2, PipelineFacts DEF Attempt
  <2>2. scan[r].attempts \in Seq(Attempt)
    BY <1>1 DEF ScanState
  <2> HIDE DEF a
  <2>3. Append(scan[r].attempts, a) \in Seq(Attempt)
    BY <2>1, <2>2
  <2> QED BY <2>3 DEF Attempts, a
<1>4. Exhausted(r) \in SUBSET DOMAIN Pipeline
  BY <1>1, PipelineFacts DEF Exhausted, ScanState
<1>5. Context(r) \in SUBSET Ports
  <2>1. scan[r].context \in SUBSET Ports
    BY <1>1 DEF ScanState
  <2> QED BY <2>1, WrittenOK DEF Context
<1>6. ASSUME Onward(r).slot \in DOMAIN Pipeline
      PROVE  Onward(r).index \in DOMAIN Pipeline[Onward(r).slot]
  <2>1. CASE /\ NeedsFallback(scan[r].result.outcome)
             /\ scan[r].index < Len(Pipeline[scan[r].slot])
    <3>1. Onward(r).slot = scan[r].slot /\ Onward(r).index = scan[r].index + 1
      BY <2>1 DEF Onward, Following
    <3> QED BY <1>1, <2>1, <3>1, PipelineFacts
  <2>2. CASE ~(/\ NeedsFallback(scan[r].result.outcome)
               /\ scan[r].index < Len(Pipeline[scan[r].slot]))
    <3>1. Onward(r).index = 1
      BY <2>2 DEF Onward, Following
    <3> QED BY <1>6, <3>1, PipelineFacts
  <2> QED BY <2>1, <2>2
<1> QED BY <1>3, <1>4, <1>5, <1>6

LEMMA AdvanceStep ==
  ASSUME IInv, NEW r \in Scans, Advance(r)
  PROVE  IInv'
<1> DEFINE s == scan[r]
           new == [s EXCEPT !.st = "calling", !.slot = Onward(r).slot,
                            !.index = Onward(r).index, !.context = Context(r),
                            !.held = NoEvidence, !.result = NoResult,
                            !.attempts = Attempts(r), !.exhausted = Exhausted(r)]
           slot == Onward(r).slot
           index == Onward(r).index
<1>1. s.st = "answered" /\ slot \in DOMAIN Pipeline
      /\ UNCHANGED <<evidence, queue, reports, puts>>
  BY DEF Advance
<1>2. s \in ScanState /\ s.target \in Targets /\ scan \in [Scans -> ScanState]
  BY <1>1, SpotKnown DEF IInv, TypeOK
<1>3. /\ Attempts(r) \in Seq(Attempt) /\ Exhausted(r) \in SUBSET DOMAIN Pipeline
      /\ Context(r) \in SUBSET Ports /\ index \in DOMAIN Pipeline[slot]
  BY <1>1, OnwardType
<1>4. index \in 1..2 /\ slot \in 1..3 /\ Pipeline[slot][index] \in Tools
  BY <1>1, <1>3, PipelineFacts
<1>5. NoEvidence \in UNION {Evidence(tool) : tool \in Tools}
      /\ \A tool : NoEvidence \in Evidence(tool)
  BY <1>4 DEF Evidence
<1> HIDE DEF slot, index
<1>6. new = [s EXCEPT !.st = "calling", !.slot = slot, !.index = index, !.context = Context(r),
                      !.held = NoEvidence, !.result = NoResult,
                      !.attempts = Attempts(r), !.exhausted = Exhausted(r)]
  BY DEF slot, index
<1>7. scan' = [scan EXCEPT ![r] = new]
  BY DEF Advance
<1> HIDE DEF new, s
<1>8. /\ new \in ScanState /\ new.st = "calling" /\ new.target = s.target
      /\ new.slot = slot /\ new.index = index /\ new.held = NoEvidence
  BY <1>1, <1>2, <1>3, <1>4, <1>5, <1>6 DEF ScanState
<1>9. scan'[r] = new /\ \A x \in Scans : x # r => scan'[x] = scan[x]
  BY <1>2, <1>7
<1>10. \A x \in Scans : x # r => Tool(x)' = Tool(x) /\ Seen(x)' = Seen(x)
  BY <1>1, <1>9 DEF Tool, Seen
<1>11. graph' \in [Targets -> Host] /\ OpinionOK'
  <2>1. graph' = [graph EXCEPT ![s.target] = Written(r)]
    BY DEF Advance, s
  <2> QED BY <1>1, <1>2, <2>1, WrittenOK, GraphWritten DEF s
<1>12. TypeOK'
  <2>1. scan' \in [Scans -> ScanState]
    BY <1>2, <1>7, <1>8
  <2>2. ASSUME NEW x \in Scans
        PROVE  /\ scan'[x].st # "new" => scan'[x].target \in Targets
               /\ scan'[x].index \in DOMAIN Pipeline[scan'[x].slot]
               /\ scan'[x].held \in Evidence(Tool(x)')
               /\ scan'[x].st = "answered" =>
                    /\ scan'[x].result # NoResult
                    /\ Tool(x)' \in Sweeps => DOMAIN scan'[x].result.report = {}
    <3>1. CASE x = r
      BY <1>2, <1>3, <1>5, <1>8, <1>9, <3>1
    <3>2. CASE x # r
      BY <1>9, <1>10, <3>2 DEF IInv, TypeOK
    <3> QED BY <3>1, <3>2
  <2> QED BY <1>1, <1>11, <2>1, <2>2 DEF IInv, TypeOK
<1>13. QueueOK'
  <2>1. \A x \in Scans : /\ Active(x)' <=> Active(x)
                         /\ Running(x)' <=> Running(x)
                         /\ scan'[x].target = scan[x].target
    BY <1>1, <1>8, <1>9 DEF Active, Running, s
  <2> QED BY <1>1, <2>1 DEF IInv, QueueOK
<1>14. BySomeone'
  <2> SUFFICES ASSUME NEW x \in Scans,
                      \/ scan'[x].st = "hanging"
                      \/ scan'[x].st = "answered" /\ DOMAIN scan'[x].result.report # {}
               PROVE  Seen(x)'.by \in Principals
    BY DEF BySomeone
  <2>1. x # r
    BY <1>8, <1>9
  <2> QED BY <1>9, <1>10, <2>1 DEF IInv, BySomeone
<1> QED BY <1>11, <1>12, <1>13, <1>14 DEF IInv

LEMMA ConcludeStep ==
  ASSUME IInv, NEW r \in Scans, Conclude(r)
  PROVE  IInv'
<1> DEFINE t == scan[r].target
           q == queue[t]
<1>1. scan[r].st = "answered" /\ Active(r) /\ Running(r) /\ UNCHANGED <<evidence, puts>>
  BY DEF Conclude, Active, Running
<1>2. t \in Targets
  BY <1>1, SpotKnown DEF IInv
<1>3. q \in Seq(Scans) /\ Distinct(q) /\ Holds(q, r) /\ Head(q) = r
  BY <1>1, <1>2 DEF IInv, TypeOK, QueueOK
<1>4. /\ Tail(q) \in Seq(Scans) /\ Distinct(Tail(q))
      /\ \A x : Holds(Tail(q), x) <=> Holds(q, x) /\ x # r
  BY <1>3, Dequeued
<1>5. \A x \in Scans : x # r /\ Running(x) /\ scan[x].target = t => Head(Tail(q)) = x
  BY <1>2, <1>3 DEF IInv, QueueOK
<1>6. SoundHost(Written(r)) /\ SoundHost(Correlated(Written(r)))
  BY <1>1, WrittenOK, CorrelatedOK
<1>7. graph' \in [Targets -> Host] /\ OpinionOK'
  <2>1. graph' = [graph EXCEPT ![t] = Correlated(Written(r))]
    BY DEF Conclude
  <2> QED BY <1>2, <1>6, <2>1, GraphWritten
<1>8. reports' \in [Targets -> ReportState]
  <2> DEFINE rep == [done |-> TRUE, scan |-> r, ledger |-> Ledger(Written(r)),
                     attempts |-> Attempts(r), exhausted |-> Exhausted(r)]
  <2>1. Ledger(Written(r)) \in SUBSET Lead
    BY <1>6, LedgerType DEF SoundHost
  <2>2. rep \in ReportState
    BY <1>1, <2>1, OnwardType DEF ReportState
  <2>3. reports' = [reports EXCEPT ![t] = rep]
    BY DEF Conclude
  <2> HIDE DEF rep
  <2> QED BY <2>2, <2>3 DEF IInv, TypeOK
<1>9. /\ scan' = [scan EXCEPT ![r] = Idle("done", t)]
      /\ queue' = [queue EXCEPT ![t] = Tail(q)]
  BY DEF Conclude
<1> HIDE DEF q
<1> QED BY <1>1, <1>4, <1>5, <1>7, <1>8, <1>9, ScanEnds DEF q

LEMMA Inductive == IInv /\ [Next]_vars => IInv'
<1> SUFFICES ASSUME IInv, [Next]_vars PROVE IInv'
  OBVIOUS
<1>1. CASE UNCHANGED vars
  <2>1. UNCHANGED <<evidence, graph, queue, scan, reports, puts>>
    BY <1>1 DEF vars
  <2>2. TypeOK'
    BY <2>1 DEF IInv, TypeOK, Tool
  <2>3. QueueOK' /\ OpinionOK'
    BY <2>1 DEF IInv, QueueOK, OpinionOK, Active, Running
  <2>4. BySomeone'
    BY <2>1 DEF IInv, BySomeone, Seen, Tool
  <2> QED BY <2>2, <2>3, <2>4 DEF IInv
<1>2. CASE \E t \in Targets : CreateTarget(t) \/ (\E p \in Principals : Submit(p, t))
  BY <1>2, CreateTargetStep, SubmitStep
<1>3. ASSUME NEW r \in Scans, ScanStep(r)
      PROVE  IInv'
  BY <1>3, BeginStep, CollectStep, AdapterStep, AdvanceStep, ConcludeStep DEF ScanStep, Resume
<1>4. ASSUME NEW r \in Scans, Cancel(r) \/ (\E t \in Targets : Request(r, t))
      PROVE  IInv'
  BY <1>4, CancelStep, RequestStep
<1> QED BY <1>1, <1>2, <1>3, <1>4 DEF Next

-----------------------------------------------------------------------------
(* Theorems. *)

(* Evidence, graphs, queues, coroutines and reports keep their types, levels *)
(* of confidence stay between 0 and 1, in every run of the engine.           *)
THEOREM TypeCorrect == Spec => []TypeOK
<1>1. IInv => TypeOK
  BY DEF IInv
<1> QED BY <1>1, InitInv, Inductive, PTL DEF Spec

(* However many requests, cancellations and timeouts: never two scans of one *)
(* target past its lock.                                                     *)
THEOREM OneScanPerTargetAlways == Spec => []OneScanPerTarget
<1>1. IInv => OneScanPerTarget
  <2> SUFFICES ASSUME IInv, NEW r \in Scans, NEW other \in Scans, Running(r), Running(other),
                      scan[r].target = scan[other].target
               PROVE  r = other
    BY DEF OneScanPerTarget
  <2>1. scan[r].target \in Targets
    BY SpotKnown DEF IInv, Running
  <2> QED BY <2>1 DEF IInv, QueueOK
<1> QED BY <1>1, InitInv, Inductive, PTL DEF Spec

(* RC-01b for any number of submitters, tools, scans and resubmissions, and  *)
(* for any caps of the log: its first entry outlives every cut, so what only *)
(* one submitter was ever heard on is worth no more than one claim of its.   *)
THEOREM OneOpinionAlways == Spec => []OneOpinion
<1>1. IInv => OneOpinion
  <2> SUFFICES ASSUME IInv, NEW t \in Targets, NEW k \in Claimed(graph[t]),
                      Cardinality(graph[t].fps[k].heard) <= 1
               PROVE  graph[t].fps[k].level <= BestClaim
    BY DEF OneOpinion
  <2> DEFINE fp == graph[t].fps[k]
             S == fp.heard
  <2>1. k \in Keys /\ fp # NoFingerprint
    BY DEF Claimed
  <2>2. IsFiniteSet(S) /\ (Single(fp) => fp.level <= BestClaim)
    BY <2>1 DEF IInv, OpinionOK, Sound
  <2>3. Single(fp)
    <3> SUFFICES ASSUME NEW a \in S, NEW b \in S, a # b PROVE FALSE
      BY DEF Single
    <3>1. Cardinality({a, b}) = 2 /\ {a, b} \subseteq S
      <4>1. IsFiniteSet({a}) /\ Cardinality({a}) = 1
        BY FS_Singleton
      <4>2. Cardinality({a} \cup {b}) = Cardinality({a}) + 1
        BY <4>1, FS_AddElement
      <4>3. {a, b} = {a} \cup {b}
        OBVIOUS
      <4> QED BY <4>1, <4>2, <4>3
    <3>2. Cardinality({a, b}) <= Cardinality(S)
      BY <2>2, <3>1, FS_Subset
    <3>3. Cardinality(S) \in Nat
      BY <2>2, FS_CardinalityType
    <3> QED BY <3>1, <3>2, <3>3
  <2> QED BY <2>2, <2>3
<1> QED BY <1>1, InitInv, Inductive, PTL DEF Spec

-----------------------------------------------------------------------------
(* The ledger and the leads, silence, and the failure record. *)

(* Nothing but correlation writes leads, and correlation adds those that miss. *)
LEMMA LeadsKept ==
  ASSUME IInv, NEW r \in Scans, scan[r].st = "answered"
  PROVE  Written(r).leads = graph[scan[r].target].leads
<1> DEFINE h == graph[scan[r].target]
           result == scan[r].result
           host == Applied(h, Tool(r), result, Seen(r).by)
<1>1. h \in Host
  BY SpotKnown DEF IInv, TypeOK
<1>2. host.leads = h.leads /\ host = [host EXCEPT !.fps = host.fps]
  BY <1>1 DEF Applied, Host
<1> HIDE DEF host, h
<1>3. \A fps : [host EXCEPT !.fps = fps].leads = host.leads
  BY <1>2
<1>4. Downgraded(host, Tool(r), result).leads = host.leads
  BY <1>3 DEF Downgraded
<1>5. Written(r) = host \/ Written(r) = Downgraded(host, Tool(r), result)
  BY DEF Written, host, h
<1> QED BY <1>2, <1>4, <1>5 DEF h

LEMMA LeadsOfLedger ==
  ASSUME NEW h \in Host
  PROVE  \A row \in Ledger(h) :
           \E l \in Correlated(h).leads : l.port = row.port /\ l.version = row.version
<1>1. Correlated(h).leads =
        h.leads \cup {row \in Ledger(h) :
                        \A l \in h.leads : l.port # row.port \/ l.version # row.version}
  BY DEF Correlated, Host
<1> QED BY <1>1

(* A stage that examined nothing reports nothing.                             *)
QuietResults ==
  \A r \in Scans :
    scan[r].st = "answered" /\ scan[r].result.outcome \in {"no_data", "skipped"}
      => DOMAIN scan[r].result.report = {}

(* The attempts of a scan that has come to a technique: the slots before are   *)
(* explained, and of this one the techniques before it failed, one by one.     *)
Trail(attempts, exhausted, slot, index) ==
  /\ \A s \in 1..(slot - 1) : Explained(attempts, exhausted, s)
  /\ \E before \in 0..Len(attempts) :
       /\ Len(attempts) = before + (index - 1)
       /\ {i \in DOMAIN attempts : attempts[i].slot = slot} = (before + 1)..Len(attempts)
       /\ \A i \in 1..(index - 1) : attempts[before + i].index = i
  /\ \A i \in DOMAIN attempts :
       /\ attempts[i].slot <= slot
       /\ attempts[i].slot = slot => attempts[i].outcome \notin {"success", "skipped"}
  /\ exhausted \subseteq 1..(slot - 1)

Trails ==
  \A r \in Scans :
    Trail(scan[r].attempts, scan[r].exhausted, scan[r].slot, scan[r].index)

LEMMA QuietStage ==
  ASSUME NEW tool \in Tools, NEW data \in Data(tool), NEW context \in SUBSET Ports,
         StageResult(tool, data, context).outcome \in {"no_data", "skipped"}
  PROVE  DOMAIN StageResult(tool, data, context).report = {}
<1> DEFINE res == StageResult(tool, data, context)
<1>1. \A outcome, scope : /\ Result(outcome, scope).outcome = outcome
                          /\ DOMAIN Result(outcome, scope).report = {}
  BY DEF Result, EmptyReport
<1>2. ASSUME NEW seen, NEW web, res = WebResult(seen, web) \/ res = ProbeResult(seen)
      PROVE  DOMAIN res.report = {}
  <2> SUFFICES ASSUME \A outcome, scope : res # Result(outcome, scope)
               PROVE  FALSE
    BY <1>1
  <2>1. \A outcome, scope, report :
          [Result(outcome, scope) EXCEPT !.report = report].outcome = outcome
    BY DEF Result
  <2> DEFINE apps == [p \in DOMAIN seen \cap web |-> seen[p]]
             report == [p \in DOMAIN seen |-> [seen[p] EXCEPT !.ambiguous = Vague(seen[p])]]
             vague == {p \in DOMAIN seen : report[p].ambiguous}
  <2>2. \/ res = [Result("success", web) EXCEPT !.report = apps]
        \/ res = [Result("ambiguous", vague) EXCEPT !.report = report]
        \/ res = [Result("success", DOMAIN seen) EXCEPT !.report = report]
    <3>1. CASE res = WebResult(seen, web)
      BY <3>1 DEF WebResult
    <3>2. CASE res = ProbeResult(seen)
      BY <3>2 DEF ProbeResult
    <3> QED BY <1>2, <3>1, <3>2
  <2> HIDE DEF apps, report, vague
  <2>3. res.outcome \in {"success", "ambiguous"}
    BY <2>1, <2>2
  <2> QED BY <2>3
<1>3. \/ \E outcome, scope : res = Result(outcome, scope)
      \/ res = [Result("success", data.ports) EXCEPT !.ports = data.ports]
      \/ \E seen, web : res = WebResult(seen, web) \/ res = ProbeResult(seen)
  BY DEF StageResult
<1>4. [Result("success", data.ports) EXCEPT !.ports = data.ports].outcome = "success"
  BY DEF Result
<1> QED BY ZenonT(30), <1>1, <1>2, <1>3, <1>4

LEMMA QuietFound ==
  ASSUME IInv, NEW r \in Scans, NEW e \in Evidence(Tool(r)),
         Found(r, e).outcome \in {"no_data", "skipped"}
  PROVE  DOMAIN Found(r, e).report = {}
<1> DEFINE res == StageResult(Tool(r), e.data, scan[r].context)
<1>1. Tool(r) \in Tools /\ scan[r].context \in SUBSET Ports
  BY SpotKnown DEF IInv, ScanState
<1>2. e.data \in Data(Tool(r))
  BY <1>1, EvidenceFacts
<1>3. res \in StageResults
  BY <1>1, <1>2, StageResultType
<1>4. Found(r, e) = [res EXCEPT !.source = e.by]
  BY DEF Found
<1> HIDE DEF res
<1>5. Found(r, e).outcome = res.outcome /\ Found(r, e).report = res.report
  BY <1>3, <1>4 DEF StageResults
<1> QED BY <1>1, <1>2, <1>5, QuietStage DEF res

(* What a step does to the coroutines, as far as these properties go. *)
Untouched(x) == scan'[x] = scan[x]
Onwards(x) ==
  /\ Running(x)
  /\ scan'[x].target = scan[x].target
  /\ scan'[x].attempts = scan[x].attempts /\ scan'[x].exhausted = scan[x].exhausted
  /\ scan'[x].slot = scan[x].slot /\ scan'[x].index = scan[x].index
  /\ scan'[x].found = scan[x].found
  /\ scan'[x].st = "answered" /\ scan'[x].result.outcome \in {"no_data", "skipped"}
       => DOMAIN scan'[x].result.report = {}
Starts(x) ==
  /\ scan'[x].st = "calling"
  /\ scan'[x].attempts = scan[x].attempts /\ scan'[x].exhausted = scan[x].exhausted
  /\ scan'[x].slot = scan[x].slot /\ scan'[x].index = scan[x].index
  /\ scan'[x].found = graph[scan'[x].target].fps
Apart(x) ==
  /\ ~Running(x)'
  /\ \/ /\ scan'[x].attempts = scan[x].attempts /\ scan'[x].exhausted = scan[x].exhausted
        /\ scan'[x].slot = scan[x].slot /\ scan'[x].index = scan[x].index
     \/ /\ scan'[x].attempts = <<>> /\ scan'[x].exhausted = {}
        /\ scan'[x].slot = 1 /\ scan'[x].index = 1

LEMMA ScanFrame ==
  ASSUME IInv, [Next]_vars
  PROVE  \/ /\ \A t \in Targets : graph'[t].fps = graph[t].fps /\ graph'[t].leads = graph[t].leads
            /\ UNCHANGED reports
            /\ \A x \in Scans : Untouched(x) \/ Onwards(x) \/ Starts(x) \/ Apart(x)
         \/ \E r \in Scans : Advance(r) \/ Conclude(r)
<1> DEFINE Frame == /\ \A t \in Targets : graph'[t].fps = graph[t].fps /\ graph'[t].leads = graph[t].leads
                    /\ UNCHANGED reports
                    /\ \A x \in Scans : Untouched(x) \/ Onwards(x) \/ Starts(x) \/ Apart(x)
<1> SUFFICES Frame \/ \E r \in Scans : Advance(r) \/ Conclude(r)
  OBVIOUS
<1>0. scan \in [Scans -> ScanState] /\ graph \in [Targets -> Host]
  BY DEF IInv, TypeOK
<1>1. ASSUME UNCHANGED <<scan, reports>>,
             \A t \in Targets : graph'[t].fps = graph[t].fps /\ graph'[t].leads = graph[t].leads
      PROVE  Frame
  BY <1>1 DEF Untouched
<1>2. ASSUME NEW r \in Scans, UNCHANGED <<graph, reports>>,
             \A x \in Scans : x # r => scan'[x] = scan[x],
             Onwards(r) \/ Starts(r) \/ Apart(r)
      PROVE  Frame
  BY <1>2 DEF Untouched
<1> HIDE DEF Frame
<1>3. CASE UNCHANGED vars
  BY <1>1, <1>3 DEF vars
<1>4. ASSUME NEW t \in Targets, CreateTarget(t)
      PROVE  Frame
  <2>1. \A u \in Targets : graph'[u].fps = graph[u].fps /\ graph'[u].leads = graph[u].leads
    BY <1>0, <1>4 DEF CreateTarget, Host
  <2> QED BY <1>1, <1>4, <2>1 DEF CreateTarget
<1>5. ASSUME NEW t \in Targets, NEW p \in Principals, Submit(p, t)
      PROVE  Frame
  BY <1>1, <1>5 DEF Submit
<1>6. ASSUME NEW r \in Scans, Begin(r)
      PROVE  Frame
  <2>1. Starts(r)
    BY <1>0, <1>6 DEF Begin, Starts, ScanState
  <2> QED BY <1>0, <1>2, <1>6, <2>1 DEF Begin
<1>7. ASSUME NEW r \in Scans, NEW result, Running(r), Answer(r, result),
             result.outcome \in {"no_data", "skipped"} => DOMAIN result.report = {}
      PROVE  Frame
  <2>1. Onwards(r)
    BY <1>0, <1>7 DEF Answer, Onwards, ScanState
  <2> QED BY <1>0, <1>2, <1>7, <2>1 DEF Answer
<1>8. ASSUME NEW r \in Scans, Collect(r)
      PROVE  Frame
  <2>1. Running(r) /\ Seen(r) \in Evidence(Tool(r))
    BY <1>8, SpotKnown DEF Collect, Running, IInv
  <2>2. CASE Answer(r, Found(r, Seen(r)))
    BY <1>7, <2>1, <2>2, QuietFound
  <2>3. CASE /\ scan' = [scan EXCEPT ![r].st = "hanging", ![r].held = Seen(r)]
             /\ UNCHANGED <<evidence, graph, queue, reports, puts>>
    <3>1. Onwards(r)
      BY <1>0, <2>1, <2>3 DEF Onwards, ScanState
    <3> QED BY <1>0, <1>2, <2>3, <3>1
  <2> QED BY <1>8, <2>2, <2>3 DEF Collect
<1>9. ASSUME NEW r \in Scans, AdapterEnds(r) \/ TimeOut(r)
      PROVE  Frame
  <2>1. Running(r) /\ scan[r].held \in Evidence(Tool(r))
    BY <1>9 DEF AdapterEnds, TimeOut, Running, IInv, TypeOK
  <2>2. CASE Answer(r, Found(r, scan[r].held))
    BY <1>7, <2>1, <2>2, QuietFound
  <2>3. ASSUME NEW outcome, Answer(r, Result(outcome, scan[r].context))
        PROVE  Frame
    <3>1. DOMAIN Result(outcome, scan[r].context).report = {}
      BY DEF Result, EmptyReport
    <3> QED BY <1>7, <2>1, <2>3, <3>1
  <2> QED BY <1>9, <2>2, <2>3 DEF AdapterEnds, TimeOut
<1>10. ASSUME NEW r \in Scans, Cancel(r)
       PROVE  Frame
  <2>1. scan'[r] = Idle("cancelled", scan[r].target)
    BY <1>0, <1>10 DEF Cancel
  <2>2. Apart(r)
    BY <2>1 DEF Apart, Running, Idle
  <2> QED BY <1>0, <1>2, <1>10, <2>2 DEF Cancel
<1>11. ASSUME NEW r \in Scans, NEW t \in Targets, Request(r, t)
       PROVE  Frame
  <2>1. Apart(r)
    BY <1>0, <1>11 DEF Request, Apart, Running, ScanState
  <2> QED BY <1>0, <1>2, <1>11, <2>1 DEF Request
<1>12. CASE \E t \in Targets : CreateTarget(t) \/ (\E p \in Principals : Submit(p, t))
  BY <1>4, <1>5, <1>12
<1>13. ASSUME NEW r \in Scans,
              ScanStep(r) \/ Cancel(r) \/ (\E t \in Targets : Request(r, t)),
              ~Advance(r), ~Conclude(r)
       PROVE  Frame
  <2>1. Begin(r) \/ Collect(r) \/ AdapterEnds(r) \/ TimeOut(r) \/ Cancel(r)
          \/ (\E t \in Targets : Request(r, t))
    BY <1>13 DEF ScanStep, Resume
  <2> QED BY <1>6, <1>8, <1>9, <1>10, <1>11, <2>1
<1> QED BY <1>3, <1>12, <1>13 DEF Next

(* Where the two writing steps leave the coroutine they belong to, and the others. *)
LEMMA WritingFrame ==
  ASSUME IInv, NEW r \in Scans, Advance(r) \/ Conclude(r)
  PROVE  /\ scan[r].st = "answered" /\ scan[r].target \in Targets
         /\ \A x \in Scans : x # r => scan'[x] = scan[x]
         /\ \A t \in Targets : t # scan[r].target => graph'[t] = graph[t]
         /\ Advance(r) =>
              /\ scan'[r].st = "calling" /\ scan'[r].target = scan[r].target
              /\ scan'[r].slot = Onward(r).slot /\ scan'[r].index = Onward(r).index
              /\ scan'[r].attempts = Attempts(r) /\ scan'[r].exhausted = Exhausted(r)
              /\ scan'[r].found = scan[r].found
              /\ graph'[scan[r].target] = Written(r)
              /\ UNCHANGED reports
         /\ Conclude(r) =>
              /\ scan'[r] = Idle("done", scan[r].target)
              /\ Onward(r).slot \notin DOMAIN Pipeline
              /\ graph'[scan[r].target] = Correlated(Written(r))
              /\ reports'[scan[r].target].done
              /\ reports'[scan[r].target].ledger = Ledger(Written(r))
              /\ reports'[scan[r].target].attempts = Attempts(r)
              /\ reports'[scan[r].target].exhausted = Exhausted(r)
              /\ \A t \in Targets : t # scan[r].target => reports'[t] = reports[t]
<1> DEFINE t == scan[r].target
<1>0. /\ scan \in [Scans -> ScanState] /\ graph \in [Targets -> Host]
      /\ reports \in [Targets -> ReportState]
  BY DEF IInv, TypeOK
<1>1. scan[r].st = "answered" /\ t \in Targets
  <2>1. scan[r].st = "answered"
    BY DEF Advance, Conclude
  <2> QED BY <2>1, SpotKnown DEF IInv
<1>2. \A x \in Scans : x # r => scan'[x] = scan[x]
  BY <1>0 DEF Advance, Conclude
<1>3. \A u \in Targets : u # t => graph'[u] = graph[u]
  BY <1>0 DEF Advance, Conclude
<1>4. ASSUME Advance(r)
      PROVE  /\ scan'[r].st = "calling" /\ scan'[r].target = t
             /\ scan'[r].slot = Onward(r).slot /\ scan'[r].index = Onward(r).index
             /\ scan'[r].attempts = Attempts(r) /\ scan'[r].exhausted = Exhausted(r)
             /\ scan'[r].found = scan[r].found
             /\ graph'[t] = Written(r)
             /\ UNCHANGED reports
  <2>1. scan[r] \in ScanState
    BY <1>0
  <2>2. scan'[r] = [scan[r] EXCEPT !.st = "calling", !.slot = Onward(r).slot,
                            !.index = Onward(r).index, !.context = Context(r),
                            !.held = NoEvidence, !.result = NoResult,
                            !.attempts = Attempts(r), !.exhausted = Exhausted(r)]
    BY <1>0, <1>4 DEF Advance
  <2>3. graph'[t] = Written(r) /\ UNCHANGED reports
    BY <1>0, <1>1, <1>4 DEF Advance
  <2> QED BY <2>1, <2>2, <2>3 DEF ScanState
<1>5. ASSUME Conclude(r)
      PROVE  /\ scan'[r] = Idle("done", t)
             /\ Onward(r).slot \notin DOMAIN Pipeline
             /\ graph'[t] = Correlated(Written(r))
             /\ reports'[t].done
             /\ reports'[t].ledger = Ledger(Written(r))
             /\ reports'[t].attempts = Attempts(r)
             /\ reports'[t].exhausted = Exhausted(r)
             /\ \A u \in Targets : u # t => reports'[u] = reports[u]
  BY <1>0, <1>1, <1>5 DEF Conclude
<1> QED BY <1>1, <1>2, <1>3, <1>4, <1>5

LEMMA QuietStep ==
  ASSUME IInv, QuietResults, [Next]_vars
  PROVE  QuietResults'
<1>1. ASSUME \A x \in Scans : Untouched(x) \/ Onwards(x) \/ Starts(x) \/ Apart(x)
      PROVE  QuietResults'
  BY <1>1 DEF QuietResults, Untouched, Onwards, Starts, Apart, Running
<1>2. ASSUME NEW r \in Scans, Advance(r) \/ Conclude(r)
      PROVE  QuietResults'
  <2>0. scan'[r].st = "calling" \/ scan'[r] = Idle("done", scan[r].target)
    BY <1>2, WritingFrame
  <2>1. scan'[r].st # "answered"
    BY <2>0 DEF Idle
  <2>2. \A x \in Scans : x # r => scan'[x] = scan[x]
    BY <1>2, WritingFrame
  <2> QED BY <2>1, <2>2 DEF QuietResults
<1> QED BY <1>1, <1>2, ScanFrame

(* A result that is no evidence changes no fingerprint. *)
LEMMA SilentWrite ==
  ASSUME IInv, QuietResults, NEW r \in Scans, scan[r].st = "answered",
         Silent([slot |-> scan[r].slot, index |-> scan[r].index,
                 outcome |-> scan[r].result.outcome])
  PROVE  Written(r).fps = graph[scan[r].target].fps
<1> DEFINE h == graph[scan[r].target]
           result == scan[r].result
           host == Applied(h, Tool(r), result, Seen(r).by)
<1>1. /\ scan[r].slot \in 1..3 /\ scan[r].index \in DOMAIN Pipeline[scan[r].slot]
      /\ h \in Host
  BY SpotKnown DEF IInv
<1>2. \/ result.outcome \in {"no_data", "skipped"}
      \/ scan[r].slot = 1 /\ result.outcome = "success"
  BY DEF Silent
<1>3. DOMAIN result.report = {}
  <2>1. CASE result.outcome \in {"no_data", "skipped"}
    BY <2>1 DEF QuietResults
  <2>2. CASE scan[r].slot = 1
    <3>1. Tool(r) \in Sweeps
      BY <1>1, <2>2 DEF Tool, Pipeline, Sweeps
    <3> QED BY <3>1 DEF IInv, TypeOK
  <2> QED BY <1>2, <2>1, <2>2
<1>4. Landed(h, result) = {}
  BY <1>3 DEF Landed
<1>5. h.fps = [k \in Keys |-> h.fps[k]]
  BY <1>1 DEF Host, Fingerprints
<1>6. host.fps = h.fps
  BY <1>1, <1>4, <1>5 DEF Applied, Host
<1>7. Written(r) = host
  BY <1>2 DEF Written, NeedsFallback, Downgraded, Spares
<1> QED BY <1>6, <1>7

LEMMA SilenceStep ==
  ASSUME IInv, QuietResults, SilenceIsNoEvidence, [Next]_vars, IInv'
  PROVE  SilenceIsNoEvidence'
<1> SUFFICES ASSUME NEW x \in Scans, Running(x)',
                    \A i \in DOMAIN scan'[x].attempts : Silent(scan'[x].attempts[i])
             PROVE  graph'[scan'[x].target].fps = scan'[x].found
  BY DEF SilenceIsNoEvidence
<1>0. scan'[x].target \in Targets
  BY DEF IInv, TypeOK, Running
<1>1. CASE /\ \A t \in Targets : graph'[t].fps = graph[t].fps
           /\ Untouched(x) \/ Onwards(x) \/ Starts(x) \/ Apart(x)
  <2>1. CASE Untouched(x) \/ Onwards(x)
    <3>1. Running(x) /\ \A i \in DOMAIN scan[x].attempts : Silent(scan[x].attempts[i])
      BY <2>1 DEF Untouched, Onwards, Running
    <3>2. scan'[x].target = scan[x].target /\ scan'[x].found = scan[x].found
      BY <2>1 DEF Untouched, Onwards
    <3> QED BY <1>0, <1>1, <3>1, <3>2 DEF SilenceIsNoEvidence
  <2>2. CASE Starts(x)
    BY <1>0, <1>1, <2>2 DEF Starts
  <2> QED BY <1>1, <2>1, <2>2 DEF Apart
<1>2. ASSUME NEW r \in Scans, Advance(r) \/ Conclude(r), x # r
      PROVE  graph'[scan'[x].target].fps = scan'[x].found
  <2>1. scan'[x] = scan[x] /\ Running(x)
    BY <1>2, WritingFrame DEF Running
  <2>2. Running(r) /\ scan[r].target \in Targets
    BY <1>2, WritingFrame DEF Running
  <2>3. scan[x].target # scan[r].target
    BY <1>2, <2>1, <2>2 DEF IInv, QueueOK
  <2>4. graph'[scan[x].target] = graph[scan[x].target]
    BY <1>0, <1>2, <2>1, <2>3, WritingFrame
  <2> QED BY <2>1, <2>4 DEF SilenceIsNoEvidence
<1>3. CASE Advance(x)
  <2> DEFINE a == [slot |-> scan[x].slot, index |-> scan[x].index,
                   outcome |-> scan[x].result.outcome]
             old == scan[x].attempts
  <2>1. /\ scan[x].st = "answered" /\ scan'[x].target = scan[x].target
        /\ scan'[x].found = scan[x].found /\ scan'[x].attempts = Attempts(x)
        /\ graph'[scan[x].target] = Written(x)
    BY <1>3, WritingFrame
  <2>2. Attempts(x) = Append(old, a) /\ old \in Seq(Attempt)
    BY SpotKnown DEF Attempts, IInv, ScanState
  <2>3. /\ DOMAIN Attempts(x) = 1..(Len(old) + 1) /\ Len(old) \in Nat /\ DOMAIN old = 1..Len(old)
        /\ Attempts(x)[Len(old) + 1] = a
        /\ \A i \in DOMAIN old : Attempts(x)[i] = old[i]
    <3> HIDE DEF old, a
    <3> QED BY <2>2
  <2> HIDE DEF a, old
  <2>4. Silent(a)
    <3>1. Len(old) + 1 \in DOMAIN Attempts(x)
      BY <2>3
    <3> QED BY <2>1, <2>3, <3>1
  <2>5. \A i \in DOMAIN old : Silent(old[i])
    <3>1. \A i \in DOMAIN old : i \in DOMAIN Attempts(x)
      BY <2>3
    <3> QED BY <2>1, <2>3, <3>1
  <2>6. graph[scan[x].target].fps = scan[x].found
    BY <2>1, <2>5 DEF SilenceIsNoEvidence, Running, old
  <2>7. Written(x).fps = graph[scan[x].target].fps
    BY <2>1, <2>4, SilentWrite DEF a
  <2> QED BY <2>1, <2>6, <2>7
<1>4. ~Conclude(x)
  <2>1. Conclude(x) => scan'[x] = Idle("done", scan[x].target)
    BY WritingFrame
  <2>2. scan'[x].st \in {"calling", "hanging", "answered"}
    BY DEF Running
  <2> QED BY <2>1, <2>2 DEF Idle
<1> QED BY <1>1, <1>2, <1>3, <1>4, ScanFrame

LEMMA ExplainedStays ==
  ASSUME NEW attempts \in Seq(Attempt), NEW a \in Attempt,
         NEW slot \in 1..3, a.slot # slot, NEW exhausted, NEW more, slot \in more <=> slot \in exhausted,
         Explained(attempts, exhausted, slot)
  PROVE  Explained(Append(attempts, a), more, slot)
<1> DEFINE longer == Append(attempts, a)
           tried == {i \in DOMAIN attempts : attempts[i].slot = slot}
           settled == {i \in tried : attempts[i].outcome \in {"success", "skipped"}}
           tried2 == {i \in DOMAIN longer : longer[i].slot = slot}
           settled2 == {i \in tried2 : longer[i].outcome \in {"success", "skipped"}}
<1>1. /\ Len(attempts) \in Nat /\ DOMAIN attempts = 1..Len(attempts)
      /\ DOMAIN longer = 1..(Len(attempts) + 1) /\ Len(longer) = Len(attempts) + 1
      /\ \A i \in 1..Len(attempts) : longer[i] = attempts[i]
      /\ longer[Len(attempts) + 1] = a
  OBVIOUS
<1> HIDE DEF longer
<1>2. tried2 = tried /\ \A i \in tried : longer[i] = attempts[i]
  BY <1>1
<1>3. settled2 = settled
  BY <1>2
<1>4. PICK before \in 0..Len(attempts), n \in DOMAIN Pipeline[slot] :
        /\ tried = (before + 1)..(before + n)
        /\ \A i \in 1..n : attempts[before + i].index = i
        /\ IF slot \in exhausted
             THEN settled = {} /\ n = Len(Pipeline[slot])
             ELSE settled = {before + n}
  BY DEF Explained
<1>5. before \in 0..Len(longer) /\ before \in Nat /\ n \in 1..2
  <2>1. n \in 1..2
    BY <1>4, PipelineFacts
  <2> HIDE DEF tried, settled, tried2, settled2
  <2> QED BY <1>1, <2>1
<1> HIDE DEF tried, settled, tried2, settled2
<1>6. \A i \in 1..n : longer[before + i].index = i
  <2>1. \A i \in 1..n : before + i \in tried
    BY <1>4, <1>5
  <2> QED BY <1>2, <1>4, <2>1
<1>7. \E b \in 0..Len(longer), m \in DOMAIN Pipeline[slot] :
        /\ tried2 = (b + 1)..(b + m)
        /\ \A i \in 1..m : longer[b + i].index = i
        /\ IF slot \in more
             THEN settled2 = {} /\ m = Len(Pipeline[slot])
             ELSE settled2 = {b + m}
  BY <1>2, <1>3, <1>4, <1>5, <1>6
<1> QED BY <1>7 DEF Explained, longer, tried2, settled2

(* One more attempt, and the trail goes on from where Following leads. *)
LEMMA TrailGrows ==
  ASSUME NEW attempts \in Seq(Attempt), NEW exhausted \in SUBSET (1..3),
         NEW slot \in 1..3, NEW index \in DOMAIN Pipeline[slot], NEW outcome \in Outcomes,
         Trail(attempts, exhausted, slot, index),
         NEW next, next = Following(slot, index, outcome),
         NEW more,
         more = exhausted \cup {s \in {slot} : NeedsFallback(outcome) /\ next.slot # s}
  PROVE  Trail(Append(attempts, [slot |-> slot, index |-> index, outcome |-> outcome]),
               more, next.slot, next.index)
<1> DEFINE a == [slot |-> slot, index |-> index, outcome |-> outcome]
           longer == Append(attempts, a)
           L == Len(attempts)
           failed == outcome \notin {"success", "skipped"}
<1>0. /\ index \in 1..2 /\ DOMAIN Pipeline = 1..3
      /\ DOMAIN Pipeline[slot] = 1..Len(Pipeline[slot]) /\ Len(Pipeline[slot]) \in {1, 2}
  <2>1. /\ Pipeline[1] = <<"syn", "connect">> /\ Pipeline[2] = <<"banner", "deep">>
        /\ Pipeline[3] = <<"web">>
    BY DEF Pipeline
  <2>2. \A p \in {<<"syn", "connect">>, <<"banner", "deep">>, <<"web">>} :
          DOMAIN p = 1..Len(p) /\ Len(p) \in {1, 2}
    OBVIOUS
  <2>3. slot = 1 \/ slot = 2 \/ slot = 3
    OBVIOUS
  <2> QED BY <2>1, <2>2, <2>3, PipelineFacts
<1>1. a \in Attempt /\ a.slot = slot /\ a.index = index /\ a.outcome = outcome
  BY <1>0 DEF Attempt
<1> HIDE DEF a
<1>2. /\ L \in Nat /\ DOMAIN attempts = 1..L /\ DOMAIN longer = 1..(L + 1) /\ Len(longer) = L + 1
      /\ \A i \in 1..L : longer[i] = attempts[i]
      /\ longer[L + 1] = a
  BY <1>1
<1>a. \A i \in DOMAIN longer : longer[i].slot \in Nat
  <2>1. \A x \in Attempt : x.slot \in Nat
    BY <1>0 DEF Attempt
  <2>2. \A i \in 1..L : attempts[i] \in Attempt
    BY <1>2
  <2> HIDE DEF longer, L
  <2> QED BY <1>1, <1>2, <2>1, <2>2
<1>3. failed <=> NeedsFallback(outcome)
  BY DEF NeedsFallback, Outcomes
<1>4. PICK before \in 0..L :
        /\ L = before + (index - 1)
        /\ {i \in DOMAIN attempts : attempts[i].slot = slot} = (before + 1)..L
        /\ \A i \in 1..(index - 1) : attempts[before + i].index = i
  BY DEF Trail
<1>5. /\ \A s \in 1..(slot - 1) : Explained(attempts, exhausted, s)
      /\ \A i \in DOMAIN attempts :
           /\ attempts[i].slot <= slot
           /\ attempts[i].slot = slot => attempts[i].outcome \notin {"success", "skipped"}
      /\ exhausted \subseteq 1..(slot - 1)
  BY DEF Trail
<1>6. \A s \in 1..(slot - 1) : Explained(longer, more, s)
  <2> SUFFICES ASSUME NEW s \in 1..(slot - 1)
               PROVE  Explained(longer, more, s)
    OBVIOUS
  <2>1. s # slot /\ s \in 1..3
    OBVIOUS
  <2>2. s \in more <=> s \in exhausted
    BY <2>1
  <2>3. Explained(attempts, exhausted, s)
    BY <1>5
  <2> HIDE DEF longer
  <2> QED BY <1>1, <2>1, <2>2, <2>3, ExplainedStays DEF longer
<1>7. {i \in DOMAIN longer : longer[i].slot = slot} = (before + 1)..(L + 1)
  <2> HIDE DEF longer, L
  <2>1. ASSUME NEW i \in 1..(L + 1) PROVE longer[i].slot = slot <=> i \in (before + 1)..(L + 1)
    <3>1. CASE i = L + 1
      BY <1>1, <1>2, <1>4, <3>1
    <3>2. CASE i \in 1..L
      <4>1. longer[i] = attempts[i]
        BY <1>2, <3>2
      <4>2. attempts[i].slot = slot <=> i \in (before + 1)..L
        BY <1>2, <1>4, <3>2
      <4>3. i \in (before + 1)..L <=> i \in (before + 1)..(L + 1)
        BY <1>2, <3>2
      <4> QED BY <4>1, <4>2, <4>3
    <3> QED BY <1>2, <3>1, <3>2
  <2>2. (before + 1)..(L + 1) \subseteq 1..(L + 1)
    BY <1>2, <1>4
  <2> QED BY <1>2, <2>1, <2>2
<1>8. \A i \in 1..index : longer[before + i].index = i
  <2> HIDE DEF longer, L
  <2> SUFFICES ASSUME NEW i \in 1..index PROVE longer[before + i].index = i
    OBVIOUS
  <2>1. CASE i = index
    <3>1. before + i = L + 1
      BY <1>0, <1>2, <1>4, <2>1
    <3> QED BY <1>1, <1>2, <2>1, <3>1
  <2>2. CASE i # index
    <3>1. i \in 1..(index - 1) /\ before + i \in 1..L
      BY <1>0, <1>2, <1>4, <2>2
    <3> QED BY <1>2, <1>4, <3>1
  <2> QED BY <2>1, <2>2
<1>9. \A i \in DOMAIN longer : longer[i].slot <= slot
  <2> HIDE DEF longer, L
  <2> QED BY <1>1, <1>2, <1>5
<1>10. more \subseteq 1..slot /\ slot \notin exhausted
  <2>1. slot \notin 1..(slot - 1) /\ 1..(slot - 1) \subseteq 1..slot /\ slot \in 1..slot
    OBVIOUS
  <2>2. more \subseteq exhausted \cup {slot}
    OBVIOUS
  <2> QED BY <1>5, <2>1, <2>2
<1>11. CASE failed /\ index < Len(Pipeline[slot])
  <2>1. next.slot = slot /\ next.index = index + 1
    BY <1>3, <1>11 DEF Following
  <2>2. more = exhausted
    BY <2>1
  <2>3. \A i \in DOMAIN longer : longer[i].slot = slot => longer[i].outcome \notin {"success", "skipped"}
    <3> HIDE DEF longer, L
    <3> QED BY <1>1, <1>2, <1>5, <1>11
  <2> HIDE DEF longer, L
  <2>4. before \in 0..Len(longer) /\ Len(longer) = before + ((index + 1) - 1)
    BY <1>0, <1>2, <1>4
  <2>5. {i \in DOMAIN longer : longer[i].slot = slot} = (before + 1)..Len(longer)
    BY <1>2, <1>7
  <2>6. \A i \in 1..((index + 1) - 1) : longer[before + i].index = i
    BY <1>0, <1>8
  <2>7. Trail(longer, more, slot, index + 1)
    BY <1>5, <1>6, <1>9, <2>2, <2>3, <2>4, <2>5, <2>6 DEF Trail
  <2> QED BY <2>1, <2>7 DEF longer, a
<1>12. CASE ~(failed /\ index < Len(Pipeline[slot]))
  <2>1. next.slot = slot + 1 /\ next.index = 1
    BY <1>3, <1>12 DEF Following
  <2>2. more = IF failed THEN exhausted \cup {slot} ELSE exhausted
    BY <1>3, <2>1
  <2> DEFINE tried == {i \in DOMAIN longer : longer[i].slot = slot}
             settled == {i \in tried : longer[i].outcome \in {"success", "skipped"}}
  <2>3. settled = IF failed THEN {} ELSE {before + index}
    <3> HIDE DEF longer, L
    <3>1. before + index = L + 1
      BY <1>0, <1>2, <1>4
    <3>2. L + 1 \in tried
      BY <1>1, <1>2
    <3>3. \A i \in tried : longer[i].outcome \in {"success", "skipped"} <=> i = L + 1 /\ ~failed
      BY <1>1, <1>2, <1>5
    <3> HIDE DEF tried
    <3> QED BY <3>1, <3>2, <3>3
  <2>4. Explained(longer, more, slot)
    <3>1. before \in 0..Len(longer) /\ index \in DOMAIN Pipeline[slot]
      BY <1>0, <1>2, <1>4
    <3>2. tried = (before + 1)..(before + index)
      BY <1>0, <1>2, <1>4, <1>7
    <3>3. failed => index = Len(Pipeline[slot])
      BY <1>0, <1>12
    <3>4. slot \in more <=> failed
      BY <1>10, <2>2
    <3> HIDE DEF tried, settled, failed, longer
    <3>5. \E b \in 0..Len(longer), n \in DOMAIN Pipeline[slot] :
            /\ tried = (b + 1)..(b + n)
            /\ \A i \in 1..n : longer[b + i].index = i
            /\ IF slot \in more
                 THEN settled = {} /\ n = Len(Pipeline[slot])
                 ELSE settled = {b + n}
      BY <1>8, <2>3, <3>1, <3>2, <3>3, <3>4
    <3> QED BY <3>5 DEF Explained, tried, settled
  <2> HIDE DEF longer, L
  <2>5. \A s \in 1..((slot + 1) - 1) : Explained(longer, more, s)
    BY <1>6, <2>4
  <2>6. {i \in DOMAIN longer : longer[i].slot = slot + 1} = {}
    <3>1. \A i \in DOMAIN longer : longer[i].slot # slot + 1
      BY <1>a, <1>9
    <3> QED BY <3>1
  <2>7. \E b \in 0..Len(longer) :
          /\ Len(longer) = b + (1 - 1)
          /\ {i \in DOMAIN longer : longer[i].slot = slot + 1} = (b + 1)..Len(longer)
          /\ \A i \in 1..(1 - 1) : longer[b + i].index = i
    <3>1. Len(longer) \in 0..Len(longer) /\ Len(longer) = Len(longer) + (1 - 1)
      BY <1>2
    <3>2. (Len(longer) + 1)..Len(longer) = {}
      BY <1>2
    <3>3. 1..(1 - 1) = {}
      OBVIOUS
    <3> QED BY <2>6, <3>1, <3>2, <3>3
  <2>8. \A i \in DOMAIN longer :
          /\ longer[i].slot <= slot + 1
          /\ longer[i].slot = slot + 1 => longer[i].outcome \notin {"success", "skipped"}
    <3> QED BY <1>a, <1>9, <2>6
  <2>9. more \subseteq 1..((slot + 1) - 1)
    BY <1>10
  <2>10. Trail(longer, more, slot + 1, 1)
    BY <2>5, <2>7, <2>8, <2>9 DEF Trail
  <2> QED BY <2>1, <2>10 DEF longer, a
<1> QED BY <1>11, <1>12

LEMMA EmptyTrail == Trail(<<>>, {}, 1, 1)
<1>1. /\ DOMAIN <<>> = {} /\ Len(<<>>) = 0 /\ 0 \in 0..0 /\ 0 = 0 + (1 - 1)
      /\ 1..(1 - 1) = {} /\ (0 + 1)..0 = {}
  OBVIOUS
<1> QED BY <1>1 DEF Trail

(* The trail of a scan whose result the engine has just picked up. *)
LEMMA TrailOnward ==
  ASSUME IInv, Trails, NEW r \in Scans, scan[r].st = "answered"
  PROVE  Trail(Attempts(r), Exhausted(r), Onward(r).slot, Onward(r).index)
<1> DEFINE s == scan[r]
           outcome == s.result.outcome
           next == Following(s.slot, s.index, outcome)
           more == s.exhausted \cup
                     {x \in {s.slot} : NeedsFallback(outcome) /\ next.slot # x}
<1>1. /\ s \in ScanState /\ s.slot \in 1..3 /\ s.index \in DOMAIN Pipeline[s.slot]
      /\ outcome \in Outcomes
  BY SpotKnown, WrittenOK DEF IInv, StageResults
<1>2. s.attempts \in Seq(Attempt) /\ s.exhausted \in SUBSET (1..3)
  BY <1>1, PipelineFacts DEF ScanState
<1>3. Trail(s.attempts, s.exhausted, s.slot, s.index)
  BY DEF Trails
<1>4. Onward(r) = next /\ Exhausted(r) = more
  BY DEF Onward, Exhausted
<1>5. Attempts(r) = Append(s.attempts, [slot |-> s.slot, index |-> s.index, outcome |-> outcome])
  BY DEF Attempts
<1> HIDE DEF s, outcome
<1>6. Trail(Append(s.attempts, [slot |-> s.slot, index |-> s.index, outcome |-> outcome]),
            more, next.slot, next.index)
  <2> HIDE DEF next
  <2>1. next = Following(s.slot, s.index, outcome)
    BY DEF next
  <2> QED BY <1>1, <1>2, <1>3, <2>1, TrailGrows
<1> QED BY <1>4, <1>5, <1>6

LEMMA TrailsStep ==
  ASSUME IInv, Trails, [Next]_vars
  PROVE  Trails'
<1>1. CASE \A x \in Scans : Untouched(x) \/ Onwards(x) \/ Starts(x) \/ Apart(x)
  <2> SUFFICES ASSUME NEW x \in Scans
               PROVE  Trail(scan'[x].attempts, scan'[x].exhausted, scan'[x].slot, scan'[x].index)
    BY DEF Trails
  <2>1. \/ /\ scan'[x].attempts = scan[x].attempts /\ scan'[x].exhausted = scan[x].exhausted
           /\ scan'[x].slot = scan[x].slot /\ scan'[x].index = scan[x].index
        \/ /\ scan'[x].attempts = <<>> /\ scan'[x].exhausted = {}
           /\ scan'[x].slot = 1 /\ scan'[x].index = 1
    BY <1>1 DEF Untouched, Onwards, Starts, Apart
  <2> QED BY <2>1, EmptyTrail DEF Trails
<1>2. ASSUME NEW r \in Scans, Advance(r) \/ Conclude(r)
      PROVE  Trails'
  <2>1. \A x \in Scans : x # r => scan'[x] = scan[x]
    BY <1>2, WritingFrame
  <2>2. Trail(scan'[r].attempts, scan'[r].exhausted, scan'[r].slot, scan'[r].index)
    <3>1. CASE Advance(r)
      BY <3>1, WritingFrame, TrailOnward
    <3>2. CASE Conclude(r)
      <4>1. scan'[r] = Idle("done", scan[r].target)
        BY <3>2, WritingFrame
      <4>2. /\ scan'[r].attempts = <<>> /\ scan'[r].exhausted = {}
            /\ scan'[r].slot = 1 /\ scan'[r].index = 1
        BY <4>1 DEF Idle
      <4> QED BY <4>2, EmptyTrail
    <3> QED BY <1>2, <3>1, <3>2
  <2> QED BY <2>1, <2>2 DEF Trails
<1> QED BY <1>1, <1>2, ScanFrame

LEMMA ReportsStep ==
  ASSUME IInv, Trails, AttemptsExplainReport, [Next]_vars
  PROVE  AttemptsExplainReport'
<1>1. CASE UNCHANGED reports
  BY <1>1 DEF AttemptsExplainReport
<1>2. ASSUME NEW r \in Scans, Conclude(r)
      PROVE  AttemptsExplainReport'
  <2> DEFINE t == scan[r].target
  <2>1. /\ scan[r].st = "answered" /\ t \in Targets
        /\ Onward(r).slot \notin DOMAIN Pipeline
        /\ reports'[t].attempts = Attempts(r) /\ reports'[t].exhausted = Exhausted(r)
        /\ \A u \in Targets : u # t => reports'[u] = reports[u]
    BY <1>2, WritingFrame
  <2>2. Trail(Attempts(r), Exhausted(r), Onward(r).slot, Onward(r).index)
    BY <2>1, TrailOnward
  <2>3. Onward(r).slot = 4
    <3>1. scan[r].slot \in 1..3
      BY SpotKnown DEF IInv
    <3>2. Onward(r).slot \in {scan[r].slot, scan[r].slot + 1}
      BY DEF Onward, Following
    <3> QED BY <2>1, <3>1, <3>2, PipelineFacts
  <2>4. \A slot \in DOMAIN Pipeline : Explained(Attempts(r), Exhausted(r), slot)
    BY <2>2, <2>3, PipelineFacts DEF Trail
  <2> QED BY <2>1, <2>4 DEF AttemptsExplainReport
<1> QED BY <1>1, <1>2, ScanFrame, WritingFrame

LEMMA LedgerStep ==
  ASSUME IInv, LedgerIsRecorded, [Next]_vars
  PROVE  LedgerIsRecorded'
<1>1. ASSUME UNCHANGED reports, \A t \in Targets : graph'[t].leads = graph[t].leads
      PROVE  LedgerIsRecorded'
  BY <1>1 DEF LedgerIsRecorded
<1>2. ASSUME NEW r \in Scans, Advance(r)
      PROVE  LedgerIsRecorded'
  <2>1. Written(r).leads = graph[scan[r].target].leads
    BY <1>2, WritingFrame, LeadsKept
  <2>2. \A t \in Targets : graph'[t].leads = graph[t].leads
    BY <1>2, <2>1, WritingFrame
  <2> QED BY <1>1, <1>2, <2>2, WritingFrame
<1>3. ASSUME NEW r \in Scans, Conclude(r)
      PROVE  LedgerIsRecorded'
  <2> DEFINE u == scan[r].target
  <2>1. /\ scan[r].st = "answered" /\ u \in Targets
        /\ graph'[u] = Correlated(Written(r))
        /\ reports'[u].done /\ reports'[u].ledger = Ledger(Written(r))
        /\ \A t \in Targets : t # u => graph'[t] = graph[t] /\ reports'[t] = reports[t]
    BY <1>3, WritingFrame
  <2>2. Written(r) \in Host
    BY <2>1, WrittenOK DEF SoundHost
  <2>3. \A row \in reports'[u].ledger :
          \E l \in graph'[u].leads : l.port = row.port /\ l.version = row.version
    BY <2>1, <2>2, LeadsOfLedger
  <2> QED BY <2>1, <2>3 DEF LedgerIsRecorded
<1> QED BY <1>1, <1>2, <1>3, ScanFrame

(* NO_DATA and SKIPPED, after any sequence of scans, timeouts and queued     *)
(* requests: a scan that met nothing else leaves every fingerprint alone.    *)
THEOREM SilenceIsNoEvidenceAlways == Spec => []SilenceIsNoEvidence
<1> DEFINE All == IInv /\ QuietResults /\ SilenceIsNoEvidence
<1>1. Init => All
  <2> SUFFICES ASSUME Init PROVE QuietResults /\ SilenceIsNoEvidence
    BY InitInv
  <2>1. \A r \in Scans : scan[r].st = "new"
    BY IdleType DEF Init, NoScan
  <2> QED BY <2>1 DEF QuietResults, SilenceIsNoEvidence, Running
<1>2. All /\ [Next]_vars => All'
  BY Inductive, QuietStep, SilenceStep
<1> QED BY <1>1, <1>2, PTL DEF Spec

(* Whatever failed, hung or was skipped: a report says of every slot which   *)
(* techniques were tried, in order, and calls it exhausted exactly when none *)
(* of them settled it and none was left.                                     *)
THEOREM AttemptsExplainReportAlways == Spec => []AttemptsExplainReport
<1> DEFINE All == IInv /\ Trails /\ AttemptsExplainReport
<1>1. Init => All
  <2> SUFFICES ASSUME Init PROVE Trails /\ AttemptsExplainReport
    BY InitInv
  <2>1. \A r \in Scans : /\ scan[r].attempts = <<>> /\ scan[r].exhausted = {}
                         /\ scan[r].slot = 1 /\ scan[r].index = 1
    BY DEF Init, NoScan, Idle
  <2>2. Trails
    BY <2>1, EmptyTrail DEF Trails
  <2>3. \A t \in Targets : ~reports[t].done
    BY DEF Init, NoReport
  <2> QED BY <2>2, <2>3 DEF AttemptsExplainReport
<1>2. All /\ [Next]_vars => All'
  BY Inductive, TrailsStep, ReportsStep
<1> QED BY <1>1, <1>2, PTL DEF Spec

(* Whatever is scanned again, contested or forgotten by its log: what the    *)
(* last report of a target shows is in the graph, and the leads of a target  *)
(* nobody has reported on are none.                                          *)
THEOREM LedgerIsRecordedAlways == Spec => []LedgerIsRecorded
<1>1. Init => LedgerIsRecorded
  BY DEF Init, LedgerIsRecorded, NoReport, EmptyHost
<1>2. IInv /\ LedgerIsRecorded /\ [Next]_vars => LedgerIsRecorded'
  BY LedgerStep
<1> QED BY <1>1, <1>2, InitInv, Inductive, PTL DEF Spec
=============================================================================
