------------------------------ MODULE MCEngine ------------------------------
(* A target with a web and an ssh port, two scans, and two submitters.       *)
EXTENDS Engine, TLC

CONSTANTS box, web, ssh, v1, v2, p, q, s1, s2

MCTargets == {box}
MCPorts == {web, ssh}
MCWebPorts == {web}
MCVersions == {v1, v2}
MCAffected == {web} \X {v1, v2}
MCPrincipals == {p, q}
MCScans == {s1, s2}

Open(kind, ports, by) == [data |-> [kind |-> kind, ports |-> ports], by |-> by]
Saw(kind, report, by) == [data |-> [kind |-> kind, report |-> report], by |-> by]
Clear(v) == [version |-> v, ambiguous |-> FALSE]
Vaguely(v) == [version |-> v, ambiguous |-> TRUE]

(* What each tool has: those left out have nothing. *)
Stage(given) ==
  [k \in Tools \X MCTargets |-> IF k[1] \in DOMAIN given THEN given[k[1]] ELSE NoEvidence]

MCStaged ==
  { (* nothing yet: the target has to be created *)
    Stage([tool \in {} |-> NoEvidence]),
    (* a clean banner, a web layer that disagrees *)
    Stage([syn |-> Open("seen", MCPorts, p), banner |-> Saw("seen", web :> Clear(v1), p),
           web |-> Saw("seen", web :> Clear(v2), q)]),
    (* a banner that is vague about one port, a deep probe that is not *)
    Stage([syn |-> Open("seen", {web}, p),
           banner |-> Saw("seen", (web :> Vaguely(v1)) @@ (ssh :> Clear(v2)), p),
           deep |-> Saw("seen", web :> Clear(v1), p)]),
    (* techniques that fail or hang, and fallbacks that do not or do *)
    Stage([syn |-> [data |-> Broken, by |-> p], connect |-> Open("adapter", {web}, p),
           banner |-> Saw("adapter", web :> Clear(v1), p),
           deep |-> Saw("seen", (web :> Clear(Unresolved)), q),
           web |-> Saw("adapter", web :> Vaguely(v2), q)]) }

MCOffers ==
  { [tool |-> "syn", data |-> [kind |-> "seen", ports |-> {ssh, web}]],
    [tool |-> "banner", data |-> [kind |-> "seen", report |-> web :> Clear(v1)]],
    [tool |-> "deep", data |-> Broken],
    [tool |-> "banner", data |-> Nothing],
    [tool |-> "web", data |-> [kind |-> "seen", report |-> web :> Clear(v1)]] }
=============================================================================
