------------------------------ MODULE MCTelemetry ------------------------------
(* Two scans, of two targets, evidence of two principals, one of whom is      *)
(* called what the overflow series is, and a request no route matches.        *)
EXTENDS Telemetry

MCCall ==
  [r \in Requests |->
     IF r \in {1, 2}
     THEN [template |-> "/api/targets/{address}/scan", path |-> "/p", method |-> "POST",
           principal |-> "ann", target |-> IF r = 1 THEN "h1" ELSE "h2"]
     ELSE IF r \in {3, 4}
     THEN [template |-> "/api/evidence", path |-> "/p", method |-> "POST",
           principal |-> IF r = 3 THEN "ann" ELSE "other", target |-> "h1"]
     ELSE [template |-> "", path |-> "/x", method |-> "GET",
           principal |-> "ann", target |-> "h1"]]

MCClean == [v \in {"ann", "other"} |-> IF v = "other" THEN Other ELSE v]

MCBounds == <<1>>
===============================================================================
