------------------------------- MODULE MCFetch -------------------------------
(* Full and incremental runs, resumed or from the top, and an explicit       *)
(* --since that may lie in the future.                                       *)
EXTENDS Fetch

MCRequests ==
  [since : {"none", "auto"}, at : {Never}, resume : BOOLEAN]
    \cup {[since |-> "given", at |-> 2, resume |-> TRUE]}

(* No explicit --since. *)
MCRefreshes == {req \in MCRequests : req.since # "given"}
=============================================================================
