------------------------------ MODULE MCMatching ------------------------------
(* Four vulnerabilities of two products, and the versions around their bounds. *)
EXTENDS Matching

V(a, b) == <<<<1, a>>, <<1, b>>>>
V2rc == <<<<1, 2>>, <<1, 4>>, <<0, 3>>, <<1, 1>>>>    (* 2.4rc1 *)
V240 == <<<<1, 2>>, <<1, 4>>, <<1, 0>>>>
V2449 == <<<<1, 2>>, <<1, 4>>, <<1, 49>>>>
Word == <<<<0, 7>>>>                                  (* "unknown" *)

MCRank ==
  Word :> 0 @@ V(1, 9) :> 1 @@ V2rc :> 2 @@ V(2, 4) :> 3 @@ V240 :> 3 @@ V2449 :> 4
    @@ V(2, 10) :> 5 @@ V(10, 0) :> 6

Stmt(vendor, product, version, vsi, vse, vei, vee) ==
  [part |-> "a", vendor |-> vendor, product |-> product, version |-> version,
   vsi |-> vsi, vse |-> vse, vei |-> vei, vee |-> vee, vulnerable |-> TRUE]
N == NoVersion
Httpd(version, vsi, vse, vei, vee) == Stmt("apache", "http_server", version, vsi, vse, vei, vee)

Matches(s) == [negate |-> FALSE, parses |-> TRUE, statement |-> s]
Rec(c, cvss, matches) == [cve |-> c, usable |-> TRUE, cvss |-> cvss, matches |-> matches]

(* 1 is fixed in 2.4.49, and later found to be fixed in 2.4 already; 2 is in   *)
(* 2.4.0 alone and up to 1.9; 3 in all of a vendor's products above 2.4rc1 up  *)
(* to 10.0; 4 awaits its analysis, and then is in every version there is.      *)
R1 == Rec(1, 98, <<Matches(Httpd(N, V(2, 4), N, N, V2449))>>)
R1b == Rec(1, 98, <<Matches(Httpd(N, N, N, N, V(2, 4)))>>)
R2 == Rec(2, 75, <<Matches(Httpd(N, N, N, V(1, 9), N)), Matches(Httpd(V240, N, N, N, N)),
                   [Matches(Httpd(N, N, N, N, N)) EXCEPT !.negate = TRUE]>>)
R3 == Rec(3, 60, <<Matches(Stmt("apache", "*", N, N, V2rc, V(10, 0), N)),
                   [Matches(Httpd(N, N, N, N, N)) EXCEPT !.parses = FALSE],
                   Matches([Httpd(N, N, N, N, N) EXCEPT !.vulnerable = FALSE])>>)
R4 == Rec(4, 100, <<>>)
R4b == Rec(4, 100, <<Matches(Stmt("*", "http_server", N, N, N, N, N)),
                     Matches(Httpd(N, V(1, 9), N, V(2, 4), N))>>)

MCFiles ==
  {<<R1, R2>>, <<R1b, R2, R1>>, <<[R1 EXCEPT !.usable = FALSE], R3, R4>>, <<R4b, R1b>>,
   <<R2, R3, R4b>>}

Cpe(product, version) == [part |-> "a", vendor |-> "apache", product |-> product, version |-> version]
NoCpe == [part |-> "", vendor |-> "*", product |-> "*", version |-> N]
Fp(cpe, product, version) ==
  [cpe |-> cpe, product |-> product, version |-> version, confidence |-> 90, principals |-> 1,
   marked |-> FALSE]

MCFingerprints ==
  {Fp(Cpe("http_server", v), "apache httpd", v) : v \in {V2rc, V(2, 4), V2449, V(2, 10), V(10, 0), V(1, 9)}}
    \cup {Fp(Cpe("http_server", Word), "apache httpd", Word),
          Fp(Cpe("http_server", N), "apache httpd", V(2, 4)),
          Fp(NoCpe, "apache httpd", V(2, 4)),
          Fp(NoCpe, "apache httpd", N),
          [Fp(Cpe("traffic_server", V2449), "", V2449) EXCEPT !.marked = TRUE, !.principals = 3],
          [Fp(Cpe("http_server", V240), "apache httpd", V240) EXCEPT !.principals = 3],
          [Fp(Cpe("http_server", V240), "apache httpd", V240) EXCEPT !.confidence = 40],
          [Fp(Cpe("http_server", V(1, 9)), "apache httpd", V(1, 9)) EXCEPT !.principals = 3]}

MCAliasOf == [p \in {"http_server", "traffic_server"} |->
                IF p = "http_server" THEN "http server" ELSE "traffic server"]
MCNaming == [n \in {"http server", "traffic server", "apache"} |->
               IF n = "apache" THEN {"apache httpd"} ELSE {}]
MCKnown == [p \in {"apache httpd"} |-> [vendor |-> "apache", product |-> "http_server"]]

Ref(c, cvss, maturity, constraints) ==
  [cve |-> c, cvss |-> cvss, maturity |-> maturity, product |-> "apache", constraints |-> constraints,
   statements |-> <<>>, requires_version |-> TRUE]
MCReference ==
  <<Ref(1, 98, 100, <<<<">=", V2449>>, <<"<=", V2449>>>>), Ref(2, 78, 70, <<<<">", V(1, 9)>>, <<"<=", V2449>>>>),
    Ref(3, 100, 100, <<<<"<", V(10, 0)>>>>)>>

MCExploited == {2}
MCLikelihood == [c \in {2, 3} |-> IF c = 2 THEN 10 ELSE 40]

(* Metasploit has a module for 1 and for 2. *)
MCIndexed == [c \in {1, 2} |-> 100]

(* For NeverTooStrict: a leading number of ten digits, and a bound one below   *)
(* it, in place of the constants above.                                        *)
Long == V(1000000000, 0)
Bound9 == V(999999999, 0)
LongRank == Bound9 :> 0 @@ Long :> 1
LongFiles == {<<Rec(1, 98, <<Matches(Httpd(N, Bound9, N, N, N))>>), R4>>, <<R4>>}
LongFingerprints == {Fp(Cpe("http_server", Long), "apache httpd", Long)}
LongReference == <<Ref(1, 98, 100, <<<<">=", Bound9>>>>)>>
===============================================================================
