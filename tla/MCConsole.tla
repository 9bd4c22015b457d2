------------------------------ MODULE MCConsole ------------------------------
(* An instance of Console: four of the built-in modules, with and without the *)
(* one for web servers, and a plugin that takes a built-in name and requires  *)
(* an option of its own; two hosts, one of which the importer knows and the   *)
(* other only the operator, in two workspaces and three states.               *)
EXTENDS Console

MCNames == <<"other/extra", "recon/discovery/connect_sweep", "recon/fingerprint/banner_probe",
             "recon/fingerprint/deep_probe", "recon/http/app_fingerprint">>

Option(required, legal) == [required |-> required, default |-> <<>>, legal |-> legal]
RHost == Option(TRUE, {"h1", "h2"})
Class(fullname, by, category, rank, options) ==
  [fullname |-> fullname, by |-> by, category |-> category, rank |-> rank,
   terms |-> {category, by}, options |-> options]
Builtin(fullname, rank) == Class(fullname, "reconkg", "recon", rank, [RHOST |-> RHost])

MCBuiltins == {Builtin(MCNames[2], 4), Builtin(MCNames[3], 2), Builtin(MCNames[4], 3), Builtin(MCNames[5], 3)}
MCRegistries == {MCBuiltins, {c \in MCBuiltins : c.fullname # MCNames[5]}}

Demanding == [RHOST |-> RHost, TOKEN |-> Option(TRUE, {"x"})]
MCPluginFiles ==
  {<<Class(MCNames[3], "plugin", "recon", 5, Demanding), Class(MCNames[1], "plugin", "other", 1, [RHOST |-> RHost])>>,
   <<>>}

Fp(key, version, credible, principals, tools, leads) ==
  [key |-> key, product |-> "p", version |-> version, credible |-> credible,
   principals |-> principals, tools |-> tools, leads |-> leads]
Lead(cve, priority) == [cve |-> cve, priority |-> priority]
Port(port, state, service, web, fps) ==
  [port |-> port, state |-> state, service |-> service, web |-> web, fingerprints |-> fps]

MCViews ==
  {<<Port(1, "filtered", FALSE, FALSE, {}), Port(2, "open", FALSE, FALSE, {}),
     Port(3, "open", TRUE, FALSE, {}), Port(4, "closed", FALSE, FALSE, {})>>,
   <<Port(2, "open", TRUE, TRUE,
       {Fp(1, "v1", TRUE, {"a"}, {"nmap"}, {Lead("c1", 3)}),
        Fp(2, "v2", TRUE, {"a", "b"}, {"nmap"}, {Lead("c1", 2), Lead("c2", 4)})})>>,
   <<Port(2, "open", TRUE, FALSE,
       {Fp(1, "v1", TRUE, {"system"}, {"nmap"}, {Lead("c1", 5)}), Fp(3, "", TRUE, {"a"}, {}, {})}),
     Port(3, "open", TRUE, TRUE,
       {Fp(4, "v1", FALSE, {"a"}, {"whatweb"}, {}), Fp(5, "v3", TRUE, {"a", "b"}, {"whatweb"}, {Lead("c3", 5), Lead("c4", 6)})})>>}

MCQueries == {[category |-> "", rank |-> 0, terms |-> {}],
              [category |-> "recon", rank |-> 3, terms |-> {"reconkg"}]}

===============================================================================
