------------------------------- MODULE MCTooling -------------------------------
(* An instance of Tooling: four exploits for two CVEs in three versions of    *)
(* the index, one of them cut by a line that is too long; three versions of   *)
(* script.db, with a script filed twice, unreadable and unknown categories.   *)
EXTENDS Tooling

MCExploitIds == <<"e1", "e2", "e3", "e4">>

Row(id, verified, published, cves) ==
  [kind |-> "row", id |-> id, verified |-> verified, published |-> published, cves |-> cves]
Line(kind) == [kind |-> kind, id |-> "none", verified |-> FALSE, published |-> 0, cves |-> {}]

MCCSVs ==
  {<<Row("e1", TRUE, 1, {"c1"}), Row("e2", FALSE, 3, {"c1", "c2"}), Line("bad"),
     Row("e3", FALSE, 2, {"c1"}), Row("e4", FALSE, 0, {"c1"})>>,
   <<Row("e2", FALSE, 3, {"c2"}), Row("e1", FALSE, 1, {"c2"}), Row("e1", TRUE, 1, {"c1"})>>,
   <<Row("e3", TRUE, 2, {"c1", "c2"}), Row("e2", TRUE, 2, {"c1"}), Row("e4", FALSE, 4, {"c1"}),
     Line("long"), Row("e1", FALSE, 1, {})>>}

Entry(name, categories) == [parses |-> TRUE, name |-> name, categories |-> categories]
Unparsed == [parses |-> FALSE, name |-> "", categories |-> {}]

MCScriptNames == <<"cve-c1", "exploit", "http-a", "http-b", "http-c", "vuln">>
MCScriptDBs ==
  {<<Entry("http-a", {"safe", "discovery"}), Unparsed, Entry("cve-c1", {"exploit", "intrusive", "vuln"}),
     Entry("http-b", {"safe", "?"}), Entry("http-c", {"default"})>>,
   <<Entry("http-a", {"safe"}), Entry("http-a", {"dos", "safe"}), Entry("exploit", {"safe"}),
     Entry("vuln", {"safe"}), Entry("http-b", {}), Entry("http-c", {"version", "new"})>>,
   <<Unparsed, Unparsed, Unparsed, Entry("http-a", {"safe"})>>,
   <<Entry("http-c", {"version"}), Entry("cve-c1", {"external", "safe"}), Entry("http-b", {"intrusive"})>>}

Module(name, path, kind) == [module |-> name, path |-> path, kind |-> kind, cves |-> {"c1"}]
MCModuleFiles ==
  {{Module("m1", TRUE, "exploit"), Module("m2", FALSE, "exploit")}, {Module("m3", TRUE, "payload")}}

MCLeads == {[cve |-> "c1", service |-> "http", web |-> TRUE, tls |-> FALSE],
            [cve |-> "c2", service |-> "https", web |-> TRUE, tls |-> TRUE],
            [cve |-> "c2", service |-> "odd", web |-> FALSE, tls |-> FALSE]}
MCSelections == {{"safe", "version", "vuln"}, {"intrusive", "unclassified"}, Category}

MCServicePrefixes == [http |-> {"http"}, https |-> {"http", "ssl"}, odd |-> {"exploit", "vuln"}]
MCFamily == [http |-> {"http-a", "http-b", "http-c"}, ssl |-> {}, exploit |-> {"exploit"}, vuln |-> {"vuln"}]
MCNamed == [c1 |-> {"cve-c1"}, c2 |-> {}]

===============================================================================
