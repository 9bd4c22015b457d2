------------------------------- MODULE Tooling -------------------------------
(***************************************************************************)
(* What the hand-off of a lead names and composes: the index of exploits   *)
(* (reconkg/exploitdb.py, built by builddb.py), the index of nmap scripts  *)
(* (scriptdb.py), the Metasploit part of the catalogue (catalog.py), the   *)
(* choice of resolvers at the start (resolver.py), the classification of   *)
(* commands (commands.py) and their collection for a lead (handoff.py).    *)
(*                                                                         *)
(* The index of exploits is a file that a build rewrites in batches while  *)
(* a session reads it. The index of scripts is made in memory, from the    *)
(* script.db that nmap keeps, when the session starts. A hand-off only     *)
(* reads, so it is an operator of the state and no step.                   *)
(***************************************************************************)
EXTENDS Integers, Sequences, FiniteSets, SequencesExt

CONSTANTS
  ExploitIds,   (* ExploitDB identifiers, in the order of their text          *)
  CSVs,         (* what files_exploits.csv may hold: sequences of lines       *)
  ScriptNames,  (* the scripts there may be, in alphabetical order            *)
  ScriptDBs,    (* what script.db may hold: sequences of lines                *)
  ModuleFiles,  (* what a Metasploit index may hold: sets of modules          *)
  Leads,        (* rows of a ledger: [cve, service, web, tls]                 *)
  Selections,   (* sets of categories the operator may ask for                *)
  ServicePrefixes, (* service_prefixes(): service -> families of scripts      *)
  Family,       (* family -> the scripts that are named for it                *)
  Named,        (* cve -> the scripts that are named for it                   *)
  BatchSize,    (* of an ingest of exploits                                   *)
  ExploitLimit, (* of DbExploitResolver                                       *)
  ScriptLimit,  (* of DbScriptResolver                                        *)
  MaxExploitCommands, MaxScriptCommands,
  SniffLines    (* SNIFF_LINES                                                *)

(* A line of files_exploits.csv is a row that can be used, a row that is      *)
(* skipped, or one so long that the rest is refused. A line of script.db      *)
(* parses or not; a token of its categories is readable, or "?".              *)
CSVLine == [kind : {"row", "bad", "long"}, id : STRING, verified : BOOLEAN, published : Nat,
            cves : SUBSET STRING]
ScriptLine == [parses : BOOLEAN, name : STRING, categories : SUBSET STRING]

ASSUME ToolingAssumption ==
  /\ {BatchSize, ExploitLimit, ScriptLimit, MaxExploitCommands, MaxScriptCommands, SniffLines}
       \subseteq Nat \ {0}
  /\ ExploitIds \in Seq(STRING)
  /\ \A lines \in CSVs :
       /\ lines \in Seq(CSVLine)
       /\ \A i \in DOMAIN lines : lines[i].kind = "row" => lines[i].id \in Range(ExploitIds)
  /\ \A lines \in ScriptDBs : lines \in Seq(ScriptLine)

(* NSE's categories, and reconkg's own for what does not say.                 *)
Category == {"auth", "broadcast", "brute", "default", "discovery", "dos", "exploit", "external",
             "fuzzer", "intrusive", "malware", "safe", "version", "vuln", "unclassified"}
DefaultCategories == {"safe", "discovery", "version"}
NeverComposed == {"exploit", "dos", "fuzzer", "brute"}

VARIABLES
  configured,   (* which of the two indexes the environment names             *)
  csv,          (* files_exploits.csv, <<>> before the first fetch            *)
  building,
  left,         (* the lines a running build has still to read                *)
  created,      (* the database of exploits exists                            *)
  exploit,      (* its table exploit: id -> its columns, or Absent            *)
  exploit_cve,  (* its table exploit_cve: pairs of an id and a CVE            *)
  script_db,    (* nmap's script.db, <<>> while there is none                 *)
  session,      (* "down", "up" or "refused"                                  *)
  read,         (* the script.db that the session has parsed                  *)
  catalog,      (* the modules that the session has loaded                    *)
  told          (* no state of the program: the line last ingested for an id, *)
                (* as a sequence of at most one                               *)

vars == <<configured, csv, building, left, created, exploit, exploit_cve, script_db, session,
          read, catalog, told>>
indexVars == <<created, exploit, exploit_cve, told>>
sessionVars == <<session, read, catalog>>

Absent == [in |-> FALSE, verified |-> FALSE, published |-> 0]

Init ==
  /\ configured \in SUBSET {"exploits", "scripts"}
  /\ csv = <<>> /\ building = FALSE /\ left = <<>>
  /\ created = FALSE
  /\ exploit = [e \in Range(ExploitIds) |-> Absent]
  /\ exploit_cve = {}
  /\ told = [e \in Range(ExploitIds) |-> <<>>]
  /\ script_db = <<>>
  /\ session = "down" /\ read = <<>> /\ catalog = {}

-------------------------------------------------------------------------------
(* The index of exploits.                                                     *)

(* Those of the first n lines that are rows. *)
Rows(n) == {i \in 1..n : left[i].kind = "row"}

(* The number of lines the next batch is made of. *)
Taken ==
  LET full == {n \in DOMAIN left : Cardinality(Rows(n)) = BatchSize}
  IN IF full = {} THEN Len(left) ELSE Min(full)

(* Of several rows for an id in a batch the last one is written. *)
Survivors(batch) ==
  {left[i] : i \in {k \in batch : \A j \in batch : j > k => left[j].id # left[k].id}}

(* Mutant: the links that the ids in a batch had before stay. *)
Linked_Kept(rows) == exploit_cve \cup UNION {{<<r.id, c>> : c \in r.cves} : r \in rows}

(* The links of the ids in a batch are deleted before its own are inserted.   *)
Linked(rows) ==
  {l \in exploit_cve : \A r \in rows : r.id # l[1]}
    \cup UNION {{<<r.id, c>> : c \in r.cves} : r \in rows}

(* _write_batch(), which is one transaction. *)
WriteBatch ==
  /\ building /\ left # <<>>
  /\ \A i \in 1..Taken : left[i].kind # "long"
  /\ LET batch == Rows(Taken)
         Of(e) == {r \in Survivors(batch) : r.id = e}
         Lines(e) == {i \in batch : left[i].id = e}
     IN /\ exploit' = [e \in DOMAIN exploit |->
                         IF Of(e) = {} THEN exploit[e]
                         ELSE LET r == CHOOSE r \in Of(e) : TRUE
                              IN [in |-> TRUE, verified |-> r.verified, published |-> r.published]]
        /\ exploit_cve' = Linked(Survivors(batch))
        /\ told' = [e \in DOMAIN told |->
                      IF Lines(e) = {} THEN told[e] ELSE <<left[Max(Lines(e))]>>]
  /\ left' = SubSeq(left, Taken + 1, Len(left))
  /\ UNCHANGED <<configured, csv, building, created, script_db, sessionVars>>

(* A fetch replaces the file; a build that is running goes on with the old one.*)
Fetch ==
  /\ csv' \in CSVs
  /\ UNCHANGED <<configured, building, left, indexVars, script_db, sessionVars>>

(* build_exploits(), which opens the database before it reads. *)
Build ==
  /\ ~building /\ csv # <<>>
  /\ building' = TRUE
  /\ left' = csv
  /\ created' = TRUE
  /\ UNCHANGED <<configured, csv, exploit, exploit_cve, told, script_db, sessionVars>>

(* The build has read the file, has come to a line that is too long, with     *)
(* what it had not written yet, or is killed.                                 *)
BuildEnds ==
  /\ building
  /\ building' = FALSE
  /\ left' = <<>>
  /\ UNCHANGED <<configured, csv, indexVars, script_db, sessionVars>>

-------------------------------------------------------------------------------
(* The index of scripts.                                                      *)

ScriptUpdate ==
  /\ script_db' \in ScriptDBs
  /\ UNCHANGED <<configured, csv, building, left, indexVars, sessionVars>>

(* read_script_db(): a file without an entry, or without one among its first  *)
(* lines, is not taken for a script.db.                                       *)
IsScriptDB(lines) ==
  /\ \E i \in DOMAIN lines : lines[i].parses
  /\ Len(lines) >= SniffLines => \E i \in 1..SniffLines : lines[i].parses

(* parse_entry(): what is unreadable, or not said, is unclassified. *)
Tokens(line) ==
  LET readable == {IF t = "?" THEN "unclassified" ELSE t : t \in line.categories}
  IN IF readable = {} THEN {"unclassified"} ELSE readable

(* Mutant: of two lines for a script the first one stays. *)
Declared_First(name) ==
  LET i == SelectInSeq(read, LAMBDA l : l.parses /\ l.name = name)
  IN IF i = 0 THEN {} ELSE Tokens(read[i])

(* The rows of script_category for a script. Its line replaces those that an  *)
(* earlier line left, of the same batch or not.                               *)
Declared(name) ==
  LET i == SelectLastInSeq(read, LAMBDA l : l.parses /\ l.name = name)
  IN IF i = 0 THEN {} ELSE Tokens(read[i])

(* The table script, whose every row has categories. *)
Indexed == {s \in Range(ScriptNames) : Declared(s) # {}}

-------------------------------------------------------------------------------
(* A session of the console or the server.                                    *)

(* exploits_from_env() and scripts_from_env(): an index that is named must be *)
(* there, and a script.db must be one.                                        *)
ExploitsRefused == "exploits" \in configured /\ ~created
ScriptsRefused == "scripts" \in configured /\ ~IsScriptDB(script_db)

Start ==
  /\ session = "down"
  /\ session' = IF ExploitsRefused \/ ScriptsRefused THEN "refused" ELSE "up"
  /\ read' = IF session' = "up" /\ "scripts" \in configured THEN script_db ELSE <<>>
  /\ UNCHANGED <<configured, csv, building, left, indexVars, script_db, catalog>>

Stop ==
  /\ session # "down"
  /\ session' = "down" /\ read' = <<>> /\ catalog' = {}
  /\ UNCHANGED <<configured, csv, building, left, indexVars, script_db>>

(* load_metasploit(), by autoload() or a command. What was loaded before      *)
(* stays; a module that is loaded twice is named twice, which is left out.    *)
LoadMetasploit ==
  /\ session = "up"
  /\ \E modules \in ModuleFiles : catalog' = catalog \cup modules
  /\ UNCHANGED <<configured, csv, building, left, indexVars, script_db, session, read>>

Next ==
  \/ Fetch \/ Build \/ WriteBatch \/ BuildEnds
  \/ ScriptUpdate \/ Start \/ Stop \/ LoadMetasploit

Spec == Init /\ [][Next]_vars

-------------------------------------------------------------------------------
(* Lookups. The first of a set are those that fewer than n precede.           *)

First(S, Precedes(_, _), n) == {x \in S : Cardinality({y \in S : Precedes(y, x)}) < n}

Position(e) == CHOOSE i \in DOMAIN ExploitIds : ExploitIds[i] = e

(* The part of ORDER BY and of rank() that the two have in common; that the   *)
(* platform matches goes for every row, because the resolver has none.        *)
Outranks(d, e) ==
  \/ (exploit[d].verified /\ ~exploit[e].verified)
  \/ exploit[d].verified = exploit[e].verified /\ exploit[d].published > exploit[e].published
Ties(d, e) == ~Outranks(d, e) /\ ~Outranks(e, d)

(* exploits_for_cve(): of equals the last id comes first. *)
ExploitsForCve(cve) ==
  First({l[1] : l \in {k \in exploit_cve : k[2] = cve}},
        LAMBDA d, e : Outranks(d, e) \/ (Ties(d, e) /\ Position(d) > Position(e)), ExploitLimit)

(* Mutant: the newest come first, verified or not. *)
Precedes_Newest(d, e) ==
  \/ exploit[d].published > exploit[e].published
  \/ exploit[d].published = exploit[e].published /\ Position(d) < Position(e)

(* rank(): of equals the first id comes first. *)
Precedes(d, e) == Outranks(d, e) \/ (Ties(d, e) /\ Position(d) < Position(e))

(* DbExploitResolver.exploits_for(), or nothing of the Null resolver. *)
ExploitsFor(cve) ==
  IF session = "up" /\ "exploits" \in configured THEN ExploitsForCve(cve) ELSE {}

Place(s) == CHOOSE i \in DOMAIN ScriptNames : ScriptNames[i] = s

(* script_matches(): by the family of the service or by the name of the CVE.  *)
ScriptMatches(lead, s) ==
  s \in Named[lead.cve] \/ \E p \in ServicePrefixes[lead.service] : s \in Family[p]

(* scripts_for(): those that are named for the CVE come first. *)
ScriptBefore(cve, s, t) ==
  \/ s \in Named[cve] /\ t \notin Named[cve]
  \/ (s \in Named[cve] <=> t \in Named[cve]) /\ Place(s) < Place(t)
ScriptsFor(lead) ==
  First({s \in Indexed : ScriptMatches(lead, s)},
        LAMBDA s, t : ScriptBefore(lead.cve, s, t), ScriptLimit)

-------------------------------------------------------------------------------
(* Commands.                                                                  *)

Composed(tool, category, what) ==
  [tool |-> tool, category |-> category, composed |-> TRUE, what |-> what, further |-> 0]
Mentioned(tool, category, what) ==
  [tool |-> tool, category |-> category, composed |-> FALSE, what |-> what, further |-> 0]
Further(tool, category, n) ==
  [tool |-> tool, category |-> category, composed |-> FALSE, what |-> "further", further |-> n]

(* _worst_category(): the first of these that is declared. The others say     *)
(* what a script is about, and nothing of what it costs the target.           *)
Severity == <<"exploit", "dos", "fuzzer", "brute", "vuln", "broadcast", "external",
              "unclassified", "intrusive", "version", "safe">>
WorstCategory(tokens) ==
  LET seen == {IF t \in Category THEN t ELSE "unclassified" : t \in tokens}
      i == SelectInSeq(Severity, LAMBDA c : c \in seen)
  IN IF i = 0 THEN "unclassified" ELSE Severity[i]

(* script_selection_category(): a name may be that of a category. *)
SelectionCategory(name, tokens) ==
  CASE name = "all"      -> WorstCategory(tokens \cup {"exploit"})
    [] name \in Category -> WorstCategory(tokens \cup {name})
    [] OTHER             -> WorstCategory(tokens)

NmapCommand(name, tokens) ==
  LET category == SelectionCategory(name, tokens)
  IN IF category \in NeverComposed THEN Mentioned("nse", category, name)
     ELSE Composed("nse", category, name)

(* _nse_selection() and nmap_commands(): the category vuln, and the first of  *)
(* the scripts for the lead. A script called vuln takes a place for nothing.  *)
NseCommands(lead) ==
  LET found == ScriptsFor(lead)
      first == First(found, LAMBDA s, t : ScriptBefore(lead.cve, s, t), MaxScriptCommands)
      extra == Cardinality(found) - MaxScriptCommands
  IN {Composed("nmap", "version", "version detection"), NmapCommand("vuln", {"vuln"})}
       \cup {NmapCommand(s, Declared(s)) : s \in first \ {"vuln"}}
       \cup IF extra > 0 THEN {Further("nmap", "unclassified", extra)} ELSE {}

SearchsploitCommands ==
  {Composed("searchsploit", "safe", "cve"), Composed("searchsploit", "safe", "product")}

HttpProbeCommands(lead) ==
  {Composed("curl", "safe", "headers")}
    \cup IF lead.tls THEN {Composed("openssl", "safe", "certificate")} ELSE {}

(* nuclei does not say what its templates cost the target. *)
NucleiCommand == Composed("nuclei", "unclassified", "template")

RecordsFor(cve) == {m \in catalog : cve \in m.cves}

(* A module is set up when its kind is one to use and its name is a path. *)
MetasploitCommands(cve) ==
  {Composed("msfconsole", "intrusive", m.module) :
     m \in {x \in RecordsFor(cve) : x.path /\ x.kind \in {"exploit", "auxiliary", "post"}}}

ExamineCommand(e) == Composed("searchsploit -x", "safe", e)

ExploitCommands(cve) ==
  LET records == ExploitsFor(cve)
      extra == Cardinality(records) - MaxExploitCommands
  IN {ExamineCommand(e) : e \in First(records, Precedes, MaxExploitCommands)}
       \cup IF extra > 0 THEN {Further("searchsploit", "safe", extra)} ELSE {}

(* filter_commands(): what is not composed is always shown. *)
FilterCommands(commands, allowed) == {c \in commands : c.category \in allowed \/ ~c.composed}

BuildCommands(lead, allowed) ==
  FilterCommands(
    SearchsploitCommands \cup NseCommands(lead)
      \cup (IF lead.web THEN HttpProbeCommands(lead) \cup {NucleiCommand} ELSE {})
      \cup MetasploitCommands(lead.cve)
      \cup ExploitCommands(lead.cve),
    allowed)

(* build_handoff(): the lookups run the category vuln if it was asked for.    *)
Lookups(allowed) ==
  {"searchsploit --cve", "searchsploit product"}
    \cup IF "vuln" \in allowed THEN {"nmap --script vuln"} ELSE {}

-------------------------------------------------------------------------------
(* Properties.                                                                *)

(* The script.db that a session read, in its own words: the last line for a   *)
(* script is what it is.                                                      *)
Filed(s) ==
  LET lines == {i \in DOMAIN read : read[i].parses /\ read[i].name = s}
  IN IF lines = {} THEN {} ELSE read[Max(lines)].categories

(* Who asks for nothing is given no invocation of a script but those that     *)
(* script.db calls safe or a detection of versions, and nothing besides that  *)
(* costs the target more or that reconkg does not know; and no script of a    *)
(* category that fires is ever given as an invocation of its own.             *)
(* (commands.py, _worst_category; handoff.py, _nse_selection)                 *)
AsFiled ==
  session = "up" =>
    \A lead \in Leads, allowed \in Selections \cup {DefaultCategories} :
      \A c \in BuildCommands(lead, allowed) :
        c.tool = "nse" /\ c.composed /\ c.what \notin Category =>
          /\ Filed(c.what) \cap NeverComposed = {}
          /\ allowed = DefaultCategories =>
               /\ Filed(c.what) \cap {"safe", "version"} # {}
               /\ Filed(c.what) \subseteq
                    {"safe", "version", "discovery", "default", "auth", "malware"}

(* Whatever builds are running, were killed or gave up, the exploits shown    *)
(* for a lead are of those that the lines last ingested give for its CVE,     *)
(* none that is left out is better than one that is shown, and unless the     *)
(* index had more than its limit those left out are counted.                  *)
(* (exploitdb.py, _write_batch and rank; handoff.py, _exploit_commands)       *)
BestFirst ==
  session = "up" /\ "exploits" \in configured =>
    \A lead \in Leads :
      LET commands == BuildCommands(lead, DefaultCategories)
          known == {e \in DOMAIN told : told[e] # <<>> /\ lead.cve \in told[e][1].cves}
          shown == {c.what : c \in {d \in commands : d.tool = "searchsploit -x"}}
          more == {c.further : c \in {d \in commands : d.tool = "searchsploit" /\ ~d.composed}}
      IN /\ shown \subseteq known
         /\ \A e \in shown, d \in known \ shown :
              /\ told[d][1].verified => told[e][1].verified
              /\ (told[d][1].verified <=> told[e][1].verified)
                   => told[d][1].published <= told[e][1].published
         /\ Cardinality(known) <= ExploitLimit =>
              \/ more = {} /\ shown = known
              \/ more = {Cardinality(known) - Cardinality(shown)}

(* What nmap runs when it is given a name for --script. *)
Runs(name) ==
  IF name \in Category THEN {s \in Range(ScriptNames) : name \in Filed(s)} \cup {name} ELSE {name}

(* README.md:84 of the repository says of exploit, dos, fuzzer and brute that *)
(* they are "named, never composed": no invocation runs a script of theirs.   *)
NeverFired ==
  session = "up" =>
    \A lead \in Leads, allowed \in Selections :
      \A c \in BuildCommands(lead, allowed) :
        c.tool = "nse" /\ c.composed =>
          \A s \in Runs(c.what) : Filed(s) \cap NeverComposed = {}

===============================================================================
