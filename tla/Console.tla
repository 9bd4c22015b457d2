------------------------------- MODULE Console -------------------------------
(***************************************************************************)
(* The operator console: the session of reconkg/console.py, the registry   *)
(* and the option store of modules.py with the modules of                  *)
(* builtin_modules.py, and the planner of planner.py.                      *)
(*                                                                         *)
(* A line is split at its semicolons and its parts are executed one after  *)
(* the other, whatever becomes of each of them. The commands that only     *)
(* print (help, info, show, targets, services, vulns, history) are left    *)
(* out; plan and handoff print too, and are here because an operator acts  *)
(* on what plan prints. What a run of the engine does to the graph of its  *)
(* host is the subject of Engine: here it is any change.                   *)
(***************************************************************************)
EXTENDS Integers, Sequences, FiniteSets, SequencesExt, Sorting

CONSTANTS
  Names,         (* the full names a module may have, in alphabetical order   *)
  Registries,    (* the sets of built-in classes that a console may be given  *)
  PluginFiles,   (* what a plugin file defines: sequences of classes,         *)
                 (* <<>> where the import fails                               *)
  Hosts,
  Views,         (* what the graph may say of a host: sequences of ports      *)
  Queries,       (* of a search: [category, rank, terms]                      *)
  WorkspaceNames, LegalNames,
  Raw,           (* what may be typed as the value of an option               *)
  MAX_WORKSPACES, MAX_LEDGER_ROWS,
  MaxLines       (* bound: lines typed in a session                           *)

ASSUME ConsoleAssumption ==
  /\ {MAX_WORKSPACES, MAX_LEDGER_ROWS} \subseteq Nat \ {0}
  /\ MaxLines \in Nat

VARIABLES
  registry,      (* full name -> class                                        *)
  lastSearch,    (* last_search                                               *)
  module,        (* <<>>, or the instance that is selected: [class, values]   *)
  workspaces,    (* name -> [graph, ledger]                                   *)
  workspace,     (* the name of the current one                               *)
  running,
  todo,          (* the parts of the line that are still to be executed       *)
  lines,         (* how many lines were typed                                 *)
  copied,        (* no state of the program: what the operator took from the  *)
                 (* last plan, or <<>>: the line, the workspace that it was   *)
                 (* printed in, and how they will type it                     *)
  doing,         (* ... what was taken and is being executed, or <<>>         *)
  did,           (* ... the runs and the hand-offs of the current line        *)
  reported,      (* ... the rows that were reported in each workspace         *)
  failed         (* ... the workspaces in which a run raised                  *)

vars == <<registry, lastSearch, module, workspaces, workspace, running, todo, lines,
          copied, doing, did, reported, failed>>
ghosts == <<copied, doing, did, reported, failed>>

NewWorkspace == [graph |-> <<>>, ledger |-> <<>>]

ByName(classes) ==
  [n \in {c.fullname : c \in classes} |-> CHOOSE c \in classes : c.fullname = n]

Init ==
  /\ registry \in {ByName(r) : r \in Registries}
  /\ lastSearch = <<>> /\ module = <<>>
  /\ workspaces = [n \in {"default"} |-> NewWorkspace]
  /\ workspace = "default"
  /\ running = TRUE /\ todo = <<>> /\ lines = 0
  /\ copied = <<>> /\ doing = <<>> /\ did = <<>>
  /\ reported = [n \in {"default"} |-> <<>>]
  /\ failed = {}

-------------------------------------------------------------------------------
(* The registry. *)

(* register(), as _load_file() calls it for each class: a name that is taken  *)
(* is an error, so the first to have a name keeps it.                         *)
Registered(reg, file) ==
  [n \in DOMAIN reg \cup {c.fullname : c \in Range(file)} |->
     IF n \in DOMAIN reg THEN reg[n]
     ELSE file[Min({i \in DOMAIN file : file[i].fullname = n})]]

(* load_path() of a directory with one file, at any time of the session.      *)
LoadPath(file) ==
  /\ registry' = Registered(registry, file)
  /\ UNCHANGED <<lastSearch, module, workspaces, workspace, running, todo, lines, ghosts>>

Place(fullname) == CHOOSE i \in DOMAIN Names : Names[i] = fullname

(* search(): the best rank first, then by name. Terms stand for the words and *)
(* for the CVE that a query names.                                            *)
Search(query) ==
  Sorted(
    {c \in {registry[n] : n \in DOMAIN registry} :
        /\ query.category \in {"", c.category}
        /\ c.rank >= query.rank
        /\ query.terms \subseteq c.terms},
    LAMBDA c, d : \/ c.rank > d.rank
                  \/ c.rank = d.rank /\ Place(c.fullname) < Place(d.fullname))

-------------------------------------------------------------------------------
(* The options of an instance: option -> <<>>, or <<value>>. *)

(* coerce(), which is idempotent: what was accepted reads as it was typed.    *)
Accepts(class, o, raw) == raw \in class.options[o].legal

Default(class, o) == class.options[o].default

(* OptionDataStore.__init__(). *)
Create(class) == [class |-> class, values |-> [o \in DOMAIN class.options |-> Default(class, o)]]

MissingRequired(m) == {o \in DOMAIN m.values : m.class.options[o].required /\ m.values[o] = <<>>}

(* opt("RHOST"), which is None for a module that declares none. *)
Target(m) == IF "RHOST" \in DOMAIN m.values THEN m.values["RHOST"] ELSE <<>>

-------------------------------------------------------------------------------
(* The planner, which reads the graph of a host: its ports, and the leads     *)
(* that were recorded for it. The order of what it prints is left out.        *)

Gaps == {"NO_SERVICE", "NO_FINGERPRINT", "AMBIGUOUS_VERSION", "BELOW_FLOOR",
         "NO_WEB_FINGERPRINT", "FILTERED_PORT"}

ModuleForGap ==
  [g \in Gaps |->
     CASE g \in {"NO_SERVICE", "NO_FINGERPRINT"} -> "recon/fingerprint/banner_probe"
       [] g \in {"AMBIGUOUS_VERSION", "BELOW_FLOOR"} -> "recon/fingerprint/deep_probe"
       [] g = "NO_WEB_FINGERPRINT" -> "recon/http/app_fingerprint"
       [] g = "FILTERED_PORT" -> "recon/discovery/connect_sweep"]

(* Mutant: the module of a gap is named, registered or not. *)
Assign_Named(gap) == <<ModuleForGap[gap]>>

(* _assign() *)
Assign(gap) == IF ModuleForGap[gap] \in DOMAIN registry THEN <<ModuleForGap[gap]>> ELSE <<>>

RunModule(gap) == [gap |-> gap, action |-> "run_module", module |-> Assign(gap), cve |-> ""]

PortGaps(ports) ==
  {RunModule("FILTERED_PORT") : p \in {q \in Range(ports) : q.state = "filtered"}}
    \cup {RunModule("NO_SERVICE") : p \in {q \in Range(ports) : q.state = "open" /\ ~q.service}}
    \cup {RunModule("NO_FINGERPRINT") :
            p \in {q \in Range(ports) : q.state = "open" /\ q.service /\ q.fingerprints = {}}}

(* contradictions() *)
Contradicted(fps) ==
  LET credible == {f \in fps : f.credible /\ f.version # ""}
  IN \E f, g \in credible : f.product = g.product /\ f.version # g.version

FingerprintGaps(ports) ==
  LET Services == {p \in Range(ports) : p.service}
      fps == UNION {p.fingerprints : p \in Services}
  IN {RunModule("NO_WEB_FINGERPRINT") :
        p \in {q \in Services : /\ q.web /\ q.fingerprints # {}
                                /\ \A f \in q.fingerprints : "whatweb" \notin f.tools}}
       \cup {[gap |-> "CONTRADICTION", action |-> "resolve_conflict",
              module |-> Assign("AMBIGUOUS_VERSION"), cve |-> ""] :
               p \in {q \in Services : Contradicted(q.fingerprints)}}
       \cup {RunModule("AMBIGUOUS_VERSION") : f \in {g \in fps : g.version = ""}}
       \cup {RunModule("BELOW_FLOOR") : f \in {g \in fps : g.version # "" /\ ~g.credible}}
       \cup {[gap |-> "UNCORROBORATED", action |-> "submit_independent_evidence",
              module |-> <<>>, cve |-> ""] :
               f \in {g \in fps : /\ g.version # "" /\ g.credible
                                  /\ Cardinality(g.principals \ {"system"}) < 2}}

LeadActions(leads) ==
  {[gap |-> "LEAD_READY", action |-> "handoff", module |-> <<>>, cve |-> l.cve] : l \in leads}

(* GapPlanner.plan() *)
Plan(node) == PortGaps(node.ports) \cup FingerprintGaps(node.ports) \cup LeadActions(node.leads)

(* render_plan(), under the heading that names the host: -> use X for all     *)
(* that has a module, contradictions included, and -> handoff C for a lead.   *)
(* What has neither is printed with no command.                               *)
Printed(recs, host) ==
  {[what |-> r.module[1], on |-> host] : r \in {s \in recs : s.module # <<>>}}
    \cup {[what |-> "handoff", on |-> r.cve] :
            r \in {s \in recs : s.module = <<>> /\ s.action = "handoff"}}

(* _split_commands() of what the operator types for such a line. As it is     *)
(* printed, a use is alone, and the first word of the note after a handoff is *)
(* taken for a target. Completed, a use has the address of the heading and a  *)
(* run after it, as Recommendation.command() composes it for the clients of   *)
(* the server, and the note is dropped.                                       *)
Split(line, as) ==
  IF line.what = "handoff"
  THEN <<[do |-> "handoff", cve |-> line.on,
          target |-> IF as = "printed" THEN <<"[operator">> ELSE <<>>]>>
  ELSE IF as = "printed" THEN <<[do |-> "use", name |-> line.what]>>
  ELSE <<[do |-> "use", name |-> line.what], [do |-> "set", option |-> "RHOST", raw |-> line.on],
         [do |-> "run"]>>

(* The classes that may be registered, and the addresses that they, the       *)
(* operator and the importer may name.                                        *)
Classes == UNION Registries \cup UNION {Range(file) : file \in PluginFiles}
Addresses ==
  Hosts \cup UNION {c.options["RHOST"].legal : c \in {d \in Classes : "RHOST" \in DOMAIN d.options}}

(* A recon module that needs nothing but an address, as the shipped ones are. *)
Plannable(c) ==
  /\ c.category = "recon"
  /\ "RHOST" \in DOMAIN c.options /\ Addresses \subseteq c.options["RHOST"].legal
  /\ \A o \in DOMAIN c.options \ {"RHOST"} :
       c.options[o].required => c.options[o].default # <<>>

Planned == Range(ModuleForGap)

(* The shipped classes that the planner names are all Plannable. A plugin can *)
(* have such a name only in a console that was given a registry without the   *)
(* class, and is then what the planner takes it for.                          *)
ASSUME ClassesAssumption ==
  /\ Names \in Seq(STRING)
  /\ \A c \in Classes :
       /\ c.fullname \in Range(Names) /\ c.rank \in Nat
       /\ "RHOST" \in DOMAIN c.options =>
            LET o == c.options["RHOST"]
            IN o.default \in {<<>>} \cup {<<x>> : x \in o.legal}
  /\ \A builtin \in Registries :
       /\ \A c \in builtin : c.fullname \in Planned => Plannable(c)
       /\ \A file \in PluginFiles : \A c \in Range(file) :
            c.fullname \in Planned /\ (\A d \in builtin : d.fullname # c.fullname) => Plannable(c)
  /\ \A file \in PluginFiles : file \in Seq(Classes)

-------------------------------------------------------------------------------
(* The ledger. A row is [target, port, cve, priority], where the port stands  *)
(* for its protocol too.                                                      *)

Identity(row) == <<row.target, row.port, row.cve>>

ByPriority(rows) ==
  LET order == Sorted(DOMAIN rows,
                 LAMBDA i, j : \/ rows[i].priority > rows[j].priority
                               \/ rows[i].priority = rows[j].priority /\ i < j)
  IN [i \in DOMAIN rows |-> rows[order[i]]]

(* Mutant: the rows of a report are compared with the ledger only, and not    *)
(* with each other.                                                           *)
MergeLedger_Seen(ledger, rows) ==
  LET seen == {Identity(r) : r \in Range(ledger)}
      merged[i \in 0..Len(rows)] ==
        IF i = 0 THEN ledger
        ELSE LET l == merged[i - 1]
             IN IF Identity(rows[i]) \in seen \/ Len(l) >= MAX_LEDGER_ROWS THEN l
                ELSE Append(l, rows[i])
  IN ByPriority(merged[Len(rows)])

(* A row whose lead is in the ledger, or that finds it full, is left out.     *)
WithRow(ledger, row) ==
  IF (\E s \in Range(ledger) : Identity(s) = Identity(row)) \/ Len(ledger) >= MAX_LEDGER_ROWS
  THEN ledger ELSE Append(ledger, row)

(* merge_ledger() *)
MergeLedger(ledger, rows) ==
  LET merged[i \in 0..Len(rows)] ==
        IF i = 0 THEN ledger ELSE WithRow(merged[i - 1], rows[i])
  IN ByPriority(merged[Len(rows)])

(* The rows for a host: a lead of every fingerprint that has it. *)
ReportRows(host, ports) ==
  UNION {UNION {{[target |-> host, port |-> p.port, cve |-> l.cve, priority |-> l.priority] :
                   l \in f.leads} : f \in p.fingerprints} : p \in Range(ports)}

(* A graph is finite. *)
ASSUME ViewsAssumption ==
  \A ports \in Views :
    /\ \A host \in Addresses : IsFiniteSet(ReportRows(host, ports))
    /\ \A p \in Range(ports) : \A f \in p.fingerprints : \A l \in f.leads : l.priority \in Nat

(* A report has the most urgent first; which of equals is first is left open. *)
Reports(host, ports) ==
  {rows \in SetToSeqs(ReportRows(host, ports)) :
     \A i, j \in DOMAIN rows : i < j => rows[i].priority >= rows[j].priority}

(* record_lead(), once for each of them: the first for a fingerprint stays.   *)
Recorded(leads, ports) ==
  leads \cup UNION {UNION {{[cve |-> l.cve, fp |-> f.key] : l \in f.leads} : f \in p.fingerprints} :
                      p \in Range(ports)}

NewHost == [ports |-> <<>>, leads |-> {}]
Node(graph, host) == IF host \in DOMAIN graph THEN graph[host] ELSE NewHost
WithNode(graph, host, node) ==
  [h \in DOMAIN graph \cup {host} |-> IF h = host THEN node ELSE graph[h]]

-------------------------------------------------------------------------------
(* The commands. Each takes the part it executes off the line; one that is    *)
(* refused, or that raises, changes nothing else.                             *)

Part(command) == todo # <<>> /\ Head(todo).do = command /\ todo' = Tail(todo)
sessionVars == <<registry, lastSearch, module, workspaces, workspace, running>>

CmdSearch ==
  /\ Part("search")
  /\ lastSearch' = IF Head(todo).valid THEN Search(Head(todo).query) ELSE lastSearch
  /\ UNCHANGED <<registry, module, workspaces, workspace, running, lines, ghosts>>

(* use, with a name. *)
CmdUse ==
  /\ Part("use")
  /\ module' = IF Head(todo).name \in DOMAIN registry
               THEN <<Create(registry[Head(todo).name])>> ELSE module
  /\ UNCHANGED <<registry, lastSearch, workspaces, workspace, running, lines, ghosts>>

(* use, with an index into the last search. *)
CmdPick ==
  /\ Part("pick")
  /\ module' = IF Head(todo).index < Len(lastSearch)
               THEN <<Create(registry[lastSearch[Head(todo).index + 1].fullname])>> ELSE module
  /\ UNCHANGED <<registry, lastSearch, workspaces, workspace, running, lines, ghosts>>

CmdBack ==
  /\ Part("back")
  /\ module' = <<>>
  /\ UNCHANGED <<registry, lastSearch, workspaces, workspace, running, lines, ghosts>>

(* set: OptionDataStore.set() validates before it assigns. *)
CmdSet ==
  /\ Part("set")
  /\ LET c == Head(todo)
         accepted == /\ module # <<>>
                     /\ c.option \in DOMAIN module[1].values
                     /\ Accepts(module[1].class, c.option, c.raw)
     IN module' = IF accepted THEN <<[module[1] EXCEPT !.values[c.option] = <<c.raw>>]>> ELSE module
  /\ UNCHANGED <<registry, lastSearch, workspaces, workspace, running, lines, ghosts>>

CmdUnset ==
  /\ Part("unset")
  /\ LET o == Head(todo).option
     IN module' = IF module # <<>> /\ o \in DOMAIN module[1].values
                  THEN <<[module[1] EXCEPT !.values[o] = Default(module[1].class, o)]>> ELSE module
  /\ UNCHANGED <<registry, lastSearch, workspaces, workspace, running, lines, ghosts>>

Runnable ==
  /\ module # <<>>
  /\ module[1].class.category = "recon"
  /\ MissingRequired(module[1]) = {}
  /\ Target(module[1]) # <<>>

CmdRunRefused ==
  /\ Part("run") /\ ~Runnable
  /\ UNCHANGED <<sessionVars, lines, ghosts>>

(* run, when engine.run() returns. *)
CmdRun ==
  /\ Part("run") /\ Runnable
  /\ LET host == Target(module[1])[1]
         ws == workspaces[workspace]
     IN \E ports \in Views : \E report \in Reports(host, ports) :
          /\ workspaces' = [workspaces EXCEPT ![workspace] =
               [graph |-> WithNode(ws.graph, host,
                            [ports |-> ports, leads |-> Recorded(Node(ws.graph, host).leads, ports)]),
                ledger |-> MergeLedger(ws.ledger, report)]]
          /\ reported' = [reported EXCEPT ![workspace] = @ \o report]
          /\ did' = Append(did, [what |-> module[1].class.fullname, on |-> host])
  /\ UNCHANGED <<registry, lastSearch, module, workspace, running, lines, copied, doing, failed>>

(* run, when engine.run() raises after its stages and some of its leads.      *)
CmdRunRaises ==
  /\ Part("run") /\ Runnable
  /\ LET host == Target(module[1])[1]
         ws == workspaces[workspace]
         node == Node(ws.graph, host)
     IN \E ports \in Views : \E leads \in {node.leads, Recorded(node.leads, ports)} :
          workspaces' = [workspaces EXCEPT ![workspace].graph =
                           WithNode(ws.graph, host, [ports |-> ports, leads |-> leads])]
  /\ did' = Append(did, [what |-> module[1].class.fullname, on |-> Target(module[1])[1]])
  /\ failed' = failed \cup {workspace}
  /\ UNCHANGED <<registry, lastSearch, module, workspace, running, lines, copied, doing, reported>>

(* plan: the operator takes one of the lines of one host. *)
CmdPlan ==
  /\ Part("plan")
  /\ LET graph == workspaces[workspace].graph
         printed == UNION {Printed(Plan(graph[h]), h) : h \in DOMAIN graph}
     IN IF printed = {} THEN copied' = <<>>
        ELSE \E line \in printed, as \in {"printed", "completed"} :
               copied' = <<[line |-> line, in |-> workspace, as |-> as]>>
  /\ UNCHANGED <<sessionVars, lines, doing, did, reported, failed>>

(* handoff: the rows of the ledger of the CVE, of one target or of all.       *)
CmdHandoff ==
  /\ Part("handoff")
  /\ LET cve == Head(todo).cve
         found == {r \in Range(workspaces[workspace].ledger) :
                     r.cve = cve /\ Head(todo).target \in {<<>>, <<r.target>>}}
     IN did' = IF found = {} THEN did ELSE Append(did, [what |-> "handoff", on |-> cve])
  /\ UNCHANGED <<sessionVars, lines, copied, doing, reported, failed>>

(* import: importers.ingest() makes the hosts known, and stages evidence.     *)
CmdImport ==
  /\ Part("import")
  /\ LET new == Head(todo).hosts \ DOMAIN workspaces[workspace].graph
         graph == workspaces[workspace].graph
     IN workspaces' = [workspaces EXCEPT ![workspace].graph =
                         [h \in DOMAIN graph \cup new |-> Node(graph, h)]]
  /\ UNCHANGED <<registry, lastSearch, module, workspace, running, lines, ghosts>>

(* workspace: the module that is selected stays selected. *)
CmdWorkspace ==
  /\ Part("workspace")
  /\ LET name == Head(todo).name
         known == name \in DOMAIN workspaces
         made == /\ ~known
                 /\ Cardinality(DOMAIN workspaces) < MAX_WORKSPACES
                 /\ name \in LegalNames
         With(f, x) == IF made THEN [n \in DOMAIN f \cup {name} |-> IF n = name THEN x ELSE f[n]] ELSE f
     IN /\ workspace' = IF known \/ made THEN name ELSE workspace
        /\ workspaces' = With(workspaces, NewWorkspace)
        /\ reported' = With(reported, <<>>)
  /\ UNCHANGED <<registry, lastSearch, module, running, lines, copied, doing, did, failed>>

(* exit: the rest of the line is still executed. *)
CmdExit ==
  /\ Part("exit")
  /\ running' = FALSE
  /\ UNCHANGED <<registry, lastSearch, module, workspaces, workspace, lines, ghosts>>

-------------------------------------------------------------------------------
(* The loop of main(), which reads a line while the session runs.             *)

Read(parts, copy) ==
  /\ running /\ todo = <<>> /\ lines < MaxLines
  /\ todo' = parts /\ lines' = lines + 1
  /\ doing' = copy /\ did' = <<>>
  /\ UNCHANGED <<sessionVars, copied, reported, failed>>

Typed ==
  {<<[do |-> "search", valid |-> TRUE, query |-> q]>> : q \in Queries}
    \cup {<<[do |-> "search", valid |-> FALSE]>>, <<[do |-> "back"]>>, <<[do |-> "run"]>>,
          <<[do |-> "plan"]>>, <<[do |-> "unset", option |-> "RHOST"]>>,
          <<[do |-> "exit"], [do |-> "run"]>>}
    \cup {<<[do |-> "use", name |-> n]>> : n \in Range(Names)}
    \cup {<<[do |-> "pick", index |-> i]>> : i \in 0..1}
    \cup {<<[do |-> "set", option |-> o, raw |-> r]>> : o \in {"RHOST", "TOKEN"}, r \in Raw}
    \cup {<<[do |-> "import", hosts |-> hs]>> : hs \in {{h} : h \in Hosts} \cup {{}}}
    \cup {<<[do |-> "workspace", name |-> n]>> : n \in WorkspaceNames}
    \cup {<<[do |-> "use", name |-> n], [do |-> "set", option |-> "RHOST", raw |-> h],
            [do |-> "run"], [do |-> "plan"]>> : n \in Range(Names), h \in Hosts}

TypeLine == \E parts \in Typed : Read(parts, <<>>)
FollowLine == copied # <<>> /\ Read(Split(copied[1].line, copied[1].as), copied)

Next ==
  \/ TypeLine \/ FollowLine
  \/ CmdSearch \/ CmdUse \/ CmdPick \/ CmdBack \/ CmdSet \/ CmdUnset
  \/ CmdRunRefused \/ CmdRun \/ CmdRunRaises \/ CmdPlan \/ CmdHandoff
  \/ CmdImport \/ CmdWorkspace \/ CmdExit
  \/ \E file \in PluginFiles : LoadPath(file)

Spec == Init /\ [][Next]_vars

-------------------------------------------------------------------------------
(* Properties *)

(* A line of the plan can be followed however long after it was printed, and  *)
(* whatever was selected, loaded or set in between. Completed with the host   *)
(* that it is for, it runs the module it names, and no other, once and on     *)
(* that host. As it is printed it selects this module, with no option of an   *)
(* earlier target, and runs nothing. A hand-off shows its lead, if it is      *)
(* typed where it was printed, the ledger has room and no run of that         *)
(* workspace raised (render_plan, _assign, register, cmd_use which keeps the  *)
(* module when it fails, cmd_run, cmd_handoff).                               *)
PlanCanBeFollowed ==
  (doing # <<>> /\ todo = <<>>) =>
    LET line == doing[1].line
        printed == doing[1].as = "printed"
    IN /\ (line.what # "handoff" /\ ~printed) => did = <<line>>
       /\ (line.what # "handoff" /\ printed) =>
            /\ did = <<>> /\ module # <<>>
            /\ module[1].class.fullname = line.what /\ module[1] = Create(module[1].class)
       /\ (line.what = "handoff" /\ ~printed) =>
            \/ did = <<line>>
            \/ /\ did = <<>>
               /\ \/ doing[1].in # workspace
                  \/ Len(workspaces[workspace].ledger) = MAX_LEDGER_ROWS
                  \/ workspace \in failed

(* What the code does not keep: "plan emits copy-pasteable use X; set RHOST y; *)
(* run lines" (Console.execute). As they are printed, the line of a gap       *)
(* selects a module and runs nothing, and the line of a lead finds nothing.   *)
PrintedLinesWork ==
  (doing # <<>> /\ todo = <<>> /\ workspace \notin failed) => did = <<doing[1].line>>

(* The ledger of a workspace holds one row for each of the first leads that   *)
(* runs in this workspace reported, as many as it has room for, each as it    *)
(* was first reported, and the most urgent first (merge_ledger).              *)
LedgerIsWorklist ==
  \A n \in DOMAIN workspaces :
    LET rows == reported[n]
        first == {i \in DOMAIN rows : \A j \in 1..(i - 1) : Identity(rows[j]) # Identity(rows[i])}
        kept == {i \in first : Cardinality({j \in first : j < i}) < MAX_LEDGER_ROWS}
        ledger == workspaces[n].ledger
    IN /\ Range(ledger) = {rows[i] : i \in kept}
       /\ Len(ledger) = Cardinality(kept)
       /\ \A i, j \in DOMAIN ledger : i < j => ledger[i].priority >= ledger[j].priority

===============================================================================
