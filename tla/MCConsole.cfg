SPECIFICATION Spec
CONSTANTS
  Names <- MCNames
  Registries <- MCRegistries
  PluginFiles <- MCPluginFiles
  Hosts = {"h1"}
  Views <- MCViews
  Queries <- MCQueries
  WorkspaceNames = {"default", "lab", "a b", "more"}
  LegalNames = {"default", "lab", "more"}
  Raw = {"h2", "x"}
  MAX_WORKSPACES = 2
  MAX_LEDGER_ROWS = 3
  MaxLines = 3
INVARIANT PlanCanBeFollowed
INVARIANT LedgerIsWorklist
