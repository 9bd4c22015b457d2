SPECIFICATION Spec
CONSTANTS
  ExploitIds <- MCExploitIds
  CSVs <- MCCSVs
  ScriptNames <- MCScriptNames
  ScriptDBs <- MCScriptDBs
  ModuleFiles <- MCModuleFiles
  Leads <- MCLeads
  Selections <- MCSelections
  ServicePrefixes <- MCServicePrefixes
  Family <- MCFamily
  Named <- MCNamed
  BatchSize = 2
  ExploitLimit = 3
  ScriptLimit = 3
  MaxExploitCommands = 2
  MaxScriptCommands = 2
  SniffLines = 3
INVARIANT NeverFired
