SPECIFICATION Spec
CONSTANTS
  mcp = mcp
  hook = hook
  Procs <- TwoProcesses
  Sids = {s1, s2}
  Tasks = {}
  NoTask = NoTask
  Agents = {orchestrator, coder}
  Exempt = {orchestrator}
  Blocking = {"mcp-complete-eslint", "mcp-complete-artifact"}
  Offers <- AllButBulk
  Overlap = TRUE
  Faults = {}
  DeliveredTTL = 0
  StartupTTL = 0
  ArmedTTL = 0
  CheckedTTL = 0
  Never = Never
  MaxNow = 1
  MaxAudits = 1
PROPERTIES
  OnlyStaleDrained
