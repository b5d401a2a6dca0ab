SPECIFICATION FairSpec
CONSTANTS
  mcp = mcp
  Procs <- OneProcess
  Sids = {s1, s2}
  Tasks = {}
  NoTask = NoTask
  Agents = {orchestrator, coder}
  Exempt = {orchestrator}
  Blocking = {}
  Offers <- AllButBulk
  Overlap = FALSE
  Faults = {}
  DeliveredTTL = 0
  StartupTTL = 0
  ArmedTTL = 0
  CheckedTTL = 0
  Never = Never
  MaxNow = 1
  MaxAudits = 2
PROPERTIES
  StaleArmedEnds
  StaleDeliveredEnds
