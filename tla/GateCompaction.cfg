SPECIFICATION Spec
CONSTANTS
  mcp = mcp
  hook = hook
  Procs <- TwoProcesses
  Sids = {s1, s2}
  Tasks = {}
  NoTask = NoTask
  Agents = {orchestrator, coder}
  Exempt = {orchestrator}
  Blocking = {}
  Offers <- WorkAndReview
  Overlap = TRUE
  Faults = {}
  DeliveredTTL = 0
  StartupTTL = 0
  ArmedTTL = 0
  CheckedTTL = 0
  Never = Never
  MaxNow = 0
  MaxAudits = 1
SYMMETRY AnySession
INVARIANTS
  OpenIsUnconsumed
  CompletedIsSigned
  CompletedIsAudited
