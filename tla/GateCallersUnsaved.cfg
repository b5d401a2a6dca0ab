SPECIFICATION Spec
CONSTANTS
  orchestrator = orchestrator
  Callers = {orchestrator, coder}
  NoCaller = NoCaller
  Parent <- Dispatched
  Privileged = {orchestrator}
  Gates = {g1}
  NoGate = NoGate
  Calls = {c1, c2, c3}
  NoCall = NoCall
  Payloads = {p1}
  HostKeeps = {FALSE}
  Disturbances = {"unsaved"}
CHECK_DEADLOCK FALSE
SYMMETRY Interchangeable
PROPERTY ArmedByBound
