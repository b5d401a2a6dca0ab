SPECIFICATION Spec
CONSTANTS
  orchestrator = orchestrator
  Callers = {orchestrator, coder, tester}
  NoCaller = NoCaller
  Parent <- Dispatched
  Privileged = {orchestrator}
  Gates = {g1, g2}
  NoGate = NoGate
  Calls = {c1, c2, c3}
  NoCall = NoCall
  Payloads = {p1}
  HostKeeps = {TRUE, FALSE}
  Disturbances = {"interrupt", "statement", "unsaved"}
CHECK_DEADLOCK FALSE
SYMMETRY Interchangeable
INVARIANTS
  TypeOK
  BoundToConfirmer
PROPERTIES
  BindingNeverMoves
  ResolvesOwn
