--------------------------- MODULE MCGateCallers ---------------------------
(* An orchestrator and the agents it dispatched.                           *)
EXTENDS GateCallContext, TLC

CONSTANTS orchestrator

Dispatched ==
  [s \in Callers |-> IF s = orchestrator THEN NoCaller ELSE orchestrator]

Interchangeable ==
  Permutations(Calls) \cup Permutations(Gates)
    \cup Permutations(Callers \ {orchestrator})
=============================================================================
