---------------------------- MODULE MCGateRaces -----------------------------
(* Two processes whose calls overlap in any order.                         *)
EXTENDS GateProperties, TLC

CONSTANTS mcp, hook      \* the two processes

TwoProcesses == {mcp, hook}

\* Every operation, bulk review apart, is offered to both.
AllButBulk == [p \in TwoProcesses |-> Operations \ {"bulk"}]

\* One process works, completes and compacts while the other one reviews.
WorkAndReview ==
  [p \in TwoProcesses |->
     IF p = mcp THEN {"check", "confirm", "submit", "complete"}
                ELSE {"approve"}]

\* The whole work on a session, against its review and every cleanup.
WorkAndUpkeep ==
  [p \in TwoProcesses |->
     IF p = mcp THEN {"check", "confirm", "submit", "complete", "retry"}
                ELSE {"approve", "bulk", "purge", "startup"}]

AnySession == Permutations(Sids)
=============================================================================
