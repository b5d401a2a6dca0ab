---------------------------- MODULE MCGateSerial ----------------------------
(* The usual deployment: calls follow one another and never overlap.       *)
EXTENDS GateProperties, TLC

CONSTANT mcp             \* the one process that serves the calls

OneProcess == {mcp}
AllButBulk == [p \in OneProcess |-> Operations \ {"bulk"}]
AnySession == Permutations(Sids)
=============================================================================
