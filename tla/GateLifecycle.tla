--------------------------- MODULE GateLifecycle ---------------------------
(***************************************************************************)
(* What a gate session promises: the transition map of                     *)
(* service/gate/state-machine.ts, with nothing of how sessions are stored. *)
(* No code consults that map at run time; GateStore is shown to respect it *)
(* when its calls do not overlap, and shown where it does not.             *)
(***************************************************************************)
CONSTANT Sids            \* gate session identifiers ("cg_ses_...")

VARIABLE status          \* the status of each session, "none" before it exists

TerminalStatuses == {"completed", "failed", "drained"}
ActiveStatuses == {"checked", "armed", "delivered", "approved", "recoverable"}
GateStatus == ActiveStatuses \cup TerminalStatuses

\* VALID_TRANSITIONS: the targets each status allows.
ValidTransitions ==
  [ checked     |-> {"armed", "failed"},
    armed       |-> {"delivered", "recoverable", "completed", "failed"},
    delivered   |-> {"approved", "completed", "armed"},
    approved    |-> {"completed"},
    recoverable |-> {"armed", "delivered"},
    completed   |-> {},
    failed      |-> {},
    drained     |-> {} ]

Init == status = [s \in Sids |-> "none"]

\* A session is created by a check, follows the map, or is drained as stale
\* ("any active -> drained").
Allowed(from, to) ==
  \/ from = "none" /\ to = "checked"
  \/ from \in GateStatus /\ to \in ValidTransitions[from]
  \/ from \in ActiveStatuses /\ to = "drained"

\* One step may move several sessions: a purge drains all the stale ones.
Next ==
  /\ status' \in [Sids -> GateStatus \cup {"none"}]
  /\ \A s \in Sids : status'[s] # status[s] => Allowed(status[s], status'[s])

Spec == Init /\ [][Next]_status
=============================================================================
