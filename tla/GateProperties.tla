-------------------------- MODULE GateProperties ---------------------------
(***************************************************************************)
(* What the gate store should guarantee.                                   *)
(***************************************************************************)
EXTENDS GateStore

Stages == {"idle", "reconcile", "run", "purged", "compact", "sync", "archive"}

\* A check carries its task id through its loads, the compactor the session it
\* archives.
Jobs == [kind : {"call", "purge", "drain", "create"}, arg : TaskArg]
          \cup [kind : {"compact"}, arg : Sids]

\* Every variable keeps its shape; in particular no handler invents a status.
StoreTypeOK ==
  /\ db \in [Sids -> Row]
  /\ active \in SUBSET Sids
  /\ audits \in [Sids -> Nat]
  /\ archived \in SUBSET Sids
  /\ now \in Nat
  /\ ledger \in [Sids -> {"free", "owed", "paid"}]
CallTypeOK ==
  /\ pc \in [Procs -> Stages]
  /\ job \in [Procs -> Jobs]
  /\ mem \in [Procs -> Store]
  /\ \A p \in Procs : pc[p] \in {"compact", "sync", "archive"}
                        => job[p].kind = "compact"
TypeOK == StoreTypeOK /\ CallTypeOK

-----------------------------------------------------------------------------
(* Facts about every copy of every row: the stored one and those in memory. *)
(* They survive overlapping calls, lost updates, crashes, failed reads and  *)
(* the compactor, since each of those moves whole rows.                     *)

EveryRow(P(_)) ==
  \A s \in Sids : P(db[s]) /\ \A p \in Procs : P(mem[p].rows[s])

\* A session that is approved, completed or failed carries consumed_at, and so
\* can neither be completed again nor drained as unconsumed.
DecidedRow(r) ==
  r.status \in {"approved", "completed", "failed"} => r.consumed
DecidedIsConsumed == EveryRow(DecidedRow)

\* A session still open for work carries no consumed_at: no handler takes it
\* for a finished one.
OpenRow(r) ==
  r.status \in {"none", "checked", "armed", "delivered", "recoverable"}
     => ~r.consumed
OpenIsUnconsumed == EveryRow(OpenRow)

\* A row that says an approval is required and that the session completed
\* names the approver.
SignedRow(r) == r.approval /\ r.status = "completed" => r.approver
CompletedIsSigned == EveryRow(SignedRow)

\* A session completed by complete or approve, or archived by the compactor,
\* has its completion record in gate_audit_history, in every copy.
AuditedRow(r, s) == r.status \in {"completed", "archived"} => audits[s] > 0
CompletedIsAudited ==
  \A s \in Sids : /\ AuditedRow(db[s], s)
                  /\ \A p \in Procs : AuditedRow(mem[p].rows[s], s)

-----------------------------------------------------------------------------
(* Facts that need calls not to overlap *)

\* The store implements the lifecycle; the compactor's "archived" is a
\* completed session seen later.
LifecycleStatus ==
  [s \in Sids |-> IF db[s].status = "archived" THEN "completed"
                                               ELSE db[s].status]
Lifecycle == INSTANCE GateLifecycle WITH status <- LifecycleStatus
ImplementsLifecycle == Lifecycle!Spec

Overdue(r) ==
  \/ r.status = "checked" /\ now - r.created > CheckedTTL
  \/ r.status = "armed" /\ now - RefTime(r) > ArmedTTL
  \/ r.status = "delivered" /\ now - r.created > DeliveredTTL

Drains(s) == db[s].status # "drained" /\ db'[s].status = "drained"

\* A session is drained only once its age is past the threshold of its status.
OnlyStaleDrained == [][\A s \in Sids : Drains(s) => Overdue(db[s])]_vars

\* A checked or armed session is never drained without its archive record in
\* gate_drained_sessions.
DrainedIsArchived ==
  [][\A s \in Sids : Drains(s) /\ db[s].status \in {"checked", "armed"}
                       => s \in archived]_vars

\* A session is completed, and recorded as completed, at most once.
CompletedOnce == \A s \in Sids : audits[s] <= 1

\* A session armed by an agent that is not exempt completes only after an
\* approval.
ApprovalOwedIsPaid ==
  \A s \in Sids : db[s].status \in {"completed", "archived"}
                    => ledger[s] # "owed"

\* At most one session of a task is open for work.
OneSessionPerTask ==
  \A s, u \in Sids :
    /\ db[s].status \in {"armed", "recoverable"}
    /\ db[u].status \in {"armed", "recoverable"}
    /\ db[s].task \in Tasks /\ db[s].task = db[u].task
    => s = u

-----------------------------------------------------------------------------
(* Liveness *)

\* A call that was begun runs to its end; agents keep asking for checks, and
\* chat messages keep triggering the startup cleanup.
Underway(p) == Continue(p) \/ Return(p) \/ (job[p] # Idle /\ Load(p))
Fairness ==
  \A p \in Procs : /\ WF_vars(Underway(p))
                   /\ SF_vars(CheckNoTask(p))
                   /\ SF_vars(Startup(p))
FairSpec == Spec /\ Fairness

\* A session armed for longer than its threshold is eventually finished,
\* rejected by its owner's next step, or drained by a check.
OverdueArmed(s) == db[s].status = "armed" /\ Overdue(db[s])
StaleArmedEnds == \A s \in Sids : OverdueArmed(s) ~> ~OverdueArmed(s)

\* A delivered session nobody reviews is eventually drained.
OverdueDelivered(s) == db[s].status = "delivered" /\ Overdue(db[s])
StaleDeliveredEnds ==
  \A s \in Sids : OverdueDelivered(s) ~> ~OverdueDelivered(s)
=============================================================================
