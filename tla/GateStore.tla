----------------------------- MODULE GateStore -----------------------------
(***************************************************************************)
(* The compliance gate's session store.  Every handler of the gate (an MCP *)
(* tool, a plugin hook, a git hook, a script) reads the whole store from   *)
(* SQLite, works on its copy and writes the whole copy back; several       *)
(* processes do so at once.  Steps are the statements and transactions     *)
(* other processes can come between.                                       *)
(***************************************************************************)
EXTENDS Integers

CONSTANTS
  Procs,                 \* processes that open the database
  Sids,                  \* bound: gate sessions ever created
  Tasks, NoTask,         \* dispatch task ids; NoTask: task_id is null
  Agents, Exempt,        \* agents that confirm; Exempt need no approval
  Blocking,              \* rules of RULE_TABLE whose disposition is hard_block
  Offers,                \* the operations each process runs
  Overlap,               \* TRUE: calls of different processes may overlap
  Faults,                \* "crash": a process may die; "load": a read may fail
  DeliveredTTL, StartupTTL, ArmedTTL, CheckedTTL,   \* stale thresholds
  Never,                 \* a null timestamp
  MaxNow,                \* bound: clock ticks
  MaxAudits              \* bound: completion records of one session

Operations == {"check", "confirm", "submit", "approve", "complete", "retry",
               "bulk", "drain", "purge", "startup"}
Policies == {"mcp-confirm-block", "mcp-complete-eslint", "mcp-complete-tsc",
             "mcp-complete-artifact"}

ASSUME GateStoreAssumptions ==
  /\ NoTask \notin Tasks
  /\ Exempt \subseteq Agents
  /\ Blocking \subseteq Policies
  /\ Offers \in [Procs -> SUBSET Operations]
  /\ Overlap \in BOOLEAN
  /\ Faults \subseteq {"crash", "load"}
  /\ DeliveredTTL \in Nat /\ StartupTTL \in Nat
  /\ ArmedTTL \in Nat /\ CheckedTTL \in Nat
  /\ Never \notin Nat
  /\ MaxNow \in Nat /\ MaxAudits \in Nat

VARIABLES
  db,        \* gate_sessions: one row per session
  active,    \* gate_store_meta.active_sessions
  audits,    \* completion records in gate_audit_history, per session
  archived,  \* gate_drained_sessions: sessions with an archive record
  now,       \* the clock
  pc,        \* where each process is inside its call
  job,       \* which of a call's loads a process is at, and its arguments
  mem,       \* the copy of the store each process works on
  ledger     \* history: the approval each session needed and was given

vars == <<db, active, audits, archived, now, pc, job, mem, ledger>>

-----------------------------------------------------------------------------
(* Rows and stores *)

Terminal == {"completed", "failed", "drained"}
Live == {"armed", "delivered", "approved"}
Status == Live \cup Terminal \cup {"none", "checked", "recoverable", "archived"}
Time == Nat \cup {Never}

\* The columns the handlers decide by; "none" marks a row that does not exist.
Row == [status : Status, consumed : BOOLEAN, passed : BOOLEAN,
        approval : BOOLEAN, approver : BOOLEAN, task : Tasks \cup {NoTask},
        created : Nat, confirmed : Time, submitted : Time]

NoRow == [status |-> "none", consumed |-> FALSE, passed |-> FALSE,
          approval |-> FALSE, approver |-> FALSE, task |-> NoTask,
          created |-> 0, confirmed |-> Never, submitted |-> Never]

Store == [rows : [Sids -> Row], active : SUBSET Sids]
EmptyStore == [rows |-> [s \in Sids |-> NoRow], active |-> {}]

Present(rows) == {s \in Sids : rows[s].status # "none"}
Drained(rows, S) ==
  [s \in Sids |-> IF s \in S THEN [rows[s] EXCEPT !.status = "drained"]
                             ELSE rows[s]]

\* ses.confirmed_at || ses.created_at
RefTime(r) == IF r.confirmed # Never THEN r.confirmed ELSE r.created

\* Mutant of StaleArmed: ages an armed session from its creation.
StaleArmedByCreation(r) ==
  r.status = "armed" /\ ~r.consumed /\ now - r.created > ArmedTTL

StaleArmed(r) ==
  r.status = "armed" /\ ~r.consumed /\ now - RefTime(r) > ArmedTTL
StaleChecked(r) ==
  r.status = "checked" /\ r.confirmed = Never /\ now - r.created > CheckedTTL
StaleSubmitted(r) ==
  /\ r.status \in {"delivered", "approved"}
  /\ r.submitted # Never /\ now - r.submitted > DeliveredTTL

-----------------------------------------------------------------------------
(* Loading: read everything, then reconcile the active list *)

Unusable(r) == r.status \in Terminal \cup {"none"} \/ r.consumed
Kept(st) == {s \in st.active : ~Unusable(st.rows[s])}
Fresh(st) == {s \in Kept(st) : ~StaleArmed(st.rows[s])}
Working(st) == {s \in Sids : st.rows[s].status \in Live /\ ~st.rows[s].consumed}

Reconciled(st) == [st EXCEPT !.active = Fresh(st) \cup Working(st)]
Modified(st) == Fresh(st) # st.active \/ ~(Working(st) \subseteq Fresh(st))

\* dbSaveGateStore, one transaction: every row of the copy is upserted, every
\* row the copy does not hold is marked drained.
Saved(st) ==
  [s \in Sids |->
     IF s \in Present(st.rows) THEN st.rows[s]
     ELSE IF s \in Present(db) THEN [db[s] EXCEPT !.status = "drained"]
     ELSE db[s]]

Save(st) == db' = Saved(st) /\ active' = st.active

Idle == [kind |-> "call", arg |-> NoTask]
Quiet(p) == pc[p] = "idle" /\ job[p] = Idle
MayBegin == Overlap \/ \A q \in Procs : Quiet(q)

\* The call of p ends; its copy of the store is garbage.
Finish(p) ==
  /\ pc' = [pc EXCEPT ![p] = "idle"]
  /\ job' = [job EXCEPT ![p] = Idle]
  /\ mem' = [mem EXCEPT ![p] = EmptyStore]

\* The call of p goes on with its next load of the store.
Proceed(p, kind, t) ==
  /\ pc' = [pc EXCEPT ![p] = "idle"]
  /\ job' = [job EXCEPT ![p] = [kind |-> kind, arg |-> t]]
  /\ mem' = [mem EXCEPT ![p] = EmptyStore]

Load(p) ==
  LET st == [rows |-> db, active |-> active]
  IN /\ pc[p] = "idle"
     /\ job[p] = Idle => MayBegin
     /\ mem' = [mem EXCEPT ![p] = Reconciled(st)]
     /\ pc' = [pc EXCEPT ![p] = IF Modified(st) THEN "reconcile" ELSE "run"]
     /\ UNCHANGED <<db, active, audits, archived, now, job, ledger>>

\* dbLoadGateStore catches the exception and returns a store with no session.
LoadFails(p) ==
  /\ "load" \in Faults
  /\ pc[p] = "idle"
  /\ job[p] = Idle => MayBegin
  /\ mem' = [mem EXCEPT ![p] = EmptyStore]
  /\ pc' = [pc EXCEPT ![p] = "run"]
  /\ UNCHANGED <<db, active, audits, archived, now, job, ledger>>

WriteBack(p) ==
  /\ pc[p] = "reconcile"
  /\ Save(mem[p])
  /\ pc' = [pc EXCEPT ![p] = "run"]
  /\ UNCHANGED <<audits, archived, now, job, mem, ledger>>

\* A read-only caller, or a handler that refuses: nothing is stored.
Return(p) ==
  /\ pc[p] = "run" /\ job[p] = Idle
  /\ Finish(p)
  /\ UNCHANGED <<db, active, audits, archived, now, ledger>>

\* The process dies, or a save fails and the handler ignores the result.
Crash(p) ==
  /\ "crash" \in Faults
  /\ ~Quiet(p)
  /\ Finish(p)
  /\ UNCHANGED <<db, active, audits, archived, now, ledger>>

-----------------------------------------------------------------------------
(* Handlers with one load: body and save *)

InCall(p, op) == pc[p] = "run" /\ job[p] = Idle /\ op \in Offers[p]

\* Store row r for session s with active list a, and end the call.
Commit(p, s, r, a) ==
  Save([rows |-> [mem[p].rows EXCEPT ![s] = r], active |-> a])

\* History: an agent that is not exempt armed s; somebody approved s.
Owe(s) == ledger' = [ledger EXCEPT ![s] = IF @ = "paid" THEN @ ELSE "owed"]
Pay(s) == ledger' = [ledger EXCEPT ![s] = "paid"]

Confirm(p, s, agent, t) ==
  LET r == mem[p].rows[s]
      armed == [r EXCEPT !.status = "armed",
                         !.approval = agent \notin Exempt,
                         !.task = IF t = NoTask THEN r.task ELSE t,
                         !.confirmed = now]
      listed == {a \in mem[p].active :
                   mem[p].rows[a].status = "armed" /\ ~mem[p].rows[a].consumed}
  IN /\ InCall(p, "confirm")
     /\ r.status = "checked"
     /\ r.passed \/ "mcp-confirm-block" \notin Blocking
     /\ Commit(p, s, armed, listed \cup {s})
     /\ IF agent \in Exempt THEN UNCHANGED ledger ELSE Owe(s)
     /\ Finish(p)
     /\ UNCHANGED <<audits, archived, now>>

Submit(p, s, outcome) ==
  LET r == mem[p].rows[s]
  IN /\ InCall(p, "submit")
     /\ r.status = "armed"
     /\ Commit(p, s, [r EXCEPT !.status = outcome, !.submitted = now],
               mem[p].active)
     /\ Finish(p)
     /\ UNCHANGED <<audits, archived, now, ledger>>

\* Mutant of Reject: takes back an approval already given.
RejectApproved(p, s) ==
  LET r == mem[p].rows[s]
  IN /\ InCall(p, "approve")
     /\ r.status \in {"delivered", "approved"}
     /\ Commit(p, s, [r EXCEPT !.status = "armed", !.submitted = Never],
               mem[p].active)
     /\ Finish(p)
     /\ UNCHANGED <<audits, archived, now, ledger>>

Reject(p, s) ==
  LET r == mem[p].rows[s]
  IN /\ InCall(p, "approve")
     /\ r.status = "delivered"
     /\ Commit(p, s, [r EXCEPT !.status = "armed", !.submitted = Never],
               mem[p].active)
     /\ Finish(p)
     /\ UNCHANGED <<audits, archived, now, ledger>>

\* Mutant of Approved: consumed_at is left for complete to write.
ApprovedOpen(r) == [r EXCEPT !.status = "approved", !.approver = TRUE]

Approved(r) == [r EXCEPT !.status = "approved", !.approver = TRUE,
                         !.consumed = TRUE]

\* Approval without an execution summary.
Approve(p, s) ==
  LET r == mem[p].rows[s]
  IN /\ InCall(p, "approve")
     /\ r.status = "delivered"
     /\ Commit(p, s, Approved(r), mem[p].active)
     /\ Pay(s)
     /\ Finish(p)
     /\ UNCHANGED <<audits, archived, now>>

\* Approval with an execution summary completes the session at once.
ApproveComplete(p, s) ==
  LET r == mem[p].rows[s]
  IN /\ InCall(p, "approve")
     /\ r.status = "delivered"
     /\ audits[s] < MaxAudits
     /\ Commit(p, s, [Approved(r) EXCEPT !.status = "completed"],
               mem[p].active \ {s})
     /\ audits' = [audits EXCEPT ![s] = @ + 1]
     /\ Pay(s)
     /\ Finish(p)
     /\ UNCHANGED <<archived, now>>

Retry(p, s, t) ==
  LET r == mem[p].rows[s]
  IN /\ InCall(p, "retry")
     /\ r.status = "recoverable"
     /\ Commit(p, s, [r EXCEPT !.status = "armed", !.consumed = FALSE,
                               !.confirmed = now,
                               !.task = IF t = NoTask THEN r.task ELSE t],
               mem[p].active \cup {s})
     /\ Finish(p)
     /\ UNCHANGED <<audits, archived, now, ledger>>

-----------------------------------------------------------------------------
(* complete: checks, then the compactor *)

\* Mutants of CompleteAllowed: an approval is not asked for; consumed_at is not
\* looked at.
CompleteUnsigned(r) == r.status \in {"armed", "approved"} /\ ~r.consumed
CompleteIfApproved(r) == IF r.approval THEN r.approver ELSE r.status = "armed"

CompleteAllowed(r) ==
  /\ IF r.approval THEN r.status = "approved" ELSE r.status = "armed"
  /\ ~r.consumed

\* ESLint or TypeScript errors under a blocking rule.
CompleteFails(p, s) ==
  LET r == mem[p].rows[s]
  IN /\ InCall(p, "complete")
     /\ CompleteAllowed(r)
     /\ {"mcp-complete-eslint", "mcp-complete-tsc"} \cap Blocking # {}
     /\ Commit(p, s, [r EXCEPT !.status = "failed", !.consumed = TRUE],
               mem[p].active \ {s})
     /\ Finish(p)
     /\ UNCHANGED <<audits, archived, now, ledger>>

\* retry_count is no column of gate_sessions: every load starts it at zero.
LoadedRetries == 0
ArtifactRetryLimit == 3

\* HANDOVER.md or TASK_LOG.md is missing under a blocking rule.
CompleteIncomplete(p, s) ==
  LET r == mem[p].rows[s]
      exhausted == LoadedRetries + 1 > ArtifactRetryLimit
  IN /\ InCall(p, "complete")
     /\ CompleteAllowed(r)
     /\ "mcp-complete-artifact" \in Blocking
     /\ Commit(p, s,
               [r EXCEPT !.status = IF exhausted THEN "failed"
                                                 ELSE "recoverable",
                         !.consumed = exhausted],
               IF exhausted THEN mem[p].active \ {s} ELSE mem[p].active)
     /\ Finish(p)
     /\ UNCHANGED <<audits, archived, now, ledger>>

Complete(p, s) ==
  LET r == mem[p].rows[s]
  IN /\ InCall(p, "complete")
     /\ CompleteAllowed(r)
     /\ audits[s] < MaxAudits
     /\ Commit(p, s, [r EXCEPT !.status = "completed", !.consumed = TRUE],
               mem[p].active \ {s})
     /\ audits' = [audits EXCEPT ![s] = @ + 1]
     /\ pc' = [pc EXCEPT ![p] = "compact"]
     /\ job' = [job EXCEPT ![p] = [kind |-> "compact", arg |-> s]]
     /\ UNCHANGED <<archived, now, mem, ledger>>

\* readHotState: the rows the compactor will write back.
CompactRead(p) ==
  /\ pc[p] = "compact"
  /\ mem' = [mem EXCEPT ![p].rows = db]
  /\ pc' = [pc EXCEPT ![p] = "sync"]
  /\ UNCHANGED <<db, active, audits, archived, now, job, ledger>>

\* Mutant of HotRow: stores the compactor's own word for an open session.
HotRowActive(r) == [NoRow EXCEPT !.status = "active", !.task = r.task,
                                 !.created = r.created]

\* INSERT OR REPLACE names a few columns; every other one falls to its default.
HotRow(r) == [NoRow EXCEPT !.status = r.status, !.task = r.task,
                           !.created = r.created]
RecentRow(r) == [NoRow EXCEPT !.status = r.status, !.consumed = r.consumed,
                              !.created = r.created]

CompactSync(p) ==
  /\ pc[p] = "sync"
  /\ db' = [s \in Sids |->
              LET r == mem[p].rows[s] IN
              IF r.status \in {"armed", "checked", "delivered"} THEN HotRow(r)
              ELSE IF r.status = "completed" THEN RecentRow(r)
              ELSE db[s]]
  /\ pc' = [pc EXCEPT ![p] = "archive"]
  /\ UNCHANGED <<active, audits, archived, now, job, mem, ledger>>

\* Mutant of CompactArchive: archives every consumed session.
CompactArchiveConsumed(p) ==
  /\ pc[p] = "archive"
  /\ db' = [s \in Sids |-> IF db[s].consumed
                           THEN [db[s] EXCEPT !.status = "archived"] ELSE db[s]]
  /\ Finish(p)
  /\ UNCHANGED <<active, audits, archived, now, ledger>>

\* dbMarkSessionArchived
CompactArchive(p) ==
  /\ pc[p] = "archive"
  /\ db' = [db EXCEPT ![job[p].arg].status = "archived"]
  /\ Finish(p)
  /\ UNCHANGED <<active, audits, archived, now, ledger>>

-----------------------------------------------------------------------------
(* check: four loads, one after the other *)

Conflict(st, t) ==
  \E s \in Sids : /\ st.rows[s].task = t
                  /\ st.rows[s].status \in {"armed", "recoverable"}
                  /\ ~st.rows[s].consumed

\* With a task id the conflict check loads first and may refuse (Return).
CheckConflict(p, t) ==
  /\ InCall(p, "check")
  /\ ~Conflict(mem[p], t)
  /\ Proceed(p, "purge", t)
  /\ UNCHANGED <<db, active, audits, archived, now, ledger>>

CheckNoTask(p) ==
  /\ Quiet(p) /\ MayBegin /\ "check" \in Offers[p]
  /\ Proceed(p, "purge", NoTask)
  /\ UNCHANGED <<db, active, audits, archived, now, ledger>>

\* Mutant of ArchiveStale: no archive record is written.
DropStale(p, S) ==
  /\ mem' = [mem EXCEPT ![p] =
               [rows |-> [s \in Sids |-> IF s \in S THEN NoRow ELSE @.rows[s]],
                active |-> @.active \ S]]
  /\ pc' = [pc EXCEPT ![p] = "purged"]
  /\ UNCHANGED <<db, active, audits, archived, now, job, ledger>>

\* Archive the stale sessions S, each in a statement of its own, and drop them
\* from the copy; the save that follows marks them drained.
ArchiveStale(p, S) ==
  /\ archived' = archived \cup S
  /\ mem' = [mem EXCEPT ![p] =
               [rows |-> [s \in Sids |-> IF s \in S THEN NoRow ELSE @.rows[s]],
                active |-> @.active \ S]]
  /\ pc' = [pc EXCEPT ![p] = "purged"]
  /\ UNCHANGED <<db, active, audits, now, job, ledger>>

\* Mutant of StaleForCheck: armed sessions are left alone.
StaleCheckedOnly(st) == {s \in Sids : StaleChecked(st.rows[s])}

StaleForCheck(st) ==
  {s \in Sids : StaleArmed(st.rows[s]) \/ StaleChecked(st.rows[s])}

CheckPurge(p) ==
  LET S == StaleForCheck(mem[p])
  IN /\ pc[p] = "run" /\ job[p].kind = "purge"
     /\ IF S # {} THEN ArchiveStale(p, S)
        ELSE /\ Proceed(p, "drain", job[p].arg)
             /\ UNCHANGED <<db, active, audits, archived, now, ledger>>

\* compliance_gate_purge keeps an armed session that has no confirmed_at.
StaleForTool(st) ==
  {s \in StaleForCheck(st) :
     st.rows[s].status = "armed" => st.rows[s].confirmed # Never}

PurgeTool(p) ==
  /\ InCall(p, "purge")
  /\ StaleForTool(mem[p]) # {}
  /\ ArchiveStale(p, StaleForTool(mem[p]))

PurgeSave(p) ==
  /\ pc[p] = "purged"
  /\ Save(mem[p])
  /\ IF job[p].kind = "purge" THEN Proceed(p, "drain", job[p].arg)
                              ELSE Finish(p)
  /\ UNCHANGED <<audits, archived, now, ledger>>

\* The columns drain.ts inserts into gate_audit_history, and those it has.
DrainColumns == {"session_id", "task_desc", "reason", "drain_type", "snapshot",
                 "archived_at"}
AuditColumns == {"id", "session_id", "task_description", "plan_summary",
                 "agent", "task_id", "confirmed_at", "consumed_at",
                 "execution_summary", "gate_status", "compactor_event",
                 "archive_path"}

\* The transaction inserts a record and updates the row of every session of S;
\* an unknown column makes the first insert throw and rolls it back.
DrainTransaction(S) ==
  IF DrainColumns \subseteq AuditColumns THEN Drained(db, S) ELSE db

Drain(p) ==
  LET S == StaleForCheck(mem[p])
             \cup {s \in Sids : StaleSubmitted(mem[p].rows[s])}
  IN /\ InCall(p, "drain") \/ (pc[p] = "run" /\ job[p].kind = "drain")
     /\ db' = DrainTransaction(S)
     /\ IF job[p].kind = "drain" THEN Proceed(p, "create", job[p].arg)
                                 ELSE Finish(p)
     /\ UNCHANGED <<active, audits, archived, now, ledger>>

\* The new session; its id is the clock in milliseconds, taken as fresh.
Create(p, s, passed) ==
  LET r == [NoRow EXCEPT !.status = "checked", !.passed = passed,
                         !.task = job[p].arg, !.created = now]
  IN /\ pc[p] = "run" /\ job[p].kind = "create"
     /\ s \notin Present(db)
     /\ Commit(p, s, r, mem[p].active)
     /\ Finish(p)
     /\ UNCHANGED <<audits, archived, now, ledger>>

\* Bound: no identifier of Sids is left.
CreateExhausted(p) ==
  /\ pc[p] = "run" /\ job[p].kind = "create"
  /\ Present(db) = Sids
  /\ Finish(p)
  /\ UNCHANGED <<db, active, audits, archived, now, ledger>>

-----------------------------------------------------------------------------
(* Operations that update rows in place *)

\* dbAtomicUpdateGateSession: whatever the row's status; `consumed_at: null`
\* of a rejection leaves the column as it is (`??`).
BulkReview(p, s, status) ==
  /\ Quiet(p) /\ MayBegin /\ "bulk" \in Offers[p]
  /\ s \in Present(db)
  /\ db' = [db EXCEPT ![s].status = status,
                      ![s].consumed = @ \/ status # "armed"]
  /\ IF status = "armed" THEN UNCHANGED ledger ELSE Pay(s)
  /\ UNCHANGED <<active, audits, archived, now, pc, job, mem>>

GateSessionColumns == {"status", "armed_at", "created_at", "consumed_at"}

\* Mutant of StartupDelivered: the test of consumed_at is inverted.
StartupConsumed ==
  {s \in Sids : /\ db[s].status \in {"delivered", "approved"}
                /\ db[s].consumed
                /\ now - db[s].created > DeliveredTTL}

\* Steps 2 and 3 of the startup cleanup.  Step 3 names a column confirmed_at
\* that gate_sessions does not have, so its statement throws.
StartupDelivered ==
  {s \in Sids : /\ db[s].status \in {"delivered", "approved"}
                /\ ~db[s].consumed
                /\ now - db[s].created > DeliveredTTL}
StartupArmed ==
  IF "confirmed_at" \in GateSessionColumns
  THEN {s \in Sids : /\ db[s].status = "armed" /\ ~db[s].consumed
                     /\ now - RefTime(db[s]) > StartupTTL}
  ELSE {}

Startup(p) ==
  /\ Quiet(p) /\ MayBegin /\ "startup" \in Offers[p]
  /\ db' = Drained(db, StartupDelivered \cup StartupArmed)
  /\ UNCHANGED <<active, audits, archived, now, pc, job, mem, ledger>>

Tick ==
  /\ now < MaxNow
  /\ now' = now + 1
  /\ UNCHANGED <<db, active, audits, archived, pc, job, mem, ledger>>

-----------------------------------------------------------------------------
Init ==
  /\ db = [s \in Sids |-> NoRow]
  /\ active = {}
  /\ audits = [s \in Sids |-> 0]
  /\ archived = {}
  /\ now = 0
  /\ pc = [p \in Procs |-> "idle"]
  /\ job = [p \in Procs |-> Idle]
  /\ mem = [p \in Procs |-> EmptyStore]
  /\ ledger = [s \in Sids |-> "free"]

TaskArg == Tasks \cup {NoTask}

Handler(p) ==
  \/ \E s \in Sids, agent \in Agents, t \in TaskArg : Confirm(p, s, agent, t)
  \/ \E s \in Sids, outcome \in {"delivered", "recoverable"} :
       Submit(p, s, outcome)
  \/ \E s \in Sids : Reject(p, s)
  \/ \E s \in Sids : Approve(p, s)
  \/ \E s \in Sids : ApproveComplete(p, s)
  \/ \E s \in Sids, t \in TaskArg : Retry(p, s, t)
  \/ \E s \in Sids : CompleteFails(p, s)
  \/ \E s \in Sids : CompleteIncomplete(p, s)
  \/ \E s \in Sids : Complete(p, s)
  \/ \E t \in Tasks : CheckConflict(p, t)
  \/ PurgeTool(p)

\* The steps of a call that is under way, whatever the caller asked for.
Continue(p) ==
  \/ WriteBack(p)
  \/ CompactRead(p) \/ CompactSync(p) \/ CompactArchive(p)
  \/ CheckPurge(p) \/ PurgeSave(p) \/ Drain(p)
  \/ \E s \in Sids, passed \in BOOLEAN : Create(p, s, passed)
  \/ CreateExhausted(p)

Begin(p) ==
  \/ CheckNoTask(p)
  \/ \E s \in Sids, status \in {"armed", "approved", "completed"} :
       BulkReview(p, s, status)
  \/ Startup(p)

Next ==
  \/ \E p \in Procs : \/ Load(p) \/ LoadFails(p) \/ Return(p) \/ Crash(p)
                      \/ Handler(p) \/ Continue(p) \/ Begin(p)
  \/ Tick

Spec == Init /\ [][Next]_vars
=============================================================================
