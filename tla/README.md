# A TLA+ verification of the OpenCode agent-governance framework

The framework under `.opencode/` makes coding agents work through a gate:
before an agent edits files it asks for a *gate session*, arms it with a plan,
submits what it did, has it reviewed, and completes it.  This project models
the parts of that machinery whose correctness depends on the order in which
several processes touch one SQLite database, checks them with TLC, and proves
the main invariants with TLAPS.

All paths below are relative to `.opencode/` in the repository unless they say
otherwise; `src/` in `PROJECT.json` is the repository root.

## 1. The system

### Processes and shared state

One SQLite database (WAL mode) is the single source of truth.  It is opened by

- the OpenCode plugin (`plugins/session.ts` and `plugins/plugin-handlers`),
  which runs hooks before and after every tool call and on every chat message;
- the MCP servers (`scripts/mcp-tools/compliance-gate.ts` and others), each a
  process of its own;
- the dispatch command line (`scripts/command-tools/dispatch-subagent.ts`);
- git hooks and maintenance scripts.

Inside a process the code is synchronous (`bun:sqlite` has no asynchronous
calls), so a function runs to its end.  Between processes nothing but SQLite's
own locking keeps order: one statement, or one `transaction(...)`, is atomic,
and everything else interleaves.  A handler that reads in one statement and
writes in another can be overtaken between them, and a process can die there.

### Components

| component | code | state | operations |
|---|---|---|---|
| gate lifecycle | `service/gate/state-machine.ts` | the transition map (consulted by no code at run time) | |
| gate store | `service/gate/store-crud.ts`, `lib/db-state-manager.ts`, `service/gate/mcp-*.ts`, `service/gate/drain.ts`, `service/session/lifecycle.ts` | `gate_sessions`, `gate_store_meta`, `gate_audit_history`, `gate_drained_sessions` | check, confirm, submit, approve/reject, complete, retry, bulk review, drain, purge, startup cleanup |
| gate call context | `service/gate/session-context-service.ts`, `plugin-handlers/before/gate-call-context.ts`, `plugin-handlers/after/gate-call-context.ts` | `gate_call_context`, the binding columns of `gate_sessions` | record, resolve, bind, compare, complete, interrupt |
| dispatch queue and grants | `service/dispatch/queue.ts`, `marker-consume.ts`, `privilege.ts`, `framework-maintenance-plan.ts`, `service/repo/grants.ts`, `scripts/command-tools/dispatch-subagent.ts` | `dispatch_queue`, `dispatch_privilege_grants`, `repo_operation_grants`, `framework_maintenance_plans` | enqueue, lease, expire; create, bind, confirm, use up a grant; declare and complete a plan |
| session registry | `service/session/session-map.ts`, `service/session/lifecycle.ts`, `service/dispatch/router.ts`, `plugins/session.ts`, `service/gate/dispatch-integrity.ts` | `session_map`, `session_events` | write, keep what was known, clean up, accept a task id |
| execution checklist | `service/gate/checklist-*.ts` | `execution_checklist_runs`, `execution_checklist_items`, `dispatch_payload_integrity` | make a run, inherit, mark, fail, advance, interrupt |
| skill gate and read audit | `service/session/skill-attest.ts`, `service/file-guard/read-audit-*.ts`, `plugin-handlers/before/skill-policy.ts` | `read_audit`, `skill_read_state` | record a read, attest, decide whether tools are open |
| anti-bypass gate | `service/enforcement/tool-tracker.ts`, `plugin-handlers/*/anti-bypass.ts`, `guidance-*` | `soft_rejections`, `tool_enforcement` (which stays empty, section 4) | count rejections, block, ask |
| file guard | `service/file-guard/execute.ts`, `backup.ts`, `lock.ts` | the guarded files, lock directories, the backups' git repository, `backup_log` | edit, delete, restore, clean up |
| state transaction | `scripts/state-transaction.ts` | state files, `.tmp` and `.prepared` files, the transaction log, `meta.revision` | prepare, commit, roll back, recovery scan |
| schema migrations | `lib/db-manager.ts` | the tables and columns of the database, `schema_version` | open: run every migration again |
| knowledge pipeline | `service/knowledge/*` | `uc7ks_pipeline_state`, `knowledge_entries` and its tables, `docs/official_docs/index.json`, its lock and temporary files | declare, search, attest, decide on a write; add an entry, materialize, retry, clean up |
| DAG archival | `service/dispatch/dag-version-manager.ts`, `scripts/nightly-compaction.ts`, `scripts/archive-dag-tasks.ts` | `Task.DAG.json`, its snapshots, changelog and index | archive finished tasks |
| sub-state store | `lib/substate-manager.ts`, `lib/state-manager.ts`, `dbWriteSubState` | `sub_state_store` | read, write, modify in a transaction |
| enforcement | `service/enforcement/rule-disposition.ts`, `exemptions.ts`, `hooks/lib/hook-layers.ts` | none of its own | decide on one call |
| permission and tool governance | `service/permission/reader.ts`, `service/tool-governance/*` | none of its own | decide on one call |
| logs and maintenance | `lib/log-manager.ts`, `lib/log-rotator.ts`, `lib/db-maintenance.ts`, `scripts/state-reconciliation.ts`, `framework-doctor.ts` | log files, reports | append, rotate, prune, report |

Components meet in the database and, where they own files (state files, backups,
the knowledge manifest, the task DAG), in the file system: a check reads the dispatch
queue to see whether its task was dispatched; completing a task consumes the
queue row and its grant; the chat-message hook binds grants, resolves sessions
and runs the startup cleanup; the compactor that runs at the end of `complete`
rewrites the rows of sessions it has nothing to do with.

### What is hard

- **Whole-store writes.**  Every gate handler loads *all* sessions, changes
  one, and writes *all* of them back; `dbSaveGateStore` then marks `drained`
  every stored row its copy does not hold.  Two overlapping calls lose each
  other's updates.
- **Several loads in one call.**  A check loads the store four times (conflict
  check, purge, drain, creation); `complete` is followed by three compactor
  transactions.
- **Partial failure.**  A load that throws returns an empty store; a save that
  fails is ignored by most handlers.
- **Columns.**  Some statements name columns the schema does not have, and
  `INSERT OR REPLACE` resets those it does not name.
- **Time.**  Sessions go stale by four different thresholds measured from three
  different timestamps.

## 2. The gate store

### Modules

| module | content |
|---|---|
| `GateLifecycle` | abstract specification: the transition map as a state machine over statuses alone |
| `GateStore` | the code: rows, loads, reconciliation, saves, every handler that changes a status, the compactor, the cleanups |
| `GateProperties` | what should hold of `GateStore`, the refinement to `GateLifecycle`, fairness and liveness |
| `MCGateSerial`, `MCGateRaces` | one process, two processes: constants for TLC |
| `GateStoreProofs` | TLAPS proofs for any number of overlapping calls |
| `GateSerialProofs` | TLAPS proofs of what holds when calls follow one another, the refinement among them |

### Correspondence

`db`, `active`, `audits` and `archived` are the tables; `mem[p]` is the store
object a handler of process `p` works on; `pc[p]` and `job[p]` say where inside
its call the process is; `ledger` is a history variable (which approvals a
session needed and was given), read by no action.

A row keeps the columns the handlers decide by: `status`, whether
`consumed_at` is set, `passed`, `approval_required`, whether an approver is
named, `task_id`, and three timestamps.  Plans, summaries, file lists, and the
checklist and call-context rows are left out; who calls is the subject of
section 3, checklists are part of section 4.

A call is a sequence of steps:

1. `Load` (`loadGateStore`): read all rows, reconcile the active list in
   memory; if that changed anything, `WriteBack` saves the whole store, as the
   load function itself does.  `LoadFails` is the `catch` that returns an
   empty store.
2. the body, one action per handler, which ends in `Commit`: `dbSaveGateStore`
   in its one transaction.  A handler that refuses takes `Return`.
3. for a check, three more loads (`CheckPurge`, `Drain`, `Create`); for
   `complete`, the compactor's `CompactRead`, `CompactSync` and
   `CompactArchive`.

`Crash` stops a call between any two steps; a save that fails and whose result
the handler ignores looks the same to everybody else.  `BulkReview` and
`Startup` update rows in place and are one step.

Three places are modelled by what they do and not by what they say: the
transaction of `service/gate/drain.ts:94` inserts columns that
`gate_audit_history` does not have and therefore always rolls back
(`DrainTransaction`); step 3 of the startup cleanup names a column
`confirmed_at` that `gate_sessions` does not have (`StartupArmed`);
`retry_count` is not persisted (`LoadedRetries`).

### Runs

| run | question | bounds |
|---|---|---|
| `GateSerial` | calls never overlap, any may crash: type correctness, refinement of `GateLifecycle`, at most one completion, only overdue sessions drained, drained ones archived | 2 sessions, 2 ticks |
| `GateRaces` | two processes overlap, crash, read in vain: `DecidedIsConsumed` | 1 session, bulk review included |
| `GateCompaction` | one process works on sessions, completes and compacts while the other reviews: `OpenIsUnconsumed`, `CompletedIsSigned`, `CompletedIsAudited` | 2 sessions |
| `GateStaleEnds` | overdue sessions end | 2 sessions, fairness |
| `GateRaceDrains` | finding: a save drains a session another process just created | |
| `GateCompactorForgets` | finding: the compactor erases `approval_required` of bystanders, and one completes unapproved | |
| `GateTwoPerTask` | finding: two sessions of one task are armed together | |

**Why the bounds are enough.**  Sessions influence each other only through
whole-store saves, the task conflict and the compactor, each of which relates
one session to another, so two sessions show every interaction.  All thresholds
are 0 and the clock ticks once: a timestamp is then either current or overdue,
the only distinction the code makes.  `MaxAudits` is one above the bound the
property allows where `CompletedOnce` is checked.  Processes are two because a
lost update, a stale decision and a compaction between two steps each need one
other process.  In `GateSerial` session names are symmetric (the runs with
liveness use no symmetry).

**Fairness** (`FairSpec`).  A call that was begun is run to its end by
synchronous code, so its steps are weakly fair.  Checks keep coming because
every agent must ask for one before it edits, and the startup cleanup is called
by the chat-message hook (`plugins/session.ts:317`), so both are strongly fair:
they are attempted again and again, and each succeeds when no other call is
under way.  Crashes and failed reads are switched off in that run, since a
process that dies each time it starts would excuse anything.

### Proofs

`GateStoreProofs` proves, for every number of processes, sessions, tasks and
agents, every rule table and every fault, under `GateStoreAssumptions` only:

- `TypeInvariant`: `Spec => []TypeOK`.
- `DecidedInvariant`: `Spec => []DecidedIsConsumed`.
- `OpenAndSignedInvariant`, if no process is offered the bulk review
  (`NoBulk`): `Spec => [](OpenIsUnconsumed /\ CompletedIsSigned)`.
- `OpenInvariant`, under `NoBulk`: `Spec => []OpenIsUnconsumed`, its first half.
- `AuditedInvariant`, under `NoBulk`: `Spec => []CompletedIsAudited`.

The argument for the second and third is the same.  Overlap destroys every
relation between *different* rows or between a row and a copy of it, but steps
move whole rows: what survives is a set `D` of acceptable rows such that every
handler turns a row of `D` into one of `D`.  `RowsIn(D)` says that every stored
row and every row in every copy is in `D`; `Inductive(D)` allows the two sets
used, `Decided` and the smaller `Good`.  `CompletedIsSigned` alone is not
inductive: a complete may only rely on the approver if the row it read was
approved, which `Good` records by keeping status, `consumed_at` and approver
together.  `NoBulk` is needed because the bulk review writes a status without
asking which one it replaces; it is a hypothesis on a constant, not on the
behaviour.  `AuditedInvariant` adds `CompactedIsAudited`: between `complete`
and the compactor's last step the session being archived already has its
record, which `CompactArchive` relies on, since it overwrites whatever status
the row has by then.

`GateSerialProofs` proves the four properties of the run `GateSerial` for every
number of processes, sessions, tasks and agents, every rule table and crashes
anywhere inside a call:

- `CompletedOnceInvariant`: `Spec => []CompletedOnce`.
- `DrainsOnlyStale`: `Spec => OnlyStaleDrained`.
- `DrainsArchived`: `Spec => DrainedIsArchived`.
- `LifecycleRefinement`: `Spec => ImplementsLifecycle`.

They assume `Serial == ~Overlap /\ NoBulk /\ "load" \notin Faults`, and each
conjunct is needed: with overlapping calls a save drains a session that another
process has just created (the finding of `GateRaceDrains`) and a completion is
written back over; the bulk review takes a completed session back to armed,
which the transition map does not allow; a load that fails leaves an empty store
whose save drains everything.  They are hypotheses on constants that the run
`GateSerial` gives the same values, so TLC and the proof speak of the same
behaviours.

The inductive invariant is `TypeOK`, `DecidedIsConsumed` and `SerialInv`: one
call at a time is under way (`Alone`); what it has in memory is what is stored,
except for the sessions its own purge took out, which are stale and archived
already, and while it compacts its session is completed (`TrueCopy`); a session
has one completion record at most, and only when it is over (`Once`).  With the
copy true, a save stores what the handler decided on, so each step makes a
stored session stay or take one move (`StoredMove`), and that is what the
refinement maps to a step of `GateLifecycle`.

Model-checked only: liveness (`StaleArmedEnds`, `StaleDeliveredEnds`), which is
out of the prover's reach.

### Other divergences

Those with a run are in `PROJECT.json` under `findings`.  Others, read in the
code and certain without a run:

- `service/gate/mcp-bulk.ts:67` can take a completed session back to armed;
  `state-machine.ts:45` allows no transition out of it.
- Approval without a summary sets `consumed_at` (`mcp-deliverables.ts:550`), so
  `complete` refuses the session, and the startup cleanup, which asks for
  `consumed_at IS NULL`, never drains it.
- `drain.ts:103` names columns `gate_audit_history` does not have; the
  transaction never commits.
- The retry limit of `mcp-complete.ts:27` is never reached, since `retry_count`
  is not a column.
- A `recoverable` session is told to "call complete() again", which refuses it;
  only `retry_confirm` leads on.
- Session ids are milliseconds (`store-crud.ts:327`); two checks in one
  millisecond share one.

## 3. Who calls the gate

### Correspondence

The MCP server is handed a tool's arguments and not the OpenCode session that
called it.  A hook before the tool leaves a row in `gate_call_context`
(`plugin-handlers/before/gate-call-context.ts`), the handler looks for the row
of its call, and a hook after the tool ends it.  `GateCallContext` models the
rows, the search, the binding and the comparison:

| variable | code |
|---|---|
| `ctx` | the pending rows of `gate_call_context`; nothing reads the others |
| `gates` | of each gate session: `status`, `parent_opencode_session_id`, `child_opencode_session_id` |
| `calls` | where each tool call is, its arguments, the identity its handler resolved |
| `server` | the call the MCP server is handling |
| `confirmers` | history: the sessions whose confirm passed a gate session's guards |

| action | code |
|---|---|
| `Before`, `After` | the two hooks |
| `Interrupt` | `handleGateSessionInterrupted`, when an OpenCode session is aborted |
| `Check` | `compliance_gate_check`; a combined call goes on as a confirm |
| `ReadConfirm`, `Bind`, `Arm` | `confirmGateSession`: the search, `bindGateParentChildSessions`, the save with `completeGateCallContextBySession` |
| `Unsaved` | the server dies after the binding, or `saveGateStore` fails, whose result `confirmGateSession` ignores |
| `ReadArgs`, `Submit`, `Approve`, `CompleteFails`, `Complete` | the other handlers: the search by argument hash, then the comparison and the new status |
| `Retry` | `retry_confirm`, which is not hooked |
| `Refuse` | every other way a handler ends |

A handler is split where the OpenCode process can come between two of its
statements and it matters: after the search for the row, and in `confirm` after
the binding.  The rest of a handler touches the gate session alone, which the
hooks do not read.  Handlers do not overlap, since one MCP server runs them one
at a time; what handlers of several servers do to each other is the subject of
`GateStore`.  `approval_required` and the clean-ups are in `GateStore` as well.
Columns that are written and never read (`interrupted_at`,
`last_submit_session_id`, `last_approve_session_id`) are left out; so is the
status `consumed` of a row, which no code writes.

External behaviour, modelled from how the code relies on it: whether the host
hands the before hook's `input` object on to the after hook, where the row's id
is left (`HostKeeps` allows both), and the server's argument parser, which drops
arguments the tool's schema does not declare.

### Properties

- `BoundToConfirmer`: a binding names a session that itself confirmed the gate
  session, and as parent the session that dispatched that one.
- `BindingNeverMoves`: once the gate session is confirmed its binding may be
  lost, to the compactor, but never passes to another session.
- `ResolvesOwn`: while the row of a call is pending, its handler takes that row
  or none, although handlers other than check and confirm search by a hash of
  the arguments, which several calls may share.
- `OnlyChildSubmits`, violated: only the bound session moves an armed session
  on.  A row whose after hook did not end it stays pending; a second call with
  the same arguments is then ambiguous, the search gives nobody, and nobody is
  compared with the binding (`mcp-deliverables.ts:200`).
- `ArmedByBound`, violated: an armed gate session is bound to the session that
  armed it, or to none.  The binding is stored before the session is, so that a
  lost save leaves it to whoever confirms next; a session nobody dispatched
  binds nothing, and arms the gate session under the earlier caller's name.

### Runs

| run | question | bounds |
|---|---|---|
| `GateCallers` | every disturbance at once: type correctness and the three properties that hold | 3 calls, 2 gate sessions, an orchestrator and two agents |
| `GateCallersUnchecked` | finding: `OnlyChildSubmits` | 4 calls, 1 gate session, no disturbance |
| `GateCallersUnsaved` | finding: `ArmedByBound` | 3 calls, 1 gate session, lost saves |

**Why the bounds are enough.**  `BoundToConfirmer` and `BindingNeverMoves` need
a check and two confirms by different agents, `ResolvesOwn` two calls with the
same arguments and one more to prepare the session: three calls.  Two agents
with one dispatcher are the fewest between which a binding could pass, and a
second gate session shows what the compactor does to bystanders.  One payload is
the worst case: any two calls of a tool on one session then share their hash.
Calls, gate sessions and agents are interchangeable, hence the symmetry.
`CHECK_DEADLOCK FALSE`: the calls are bounded and the system may simply be done.
No liveness is stated: every call may be refused.

### Proofs

`GateCallContextProofs` proves all four properties of `GateCallers` for any
number of calls, gate sessions and agents, whoever dispatched whom, any hash,
and every disturbance, from `CallContextAssumptions` alone:
`CallersTypeInvariant`, `BoundInvariant`, `BindingStays`, `ResolvesItself`.

None of them is inductive.  That a confirmation binds its own caller depends on
what it resolved some steps before, and that on what the row said when it was
found.  The inductive invariant

    IInv == TypeOK /\ RowsTrue /\ ResolvedTrue /\ BoundToConfirmer

says both: `RowsTrue`, that a pending row tells the truth about its call while
that is under way (its caller, its caller's dispatcher if it names one, its
arguments until a handler has read them; a combined call changes its tool, which
is why confirms are exempted from the last part); `ResolvedTrue`, that a confirm
which has resolved somebody has resolved its own caller.  `BindingSteps` reduces
the steps that touch a binding to three: `Bind`, the compactor's erasure, and
nothing at all.  The action properties follow from `IInv` and the step.

### Other divergences

- A combined check and confirm never binds.  `mcp-confirm.ts:86` asks for
  `tool_name = 'compliance_gate_check'`, an argument the schema of that tool
  (`compliance-gate.ts:2692`) does not declare.
- A session nobody dispatched binds nothing, so if its later calls are resolved
  they are refused for want of a binding.
- The compactor erases the bindings of every open session
  (`db-state-manager.ts:878`), whose own agents are then refused.
- `computeGateArgsHash` passes the top-level keys as the replacer of
  `JSON.stringify`, which filters nested objects by the same list: two calls
  whose deliverables differ in nested fields only share their hash.
- The session-bound branch of READ-BEFORE-APPROVE (`mcp-deliverables.ts:491`)
  is never the one that decides.

## 4. The services around a session

Six services keep rows of their own about a session and share none of them
with each other.  Each has a module; `MCSessions` checks them in one run.

### Correspondence

**`DispatchGrants`.**  `rows` is the dispatch queue: a dispatch key names at
most one row for ever, so rows, grants and plans are functions of the key, and
time is the age of the row.  A dispatch command looks for a duplicate
(`CheckDispatch`), enqueues if it found none (`Dispatch`, which may fail), and in a
third statement creates the grant the prompt asks for (`CreateGrant`), which may
fail and is only logged (`LoseGrant`).  The Task hook has three ways
to a prompt: by queue id or token (`TaskWithQueueId`), or the oldest pending one
of the agent type, which it reads (`TaskFindsPrompt`) and leases
(`TaskLeasesOldest`) in two statements.  The session plugin binds the grant of
the *only* key in flight of a child's parent (`BindGrant`); tools use it up
(`FrameworkEdit`, `CompleteMaintenance`, `RepoWrite`).  The three parts of the
queue that nothing calls any more (stale leases, marking consumed, retries) are
left out; the hook that consumed leased rows is gone, so a leased row stays.

**`SessionRegistry`.**  `sessionMap` with the order of its last writes
(`recency`, as pairs of an earlier and a later row), which decides what the
nightly compaction deletes.  Writers: `SessionCreated`,
`ChatMessage` (with the startup cleanup it runs), `RegisterDispatch` (the
router), `DeclareScope`; deleters: `Compact` and the cleanup of orphans.

**`Checklist`.**  One run per session, made by whatever touches it first, with
the set of passed items, a phase, a job and the run it inherited from.  The
phases and their items are the code's; `Tracked` limits which items a run of TLC
keeps.

**`SkillGate`.**  Files with contents, reads recorded by a hook after the read,
attestations that note the hashes first and ask the audit then, and the
decision `Valid` that opens the session's tools.

**`Guidance`.**  The soft rejections of each tool: a before hook (`Before`) lets a
call through while their number is below the threshold, or cannot be read; an
after hook (`After`) counts a result that says no, unless the tool is the question
tool.  A session's calls overlap, and its process may die with some under way.

The rest of `tool-tracker.ts` has no effect, and the module models it by that.
The `INSERT` at the head of `recordAttempt` (lines 238-245), `recordResult`
(346-353), `recordBlock` (406-413) and `rewardReport` (643-650) names sixteen
columns of `tool_enforcement` and gives fifteen values.  SQLite refuses such a
statement when it is prepared, so each of the four ends in its catch:
`recordAttempt` never says to block (`AttemptBlocks` is false), `recordResult`
never calls a result a failure (`ResultFailed` is false), `rewardReport` gives no
token.  No row exists, so the counters, their TTL, the orphaned calls, the
guidance phase, its recovery and `clear_guidance` have nothing to work on.  A
result marked as an error is for the same reason no failure, and so counts as a
rejection.

### Properties

- `HeldByOwnChild`, `OneUsableGrant`, `BudgetHonoured`, `BoundOnce`,
  `LeaseIsExclusive`: a grant is held by one child, of the session that
  dispatched it, for its budget; `OneUsableGrant` depends on grants living no
  longer than rows (`GrantsAssumption`), or an expired row would free its parent
  for a second grant.
- `NothingForgotten`: no write takes a session's job, domain or parent away
  while its row lives.
- `DispatchItemsEarned`: a dispatch item is passed by privilege, by a dispatch,
  or by inheritance from the run that dispatched this very job.
  `StopsShort`: how far a run can get.
- `OpenMeansRead`: open tools mean that the role has read each required file in
  full at some time, through edits, configuration changes and moved scopes.
- `QuestionOpen`: the question tool, to which the block's message sends the agent,
  is never blocked itself.  The check of the limit makes no exception for it
  (`before/anti-bypass.ts:72`); what keeps it open is the after hook, which looks
  at no result of it.
- `LimitHolds`: the count is read before a call and raised after it, so calls that
  overlap pass the threshold together; by how much is bounded by the calls under
  way and the counts that could not be read.
- `AttestedWasRead`, of the knowledge pipeline, is in section 8.

### Bounds

`Sessions`: two dispatch keys of one parent and a bystander, two children, two
repository and framework grants, a budget of two writes; two sessions and two
jobs on a map of two rows; a dispatcher, a worker, one job and three items, one
of each kind `StopsShort` speaks of; one reader, one file with two contents, two
scopes; one session and three tools, a threshold of two, two calls of a tool at
once (`MaxAtOnce`) and one count that cannot be read (`MaxUnread`).  Each is the
fewest with which the interaction the property is about can happen: a second key
for the choice of a key, a second child for a grant to pass to, a third row for
the compaction to delete.  The run is the sum of the six state spaces:
a behaviour chooses a service (`part`) and the others never move, so that a
property of a service is checked exactly as in a run of its own, and no product
of independent states is explored.  `CHECK_DEADLOCK FALSE`: rows and counters
are finite.  No liveness is stated: every one of these calls may be refused, and
nothing in the code tries again by itself.

## 5. Files and the schema

### Correspondence

**`StateTransaction`** has one action per file, log or database operation of
`prepare`, `commit`, `rollback` and `runRecoveryScan`, so that a process can die
(`TxnDies`, `ScanDies`) between any two, leaving a file half written, and a scan
can come in while transactions are under way.  The marker is made in two steps
(`CreateMarker`, `WriteMarker`), since `writeFileSync` truncates before it writes;
a scan that reads it in between takes it for garbage and unlinks it
(`DiscardMarker`), whether or not its transaction is alive.  The temporary file
and the marker are unlinked one after the other, and a commit may throw at the
rename or, after it, at the line in the log (`CommitThrows`).
**`AtomicFiles`** is what it promises: a transaction replaces its file once and
whole, or never touches it.  `AllOrNothing` is the refinement, for files other
than `machine.json`, whose retry replaces the temporary file by a copy of the file.

**`FileGuard`** models the guarded edit, delete and restore step by step: the
lock directory, the two looks at the file, the copy, `git add`, `git commit` in
the repository all backups share, the record, the rename, the verification, the
clean-up.  A write that throws puts the backup back (`WriteFails`).  A restore
takes no lock.

**`SchemaMigrations`** runs the statements of `initializeSchema` one by one, as
every process does each time it opens the database; a version whose statement
throws is skipped, a crash or a lock timeout may cut it short anywhere.  A
process is at a statement of a version, and knows which columns the `table_info`
of the version found missing: between that and the guarded `ALTER`s another
process may have added them.  What the migrations have to observe for an open to
repair the schema is stated as `WellOrdered`, in eight parts: what an `ALTER`
adds nothing else adds (`Unique`), its guard is before it (`GuardsSound`), its
table is there before (`TablesSound`), behind an unguarded `ALTER` nothing else
is added (`LateSound`), a column that a `CREATE TABLE IF NOT EXISTS` brings only
to a new table is tried again (`TriesSound`), a `CREATE INDEX` that may throw
hides nothing that is wanted (`IndexesSound`), the statements have their shapes
(`Shapes`) and the database had whole tables before (`OldSound`).

One `ALTER` is exempted from the first, the fourth, the fifth and the last of
these: the `Redundant` one that adds a column which the `CREATE TABLE` of its
table brings (`Genuine` are the others).  Version 29 makes `tool_enforcement` with
`last_before_at` and `last_after_at` (`lib/db-manager.ts:1998-1999`), and version 30
adds both again (2023-2024).  So version 30 throws at every open, logs itself as
SKIPPED and is never recorded; it leaves nothing missing, because the one column
that only it adds, `compliance_blocks`, comes first.

### Properties

- `CommitIsAfterRename`, `PreparedIsAccountedFor`: a commit in the log is true,
  and a prepared transaction has its marker or its end, unless a scan met the
  marker half written and removed it (`discarded`).  `OneEnd`, that no program
  logs both a commit and a rollback of one transaction, is proved (section 6).
  A rollback in the log need not be true: `RollbackIsClean` is in section 7.
- `OneInside`, `Restorable`, `ReplacedIsBackedUp`: the lock excludes, a backup on
  record can be checked out, and nothing is replaced that its backup does not
  hold, unless a restore came in after the last look.
- `OpenRepairs`: an undisturbed open repairs what crashes left undone, except in
  a version with several unguarded `ALTER`s.  `RaceIsHarmless`: two processes may
  open at once.

### Bounds

`Files`: a transaction on `machine.json` and one on another file, one retry;
two editors, a deleter and a restorer on one file; two processes that migrate a
database of version 24 to 37, with one crash or lock timeout; the knowledge index
and the archival (section 8).  As in `Sessions`, a behaviour chooses one service
(`part`).  No liveness is stated and no fairness assumed: a lock that a dead
process left is never removed, and nothing begins a recovery by itself.  TLC
evaluates `WellOrdered` for versions 24 to 37 on every run of `Files`
(`MCWellOrdered`).  That part of the run has 438 000 states of its 1.7 million.
All versions from 2 on, on a new database, are `WellOrdered` too (set
`FirstVersion` to 2 and `OldColumns` to the empty set), which with the theorems of
section 6 gives the two properties for them; their states are too many for a run
of its own, and a search of the first 14 million met no violation.

## 6. Proofs about sections 4, 5 and 8

| module | theorems | inductive invariant |
|---|---|---|
| `DispatchGrantsProofs` | `HeldInvariant`, `OneUsableInvariant`, `BudgetInvariant`, `LeaseStays`, `BindingStays` | `IInv`: types, `QueueSound` and the three invariants.  `QueueSound` says that a grant has its row, an expired row is old, and a command under way has its row and no grant yet |
| `StateTransactionProofs` | `TxnTypeInvariant`, `CommitInvariant`, `PreparedInvariant`, `OneEndInvariant`, `Refinement` | `Sound(t)` for each transaction: where its program is says whether its file is replaced and what its log has; once the log has PREPARE its marker stays until it has an end, unless a scan discarded it; the temporary file of a living transaction is its own |
| `MigrationProofs` | `MigrationsTypeInvariant`, `RepairsInvariant`, `RaceInvariant` | `MigrationsInv`: what a version lacks is ahead of every process that is in it (`LateSoundFor`, and for an undisturbed one `EarlySound`), and a version that an undisturbed process counts on is complete, or some process is in it that throws at none of its `ALTER`s (`Carried`), or its unguarded `ALTER`s were cut short (`Stuck`) |
| `SessionProofs`, guidance | `GuidanceTypeInvariant`, `LimitInvariant`, `QuestionOpenInvariant` | `GuidanceInv`: `LimitHolds` itself, and no rejection of the question tool is ever counted |
| `SessionProofs`, checklist | `ChecklistTypeInvariant`, `DispatchItemsInvariant`, `StopsShortInvariant` | `RunsSound`: a run is not past a phase whose item is open, an item no tool marks stays open, and a dispatch item that is passed was earned, by the run itself or by the one it took it over from |
| `SessionProofs`, skill gate | `SkillTypeInvariant`, `OpenMeansReadInvariant` | `SkillInv`: a file the audit has as read in full, and one an attestation lists, is `Known`: the role has read it in full at some time |
| `SessionProofs`, session map | `RegistryTypeInvariant`, `NothingForgottenStays` | `MapSound`: rows are rows, and a write keeps what it is not given (`Kept`); `OrderSound`: the order of the last writes is a linear order of exactly the rows there are |
| `SessionProofs`, knowledge pipeline | `KnowledgeTypeInvariant`, `AttestedWasReadInvariant` | `KnowledgeInv`: a row with an attestation, and an attestation checked and not stored yet, rest on files that a session of its agent has read, which name the mandatory ones if that was asked (`StageSound`, `AttestSound`) |
| `SessionProofs`, composition | `SessionsTypeInvariant` | none of its own: a behaviour of `MCSessions` is a behaviour of every service (`EachServiceRuns`), so their type theorems apply |
| `FilesProofs`, file guard | `FileGuardTypeInvariant`, `InsideInvariant`, `RestorableInvariant`, `ReplacedInvariant` | `GitSound`: between its copy and its record a backup is in the index, then in the last commit.  `CopySound`: the copy is the file, or the operation has been told |
| `FilesProofs`, knowledge index | `IndexTypeInvariant`, `NeverOlderStays`, `RetryStays` | `IndexInv`: unless a lock has been written over, one process at most is inside, the lock is there while it is, what it has read contains what was published, and a retry inside has its own lock in front of it (`Orderly`) |
| `FilesProofs`, archival | `ArchiveTypeInvariant`, `NoTaskLost` | `ArchiveInv`: unless a snapshot was written over, every task is in the file or in a snapshot, and so is every task that an archiver is about to drop from the file it writes back (`Accounted`, `Covered`) |
| `FilesProofs`, composition | `FilesTypeInvariant` | none of its own, as for `SessionsTypeInvariant` (`EachPartRuns`) |

They hold for any number of processes, sessions, keys, files and transactions,
from the modules' own assumptions; the two theorems about the repair of the
schema have `WellOrdered` as their hypothesis besides.  It is what makes them
true of these migrations: it fails for an old `dispatch_queue` without
`dispatch_key`, for which `OpenCompletes` (section 7) and `OpenRepairs` fail as
well.  The argument of `MigrationProofs` is about who completes a version.  The
process that adds a column of it has, by `Unique` and the order of the columns in
the schema (`SchemaSound`), none behind it that is there already, so it will not
throw (`AdderCarries`); another one in the version may come to throw by that
step alone (`NewTrailing`), and so leaves it to the adder.  A process leaves a
version without throwing at an `ALTER` only when the version is complete
(`LeavesLate`, `LeavesEarly`).  A fault ends this, and then nobody is undisturbed
(`VersionFaults`): the next open by a process alone begins anew.

No invariant of `Sessions` and `Files` is left to TLC alone.  What its runs show
and the proofs do not is that the interesting cases occur (each property has a
mutant of the code that breaks it) and that `WellOrdered` holds.

`OneUsableGrant` is preserved by the binding
step because a usable grant's row is in flight (`UsableIsLive`), and the binding
step asks for the only row in flight.  `Refinement` maps a transaction to
committed when its file is replaced, whatever its own program knows of it, and
to aborted when its process ends without; every other step is a stutter.

## 7. Expectations that do not hold

These definitions state what a comment or a message of the code says.  They are
in the modules and in no run; adding one to `Sessions.cfg` or `Files.cfg` makes
TLC print the steps that contradict it.

| definition | says | what happens instead |
|---|---|---|
| `LaunchedOnce` | "This prevents double-consumption" (`lib/db-manager.ts:1137`) | a prompt with a queue id is launched whether or not its row was still pending, and the prompt a bare Task loaded need not be the row it leases (set `MaxLaunches` to 2) |
| `AgentImmutable` | "agent identity preserved" (`service/session/session-map.ts:56`) | the statement writes the agent it is given |
| `AcceptedIsDispatched` | a job the check accepts was dispatched (`service/gate/dispatch-integrity.ts`) | `module_scope_declare` writes the job its caller names |
| `ChildInherits` | a child takes over its dispatcher's items (`scripts/command-tools/dispatch-subagent.ts:93`) | the anti-bypass hook has made its run before, with no job |
| `OpenMeansReadThis` | a file "has been modified since you read it" (`service/file-guard/read-audit-verify.ts:118`) | the hash is taken by a hook after the read; an edit in between is recorded as read |
| `AnswerReopens` | "Failures accumulate → gate locks → agent calls question → QoderWork answers → counters reset." (`project.config.json:1878`) | nothing that runs resets the rejections (see below), so a tool that said no twice too often stays locked for the session |
| `NoLostUpdate` | "Verify current revision hasn't changed since prepare" (`scripts/state-transaction.ts:421`) | a retry takes the new revision and keeps the old content |
| `NoOrphanIsMissed` | "Scan for orphaned .prepared markers" (`scripts/state-transaction.ts:636`) | a marker that a scan met while it was being written is unlinked; if its transaction then logs PREPARE and dies, no later scan finds it |
| `RollbackIsClean` | a transaction that is rolled back is undone | the append to the log (`scripts/state-transaction.ts:521`) may throw after the rename (487); the caller's `rollback` then logs ROLLBACK of a file that is replaced |
| `RecoveryIsClean` | a recovery rolls back what was not committed | a scan between the rename and the log line reports a rollback of a file that is replaced |
| `EditKeepsOthers` | "cross-process TOCTOU detection" (`lib/db-state-manager.ts:197`) | the file is read before the lock is taken and the first look comes after |
| `OpenCompletes` | "Create all schema tables. Idempotent" (`lib/db-manager.ts`) | a cut between the `ALTER`s of version 31 makes the first of them throw ever after; an old `dispatch_queue` without `dispatch_key` makes the index at line 1174 throw before the `ALTER`s at 1177 |
| `IndexTrue` | "Reference to the version snapshot containing full task data" (`service/dispatch/dag-version-manager.ts:62`) | both scripts pass one version as the old and the new one (`nightly-compaction.ts:130`, `archive-dag-tasks.ts:76`), so the next archival writes the file, without the tasks archived before, over the snapshot the index names: those tasks are nowhere any more |
| `WritesAfterReading` | "Writes BLOCKED until re-attested" (`service/knowledge/cache-attest.ts:359`) | the write gate asks first whether its rule blocks (`service/knowledge/enforcement.ts:21`), the table of rules fixes it to `audit_only` (`service/enforcement/rule-disposition.ts:56`), and every write passes |

## 8. The knowledge base and the archival of the task DAG

### Correspondence

**`KnowledgePipeline`** (in `Sessions`).  An agent declares the domain it works
in, searches the cache, reads what was found and attests it.  `pipelineState` is
the table `uc7ks_pipeline_state`, `seen` the read audit, `studyOf` the task on a
session's row of `session_map`.  A call that names no task resolves one
(`TasksOf`), from sources that any process may have written.  The statements of
`module_scope_declare` may fail without a report, a search may find its row
unreadable and go on, and an attestation is stored (`StoreAttest`) after the
discovery it was compared with was read (`CheckAttest`).  The comparison with the
mandatory files is left out when `project.config.json` cannot be read or has the
knowledge check switched off (`checked`), and finds a mandatory file by its name
inside a longer one (`Names`).  The write gate that is to read the rows
(`checkUC7KSWrite`) never refuses (`WriteRefused`), because its rule only audits;
what the rows are worth, to the reports and to agents that read them, is whether
they tell the truth.

**`KnowledgeIndex`** (in `Files`).  Entries go into the database and the whole
is materialized to `index.json`: look at the lock, write it, read the database,
write a temporary file, rename it, sweep the other temporary files, remove the
lock.  Each of these is an action, and a process may die at any.  A write or a
rename that throws (`WriteThrows`) is logged as a failed job, which may fail in
its turn and leave none.  `retrying`
says whether a process is in `retryFailedJobs`, which takes the lock and then
calls the function that takes it.  The fallback of `addEntry` and the two
cleanups replace the file without the lock.

**`DagArchive`** (in `Files`).  Completed tasks of more than two weeks move from
`Task.DAG.json` to the snapshot of a version, and an index says to which.  Two
scripts do so, nothing locks, and agents edit the file meanwhile: each access to
a file is an action.  The changelog, which nothing reads back, is left out; so
are the counts in `meta`.  The rest of a task is its status.  The agents' edits
are external: what they do is inferred from the fields the archival reads.

### Properties

- `AttestedWasRead`: a row that carries an attestation lists files that one session
  of its agent has read, and they name the mandatory ones if that was asked,
  however declarations, searches and attestations of several sessions interleave.
- `NeverOlder`: as long as no lock has been written over, a materialization takes
  nothing back that another one published.
- `RetryMeetsItself`: under the same proviso a retry gets no failed job through.
  The comment at `service/knowledge/jobs.ts:98` expects the same process to
  reclaim the lock "via stale detection", but nothing compares the process, so a
  failed job stays failed until a lock has expired under somebody.
- `MovedNotLost`: until a snapshot is written over an older one every task is in
  the file or in a snapshot, although an archiver writes back what it read some
  steps before.  The proviso is what the code does not keep; `IndexTrue`
  (section 7) is what follows.

### Bounds

Two sessions of one agent, one domain, one row of the pipeline and two pages, of
which one has the other's name inside its own: a second session for the
attestation that is stored late, a second page for the search that finds something
else meanwhile and for the mandatory file that is only named.  Two processes and one document
for the index: an older manifest is one without the document, read by a
materialization that the maintainers' command began before it was entered.  Two archivers, two
tasks and two versions: the second task makes a second archival, the second
version a snapshot that is not written over.


## 9. What is done and what is not modelled

Done: the gate (sections 2 and 3), the services of section 4, files and schema
(section 5), the knowledge base and the archival of the task DAG (section 8).

Every component whose state others decide by has a module, but for the sub-state
store.  What is left, with the reasons:

- **Sub-state store.**  `dbWriteSubState` compares `updated_at` if its caller
  hands it one, and no caller does; `dbAtomicWriteSubState` is one transaction.
  The model would be one row and a blind write, and its property would restate
  that: the writers in `service/knowledge/audit.ts:115`, `maintenance.ts:301`,
  `janitor.ts:517` and `state-transaction.ts:514` and `:918` read, change and
  write without either, so that the last one wins.
- **Enforcement, permission and tool governance.**  Decisions on the arguments
  of one call, without state; the repository's unit tests reach them.  The
  disposition table is a constant of `GateStore`, and the two layers that do
  keep state (anti-bypass, skill gate) are modelled.
- **Logs and maintenance.**  Append, rotate, delete by age; no other component
  decides by what they leave.  `LogRotator` has no caller but its tests.
- **Reports and self-tests.**  `framework-self-test.ts`, `framework-doctor.ts`,
  `state-reconciliation.ts`, the migration scripts, `legacy/` and the test
  directories are about a third of the repository's code.  They read the
  state the modules describe and print what they find, or run once.
- **Left out of modelled components.**  Of the file guard: overwrites
  (`writeSafeFull`) and the TypeScript check with its own locks.  Of state
  transactions: the off-line verifier and `repairMonotonicRevision`.  Of the
  dispatch queue: revocation, the paths and remotes a grant names, functions no
  live code calls.  Of the registry: `session_registry`, which nothing reads;
  the router's `dispatch`, which `tools/dispatch_subagent.ts` never reaches,
  appears only as the write it would make.  Of the knowledge base: pruning of
  old rows, the import at opening, the gap report.
- **Simplified in modelled components.**  The file guard locks the path as it was
  given (`execute.ts:107`) and writes to the one it resolves to (116), so that two
  symbolic links to one file take two locks; the model has one name per file, and
  `OneInside` is about one name.  A load of the gate store that fails, or finds
  nothing, falls back to a `gate-state.json` of format 2.0
  (`store-crud.ts:194-206`); `LoadFails` takes it that there is none, so what such a
  file would bring back is not shown.  `mcp-check.ts:88-95` archives stale sessions
  one by one, `ArchiveStale` at once; each of them is archived before the save in
  both.  The compactor keeps completed sessions of the last seven days
  (`db-state-manager.ts:1323-1327`); in the model all are recent.  The chat-message
  hook may also give a session that has none the job and the domain of the slot its
  dispatch left (`lifecycle.ts:228-272`, `resolver.ts:157-174`); in
  `SessionRegistry` they come from the dispatch and from `module_scope_declare`
  only, and `NothingForgotten` is about what is taken away.  A checklist run is
  looked up outside the transaction that makes it
  (`checklist-lifecycle-crud.ts:181-201`); `NewRun` is one step, so a second process
  that makes a run of the same session is not shown.  A query for duplicates that
  fails lets a dispatch through (`queue.ts:489-495`), as two dispatches that ask at
  the same time do in the model.

The map covers the code the definitions translate and no more.  Its share of
the whole repository is therefore well below the share of the state-changing
code that is modelled, since the denominator counts the reports, self-tests and
legacy scripts above.

### Divergences read in that code

Certain from the code, not modelled or without a property of their own:

- Knowledge: `declare-scope.ts:87` explains why the status must be "declared",
  `:95` writes "undeclared", and `cache-search.ts:63` refuses a search that names
  the task of such a row, so declare and then search with the same task is
  always refused.  The retry limit of attestations is never reached.  A domain
  that is declared or searched again stays attested.  `cache-check.ts` queries
  tables that version 20 drops.
- Knowledge index: the sweep of temporary files removes those other processes
  are about to rename; what a cleanup or the fallback wrote to the file is undone
  by the next materialization; a refused materialization is not repeated and,
  against the comment at `jobs.ts:115`, leaves no failed row.
- Archival: `MIN_RECENT_TASKS` is never used; edits of the file between read and
  write are lost, and a version begun meanwhile is taken back; a death while the
  index is written empties it; `migrate-dag-v2.ts` keeps only pending and
  completed tasks in the file.
- Anti-bypass: all of `tool_enforcement`, by the faulty `INSERT` of section 4, so
  that no failure, no orphaned call and no guidance phase ever blocks.  The
  handler that resets the rejections is not in the order of the plug-ins, so
  nothing resets them.  `clear_guidance` always answers with an error, which
  counts as a rejection of `clear_guidance` itself.
- Migrations: version 30 is never recorded (section 5).
- Reconciliation: drained sessions are written to `gate-state.json`, which only
  the fallback of a failed load reads, so the next run finds them again; `--dry-run
  --force-drain` writes; `--fix --force-drain` deletes `gate.sessions` and reads
  its keys afterwards.
- State transactions: a process that dies between the temporary file and the
  marker leaves a file and a `BEGIN` that no scan finds (`state-transaction.ts:356`).
- Rotation: `LogRotator` keeps one file more than its limit.


## 10. Running the checks

`tlc -config GateSerial.cfg MCGateSerial.tla` and so on, one `.cfg` per run;
`Sessions.cfg` and `Files.cfg` go with `MCSessions.tla` and `MCFiles.tla`,
`GateCallers*.cfg` with `MCGateCallers.tla`, and the other gate configurations
with the module `PROJECT.json` names.
`tlapm GateStoreProofs.tla` and likewise for the other `*Proofs` modules.
`PROJECT.json` lists the runs, the line range each definition models, the
mutants that show that every property can fail, the hazards and the findings.
