----------------------------- MODULE Checklist -----------------------------
(***************************************************************************)
(* The execution checklist (service/gate/checklist-*.ts): a run per        *)
(* session, made by whatever tool touches it first, with items of eight    *)
(* phases that tools mark as passed, and the items of the dispatch phase   *)
(* that a child takes over from the run of the session that dispatched it. *)
(*                                                                         *)
(* The plugins and tools are synchronous, and each database transaction of *)
(* theirs is a step here; the dispatch command is a process of its own and *)
(* any of its statements may fail, the failure being logged and no more.   *)
(* The first tool call of a session goes through the anti-bypass hook,     *)
(* which makes the session's run before the tool does, with no job.        *)
(* An item that failed and one that is pending are alike to every reader,  *)
(* so a run keeps the set of its passed items.  No live caller resets an   *)
(* item or interrupts a single run.                                        *)
(***************************************************************************)
EXTENDS Naturals, Sequences

CONSTANTS
    Workers,         \* sessions, main or child
    NoWorker,
    DagTasks,           \* DAG task ids
    NoTask,
    Roles,          \* agent types
    RoleOf,         \* the agent type that runs in a session
    StartedFor,     \* the job a session was started for
    DagExempt,      \* isDagExempt
    Dispatchers,    \* Orchestrator and Super-Admin
    Tracked         \* the items that are kept (bound)

\* PHASE_ITEMS.
PhaseItems ==
    << {"config_read_attested", "skill_read_attested", "rule_read_attested"},
       {"payload_complete", "dispatch_token_created", "session_context_bound"},
       {"dag_entry_verified", "agent_scope_resolved", "domain_resolved",
        "module_scope_declared"},
       {"knowledge_attested", "mistake_precautions_read",
        "knowledge_search_completed"},
       {"compliance_gate_checked", "compliance_gate_armed",
        "deliverables_declared"},
       {"task_log_written", "required_logs_checked", "findings_section_present",
        "knowledge_post_write_verified"},
       {"deliverables_submitted", "handover_hash_bound",
        "declared_handover_path_bound"},
       {"read_before_approve_verified", "deliverables_approved", "gate_closed"} >>

Phases == DOMAIN PhaseItems
ItemsOf(phase) == PhaseItems[phase] \cap Tracked
DispatchItems == ItemsOf(2)

ASSUME ChecklistAssumption ==
    /\ NoWorker \notin Workers
    /\ NoTask \notin DagTasks
    /\ RoleOf \in [Workers -> Roles]
    /\ StartedFor \in [Workers -> DagTasks \cup {NoTask}]
    /\ DagExempt \subseteq Roles
    /\ Dispatchers \subseteq DagExempt
    /\ Tracked \subseteq UNION {PhaseItems[i] : i \in Phases}

VARIABLES
    runs,       \* execution_checklist_runs and execution_checklist_items, by session
    payloads,   \* dispatch_payload_integrity: the newest dispatcher per job and role
    hooked,     \* sessions whose first tool call has been through the hook
    dispatched  \* history: sessions that have dispatched

checklistVars == <<runs, payloads, hooked, dispatched>>

NoRun == [phase |-> 0, status |-> "none", job |-> NoTask, parent |-> NoWorker,
          passed |-> {}]

ChecklistTypeOK ==
    /\ runs \in [Workers -> [phase : {0} \cup Phases,
                            status : {"none", "active", "interrupted"},
                            job : DagTasks \cup {NoTask},
                            parent : Workers \cup {NoWorker},
                            passed : SUBSET Tracked]]
    /\ payloads \in [DagTasks \X Roles -> Workers \cup {NoWorker}]
    /\ hooked \in SUBSET Workers
    /\ dispatched \in SUBSET Workers

ChecklistInit ==
    /\ runs = [s \in Workers |-> NoRun]
    /\ payloads = [jr \in DagTasks \X Roles |-> NoWorker]
    /\ hooked = {}
    /\ dispatched = {}

-----------------------------------------------------------------------------
\* createChecklistRun.

\* The items a new run starts with.  No caller names a parent session, so
\* every session counts as a main one.
PassedAtStart(role) ==
    Tracked \cap
        ((IF role \in DagExempt THEN {"dag_entry_verified"} ELSE {})
         \cup IF role \in Dispatchers
              THEN DispatchItems \cup {"agent_scope_resolved", "domain_resolved",
                                       "module_scope_declared"}
              ELSE {})

\* inheritDispatchPayloadItems: whoever dispatched this job to this role last,
\* unless that is the session itself ...
ParentFor(s, role, job) ==
    IF job = NoTask \/ payloads[<<job, role>>] = s THEN NoWorker ELSE payloads[<<job, role>>]

\* Mutant: whatever job the dispatcher's run was made for.
InheritedAny(parent, job) ==
    IF parent # NoWorker /\ runs[parent].phase # 0
    THEN runs[parent].passed \cap DispatchItems
    ELSE {}

\* ... and what its run has, if that run was made for the same job.
Inherited(parent, job) ==
    IF parent # NoWorker /\ runs[parent].phase # 0 /\ runs[parent].job = job
    THEN runs[parent].passed \cap DispatchItems
    ELSE {}

NewRun(s, role, job) ==
    LET parent == ParentFor(s, role, job)
    IN  [phase |-> 1, status |-> "active", job |-> job, parent |-> parent,
         passed |-> PassedAtStart(role) \cup Inherited(parent, job)]

\* A session has one run, whatever job and role it is asked for with.
RunOf(s, role, job) == IF runs[s].phase # 0 THEN runs[s] ELSE NewRun(s, role, job)

\* checklistWirePassed and markChecklistPassed.
WirePassed(s, role, job, items) ==
    runs' = [runs EXCEPT ![s] = [RunOf(s, role, job) EXCEPT
                                   !.passed = @ \cup (items \cap Tracked)]]

-----------------------------------------------------------------------------
\* Who touches a checklist.

\* The anti-bypass hook of a session's first tool call, whose statement may
\* fail unseen.
BeforeHook(s) ==
    /\ hooked' = hooked \cup {s}
    /\ WirePassed(s, RoleOf[s], NoTask, {}) \/ UNCHANGED runs
    /\ UNCHANGED <<payloads, dispatched>>

\* checklist_status makes the run and shows it.
Status(s, job) ==
    /\ WirePassed(s, RoleOf[s], job, {})
    /\ UNCHANGED <<payloads, hooked, dispatched>>

\* chat.message of a session of an exempt role, with no job.
PreflightAutoMark(s) ==
    /\ RoleOf[s] \in DagExempt
    /\ \E items \in { {"agent_scope_resolved"},
                      {"agent_scope_resolved", "domain_resolved",
                       "module_scope_declared"} } :
          WirePassed(s, RoleOf[s], NoTask, items)
    /\ UNCHANGED <<payloads, hooked, dispatched>>

\* Mutant: every item has a tool that marks it.
WiredByAll == UNION {PhaseItems[i] : i \in Phases}

\* What the tools mark, on the run of the session that calls them or that
\* confirmed the gate session: read attestations, knowledge, scope and domain
\* tools, and the gate.
WiredByTools ==
    {"config_read_attested", "skill_read_attested", "rule_read_attested",
     "knowledge_attested", "mistake_precautions_read", "domain_resolved",
     "module_scope_declared", "knowledge_search_completed",
     "compliance_gate_checked", "compliance_gate_armed", "deliverables_declared",
     "knowledge_post_write_verified", "deliverables_submitted",
     "handover_hash_bound", "declared_handover_path_bound",
     "read_before_approve_verified", "deliverables_approved", "gate_closed"}

ToolWires(s, job, item) ==
    /\ item \in WiredByTools
    /\ WirePassed(s, RoleOf[s], job, {item})
    /\ UNCHANGED <<payloads, hooked, dispatched>>

\* The dispatch command: it marks the run of its own session under the child's
\* role and job, each statement on its own, and then records who dispatched.
DispatchChecklist(s, role, job) ==
    /\ \/ \E items \in SUBSET DispatchItems : WirePassed(s, role, job, items)
       \/ UNCHANGED runs
    /\ \/ payloads' = [payloads EXCEPT ![<<job, role>>] = s]
       \/ UNCHANGED payloads
    /\ dispatched' = dispatched \cup {s}
    /\ UNCHANGED hooked

\* knowledge_cache_attest without one of the mandatory files: the item fails,
\* whatever it was and whatever phase the run is in.
PrecautionsMissing(s, job) ==
    /\ runs' = [runs EXCEPT ![s] = [RunOf(s, RoleOf[s], job) EXCEPT
                                      !.passed = @ \ {"mistake_precautions_read"}]]
    /\ UNCHANGED <<payloads, hooked, dispatched>>

\* advance_checklist_phase: the items of the phase the run is in must be
\* passed; neither its status nor the other phases are looked at.
Advance(s, job) ==
    /\ LET run == RunOf(s, RoleOf[s], job)
           done == run.phase < Len(PhaseItems) /\ ItemsOf(run.phase) \subseteq run.passed
       IN  runs' = [runs EXCEPT ![s] = [run EXCEPT !.phase = IF done THEN @ + 1 ELSE @]]
    /\ UNCHANGED <<payloads, hooked, dispatched>>

\* Step 1 of session start.
InterruptStuck ==
    /\ runs' = [s \in Workers |->
                  IF runs[s].phase = 2 /\ runs[s].status = "active"
                  THEN [runs[s] EXCEPT !.status = "interrupted"] ELSE runs[s]]
    /\ UNCHANGED <<payloads, hooked, dispatched>>

ChecklistNext ==
    \/ \E s \in Workers \ hooked : BeforeHook(s)
    \/ \E s \in hooked, job \in DagTasks \cup {NoTask} :
          \/ Status(s, job)
          \/ \E item \in WiredByTools \cap Tracked : ToolWires(s, job, item)
          \/ PrecautionsMissing(s, job)
          \/ Advance(s, job)
    \/ \E s \in hooked, job \in DagTasks, role \in Roles : DispatchChecklist(s, role, job)
    \/ \E s \in Workers : PreflightAutoMark(s)
    \/ InterruptStuck

ChecklistSpec == ChecklistInit /\ [][ChecklistNext]_checklistVars

-----------------------------------------------------------------------------
\* Properties.

\* A dispatch item is passed only by a dispatcher's own privilege, by a
\* dispatch of the session, or because the run of the session that dispatched
\* this very job has it (inheritDispatchPayloadItems).
DispatchItemsEarned ==
    \A s \in Workers : \A i \in DispatchItems \cap runs[s].passed :
        \/ RoleOf[s] \in Dispatchers \/ s \in dispatched
        \/ LET p == runs[s].parent
           IN  p # NoWorker /\ p # s /\ runs[p].job = runs[s].job /\ i \in runs[p].passed

\* How far a run can get: nobody marks dag_entry_verified after the run is made,
\* so one made for a role that is not exempt stays before the third phase's end,
\* and nobody marks the execution logs, so none gets past the sixth.
StopsShort ==
    \A s \in Workers :
        /\ "task_log_written" \in Tracked => runs[s].phase <= 6
        /\ "dag_entry_verified" \in Tracked \ runs[s].passed => runs[s].phase <= 3

\* A session started for a job begins with the dispatch items of the session
\* that dispatched that job to its role (inheritDispatchPayloadItems), whatever
\* call makes its run.
ChildInherits ==
    [][\A s \in Workers :
          LET parent == ParentFor(s, RoleOf[s], StartedFor[s])
          IN  runs[s].phase = 0 /\ runs'[s].phase # 0 =>
                Inherited(parent, StartedFor[s]) \subseteq runs'[s].passed]_checklistVars
=============================================================================
