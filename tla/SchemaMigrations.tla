-------------------------- MODULE SchemaMigrations --------------------------
(***************************************************************************)
(* What getDb (lib/db-manager.ts) does to the database every time a        *)
(* process opens it: initializeSchema runs every migration again, one      *)
(* statement after the other, outside any transaction.  Each version is in *)
(* a try block of its own: a statement that throws ends its version, is    *)
(* logged as SKIPPED, and the next version begins.  What is in doubt is    *)
(* whether running them again repairs what a crash, a locked database or   *)
(* another process that opens at the same time has left undone.            *)
(*                                                                         *)
(* The schema is a set of columns, <<table, column>>; the columns that a   *)
(* CREATE TABLE brings are all called "*" except those some migration also *)
(* adds.  Left out: the rows (the backfills and the removal of duplicates  *)
(* before a unique index) and the indexes, except where a CREATE INDEX can *)
(* throw because its table or column is not there.                         *)
(***************************************************************************)
EXTENDS Naturals, Sequences, SequencesExt

CONSTANTS
    Openers,        \* processes that open the database
    OldColumns,     \* the columns the database has at first
    FirstVersion, LastVersion,  \* the migrations a run steps through
    MaxFaults       \* crashes and lock timeouts in a behaviour

ASSUME MigrationsAssumption ==
    /\ FirstVersion \in 2 .. 37 /\ LastVersion \in FirstVersion .. 37
    /\ MaxFaults \in Nat

-----------------------------------------------------------------------------
\* The kinds of statement.
Statement(op, table, columns) == [op |-> op, table |-> table, columns |-> columns]

Create(t) == Statement("create", t, <<"*">>)
CreateWith(t, cs) == Statement("create", t, <<"*">> \o cs)
Index(t, c) == Statement("index", t, <<c>>)
Add(t, c) == Statement("add", t, <<c>>)             \* ALTER TABLE ADD COLUMN
Inspect(t, cs) == Statement("inspect", t, cs)       \* PRAGMA table_info
AddIfLacking(t, c) == Statement("add lacking", t, <<c>>)  \* ADD COLUMN, if that lacked it
Tried(t, c) == Statement("tried", t, <<c>>)         \* ... in a try block of its own
Drop(t) == Statement("drop", t, <<>>)
Record == Statement("record", "schema_version", <<>>)

Creates(ts) == [i \in DOMAIN ts |-> Create(ts[i])]
Drops(ts) == [i \in DOMAIN ts |-> Drop(ts[i])]
AddLacking(t, cs) == <<Inspect(t, cs)>> \o [i \in DOMAIN cs |-> AddIfLacking(t, cs[i])]

-----------------------------------------------------------------------------
\* The migrations.  The statements before version 3 are in no try block.
V2 == Creates(<<"machine_meta", "machine_contracts">>)
      \o <<CreateWith("gate_sessions", <<"version">>),
           Tried("gate_sessions", "version")>>
      \o Creates(<<"gate_drained_sessions", "gate_session_index", "gate_store_meta",
                       "gate_audit_history", "audit_log", "audit_trail",
                       "substate_kv", "schema_version">>)
      \o <<Record>>
V3 == <<Add("eslint_state", "last_full_scan"), Record>>
V4 == <<Create("file_baseline_kv"), Record>>
V5 == AddLacking("gate_sessions",
                 <<"declared_deliverables", "submitted_deliverables",
                   "deliverables_approved_by", "deliverables_approved_at",
                   "deliverables_approval_note", "approval_required">>) \o <<Record>>
V6 == Creates(<<"session_log", "dispatch_failed_log", "session_map">>) \o <<Record>>
V7 == Drops(<<"eslint_state", "write_audit_state", "compliance_records",
                  "knowledge_session_access", "knowledge_cache_meta",
                  "tdd_enforcement_state", "keystone_hashes", "transaction_state",
                  "knowledge_state", "knowledge_audit_state", "type_check_state",
                  "diagnostic_state", "format_state", "dependency_state">>)
      \o <<Record>>
V8 == <<Add("session_map", "dag_task_id"), Index("session_map", "dag_task_id"), Record>>
V9 == <<Add("session_map", "domain_id"), Index("session_map", "domain_id"), Record>>
V10 == <<Create("read_audit"), Record>>
V11 == Creates(<<"knowledge_entries", "knowledge_files", "knowledge_entry_tags",
                     "knowledge_session_access", "knowledge_discovery",
                     "knowledge_attestation", "knowledge_materialization_jobs">>)
       \o <<Record>>
V12 == <<Create("knowledge_session_access_archive"), Record>>
V13 == <<Index("knowledge_session_access", "*"), Index("knowledge_discovery", "*"),
         Index("knowledge_attestation", "*"), Record>>
V14 == <<Create("gate_compactor_index")>>
       \o AddLacking("gate_audit_history", <<"compactor_event", "archive_path">>) \o <<Record>>
V15 == <<CreateWith("dispatch_queue", <<"dispatch_key", "parent_session_id", "call_id">>),
         Index("dispatch_queue", "dispatch_key"),
         Tried("dispatch_queue", "dispatch_key"),
         Tried("dispatch_queue", "parent_session_id"),
         Tried("dispatch_queue", "call_id"),
         Create("dispatch_privilege_grants"),
         Create("dispatch_context"), Index("dispatch_context", "*"),
         Create("dispatch_prompt_refs"), Create("dispatch_attempts"), Record>>
V16 == Creates(<<"permission_snapshot", "agent_registry_snapshot",
                     "template_resolution_snapshot">>) \o <<Record>>
V17 == <<Create("approval_read_context"), Record>>
V18 == Creates(<<"execution_checklist_runs", "execution_checklist_items",
                     "execution_checklist_events", "dispatch_payload_integrity">>)
       \o <<Record>>
V19 == <<Create("uc7ks_pipeline_state"), Record>>
V20 == Drops(<<"knowledge_session_access", "knowledge_discovery",
                   "knowledge_attestation">>) \o <<Record>>
V21 == AddLacking("gate_sessions", <<"opencode_session_id">>) \o <<Record>>
V22 == <<Index("uc7ks_pipeline_state", "*"), Record>>
V23 == <<Drop("dispatch_context"), Record>>
V24 == <<Add("session_map", "model_id"), Record>>
V25 == <<Create("backup_log"), Record>>
V26 == Creates(<<"tsc_gate_locks", "tsc_gate_events">>) \o <<Record>>
V27 == <<Add("session_map", "parent_id"), Record>>
V28 == Creates(<<"notifications", "notification_readers">>) \o <<Record>>
V29 == <<CreateWith("tool_enforcement", <<"last_before_at", "last_after_at">>), Record>>
V30 == <<Add("tool_enforcement", "compliance_blocks"),
         Add("tool_enforcement", "last_before_at"),
         Add("tool_enforcement", "last_after_at"), Record>>
V31 == <<Add("tool_enforcement", "awaiting_guidance"),
         Add("tool_enforcement", "guidance_token"),
         Add("tool_enforcement", "guidance_requested_at"), Record>>
V32 == <<Create("soft_rejections"), Record>>
V33 == Creates(<<"session_registry", "session_events", "tool_guidance_state">>)
       \o <<Record>>
V34 == AddLacking("notifications", <<"parent_id", "resolved">>) \o <<Record>>
V35 == Creates(<<"repo_operation_grants", "repo_operation_events">>) \o <<Record>>
V36 == AddLacking("dispatch_privilege_grants",
                  <<"max_writes", "writes_used", "policy_version", "completed_at">>)
       \o <<Create("framework_maintenance_plans"), Record>>
V37 == <<Create("gate_call_context")>>
       \o AddLacking("gate_sessions",
                     <<"parent_opencode_session_id", "child_opencode_session_id",
                       "last_submit_session_id", "last_approve_session_id",
                       "interrupted_at", "interruption_source">>)
       \o <<Index("gate_sessions", "parent_opencode_session_id"),
            Index("gate_sessions", "child_opencode_session_id"), Record>>

Migrations ==
    <<<<>>, V2, V3, V4, V5, V6, V7, V8, V9, V10, V11, V12, V13, V14, V15, V16, V17,
      V18, V19, V20, V21, V22, V23, V24, V25, V26, V27, V28, V29, V30, V31, V32,
      V33, V34, V35, V36, V37>>

Versions == FirstVersion .. LastVersion
Statements(v) == ToSet(Migrations[v])
Named(s) == {<<s.table, c>> : c \in ToSet(s.columns)}
Columns(op, v) == UNION {Named(s) : s \in {u \in Statements(v) : u.op = op}}

\* The columns that the statements of some kinds name.
NamedBy(ops) == UNION {Named(s) : s \in {u \in UNION {Statements(v) : v \in Versions} : u.op \in ops}}

Altering == {"add", "add lacking"}
Adding == {"create", "tried"} \cup Altering
Addable == NamedBy(Adding)
Asked == {column[2] : column \in NamedBy({"inspect"})}

-----------------------------------------------------------------------------
VARIABLES
    schema,         \* the columns there are
    recorded,       \* the rows of schema_version
    opening,        \* per process: the version it is in, the number of its next statement,
                    \* and the columns that table_info lacked and that are still to be added
    faults,         \* crashes and lock timeouts so far
    interrupted,    \* history: versions one of those has cut short
    quiet           \* history: processes no fault or other process has disturbed

migrationVars == <<schema, recorded, opening, faults, interrupted, quiet>>

Closed == [version |-> 0, next |-> 1, lacking |-> {}]
At(v) == [version |-> v, next |-> 1, lacking |-> {}]
Opened == At(LastVersion + 1)

MigrationsTypeOK ==
    /\ schema \subseteq OldColumns \cup Addable
    /\ recorded \subseteq Versions
    /\ opening \in [Openers -> [version : 0 .. LastVersion + 1, next : Nat \ {0},
                                lacking : SUBSET Asked]]
    /\ \A p \in Openers :
          \/ opening[p] \in {Closed, Opened}
          \/ /\ opening[p].version \in Versions
             /\ opening[p].next \in 1 .. Len(Migrations[opening[p].version]) + 1
    /\ faults \in 0 .. MaxFaults
    /\ interrupted \subseteq Versions
    /\ quiet \subseteq Openers

MigrationsInit ==
    /\ schema = OldColumns
    /\ recorded = {}
    /\ opening = [p \in Openers |-> Closed]
    /\ faults = 0
    /\ interrupted = {}
    /\ quiet = {}

Open(p) == opening[p] # Closed
Finished(p) == opening[p] = Opened

\* The next statement of a process that has one.
Left(p) == Open(p) /\ ~Finished(p) /\ opening[p].next <= Len(Migrations[opening[p].version])
Upcoming(p) == Migrations[opening[p].version][opening[p].next]

HasTable(t) == \E column \in schema : column[1] = t
Has(t, c) == <<t, c>> \in schema

\* It is an ALTER that is carried out.
Alters(p) ==
    LET s == Upcoming(p)
    IN  \/ s.op = "add"
        \/ s.op = "add lacking" /\ s.columns[1] \in opening[p].lacking

\* It throws.
Throws(p) ==
    LET s == Upcoming(p)
    IN  \/ s.op = "index" /\ ~Has(s.table, s.columns[1])
        \/ Alters(p) /\ (~HasTable(s.table) \/ Has(s.table, s.columns[1]))

\* What it leaves of the schema if it does not throw.
SchemaAfter(p) ==
    LET s == Upcoming(p)
    IN  CASE s.op = "create" /\ ~HasTable(s.table) -> schema \cup Named(s)
          [] Alters(p) -> schema \cup Named(s)
          [] s.op = "tried" /\ HasTable(s.table) -> schema \cup Named(s)
          [] s.op = "drop" -> {column \in schema : column[1] # s.table}
          [] OTHER -> schema

\* The columns a guard finds missing are then added one by one, by plain ALTERs.
Lacking(s) == {c \in ToSet(s.columns) : ~Has(s.table, c)}

\* getDb in a process that has no connection.
OpenDatabase(p) ==
    /\ ~Open(p)
    /\ opening' = [opening EXCEPT ![p] = At(FirstVersion)]
    /\ quiet' = IF \A q \in Openers : ~Open(q) THEN {p} ELSE {}
    /\ UNCHANGED <<schema, recorded, faults, interrupted>>

\* The next statement of the version, which does not throw.
Run(p) ==
    /\ Left(p) /\ ~Throws(p)
    /\ LET s == Upcoming(p)
       IN  /\ schema' = SchemaAfter(p)
           /\ recorded' = IF s.op = "record" THEN recorded \cup {opening[p].version}
                          ELSE recorded
           /\ opening' = [opening EXCEPT
                ![p].next = @ + 1,
                ![p].lacking = CASE s.op = "inspect" -> Lacking(s)
                                 [] s.op = "add lacking" -> @ \ ToSet(s.columns)
                                 [] OTHER -> @]
    /\ UNCHANGED <<faults, interrupted, quiet>>

NextVersion(p) == opening' = [opening EXCEPT ![p] = At(@.version + 1)]

\* Mutant: one try block around all versions.
EndVersions(p) ==
    /\ Open(p) /\ ~Finished(p)
    /\ Left(p) => Throws(p)
    /\ IF Left(p) THEN opening' = [opening EXCEPT ![p] = Opened] ELSE NextVersion(p)
    /\ UNCHANGED <<schema, recorded, faults, interrupted, quiet>>

\* The version is done, or a statement threw and the catch block logs it.
EndVersion(p) ==
    /\ Open(p) /\ ~Finished(p)
    /\ Left(p) => Throws(p)
    /\ NextVersion(p)
    /\ UNCHANGED <<schema, recorded, faults, interrupted, quiet>>

\* getDb has returned; the process closes the database some time later.
CloseDatabase(p) ==
    /\ Finished(p)
    /\ opening' = [opening EXCEPT ![p] = Closed]
    /\ quiet' = quiet \ {p}
    /\ UNCHANGED <<schema, recorded, faults, interrupted>>

Fault(p) ==
    /\ faults < MaxFaults /\ Left(p)
    /\ faults' = faults + 1
    /\ interrupted' = interrupted \cup {opening[p].version}
    /\ quiet' = quiet \ {p}
    /\ UNCHANGED <<schema, recorded>>

\* The statement waits for the lock of another process for more than
\* busy_timeout and throws.
Locked(p) ==
    /\ Fault(p)
    /\ IF Upcoming(p).op = "tried" THEN opening' = [opening EXCEPT ![p].next = @ + 1]
       ELSE IF opening[p].version = 2 THEN opening' = [opening EXCEPT ![p] = Closed]
       ELSE NextVersion(p)

Crash(p) ==
    /\ Fault(p)
    /\ opening' = [opening EXCEPT ![p] = Closed]

MigrationsNext ==
    \E p \in Openers :
        \/ OpenDatabase(p) \/ Run(p) \/ EndVersion(p) \/ CloseDatabase(p)
        \/ Locked(p) \/ Crash(p)

MigrationsSpec == MigrationsInit /\ [][MigrationsNext]_migrationVars

-----------------------------------------------------------------------------
\* Properties.

Dropped(t) == \E v \in Versions : Drop(t) \in Statements(v)

\* The columns the migrations are to bring about.
Wanted == {column \in NamedBy(Adding \ {"tried"}) : ~Dropped(column[1])}

\* What the unguarded ALTERs of a version add and no CREATE brings.
Unguarded(v) == Columns("add", v) \ NamedBy({"create"})

\* An open that nothing disturbed repairs what earlier crashes and lock timeouts
\* left undone, except in a version of several unguarded ALTERs cut short between
\* them: there the first one throws from then on, and the rest is never reached.
\* (Of version 30 only the first adds a column that is missing, so it is no such
\* version, although it throws at every open and is never recorded.)
OpenRepairs ==
    \A p \in quiet : Finished(p) =>
        \A column \in Wanted \ schema :
            \E v \in interrupted : /\ column \in Unguarded(v)
                                   /\ Unguarded(v) \cap schema # {}

\* Without faults two processes may open at the same time: one of them loses the
\* race for a column and skips the rest of its version, and the other adds it.
RaceIsHarmless ==
    (/\ faults = 0
     /\ \A p \in Openers : Open(p) => Finished(p)
     /\ \E p \in Openers : Open(p)) => Wanted \subseteq schema

\* "Create all schema tables. Idempotent (IF NOT EXISTS)": an undisturbed open
\* leaves a complete schema, whatever was there.
OpenCompletes == \A p \in quiet : Finished(p) => Wanted \subseteq schema

-----------------------------------------------------------------------------
(* How the migrations have to be written for that, and what the database may *)
(* have been before.                                                         *)

Numbers(v) == 1 .. Len(Migrations[v])
Nth(v, n) == Migrations[v][n]
Creating(v, n, t) == Nth(v, n).op = "create" /\ Nth(v, n).table = t
Target(s) == <<s.table, s.columns[1]>>

\* From its first table_info or unguarded ALTER on a version is late.
IsLate(v, n) == \E m \in 1 .. n : Nth(v, m).op \in {"inspect", "add"}
Plain(v) == \E n \in Numbers(v) : Nth(v, n).op = "add"

OldTable(t) == \E column \in OldColumns : column[1] = t

\* A table that is never dropped never lacks the column, or has it as an old one.
Bundled(t, c) ==
    /\ ~Dropped(t)
    /\ OldTable(t) => <<t, c>> \in OldColumns
    /\ \A v \in Versions : \A n \in Numbers(v) :
          Creating(v, n, t) => <<t, c>> \in Named(Nth(v, n))

\* An unguarded ALTER that always throws, and an ALTER that may add something.
Redundant(v, n) == Nth(v, n).op = "add" /\ Bundled(Nth(v, n).table, Nth(v, n).columns[1])
Genuine(v, n) == Nth(v, n).op \in Altering /\ ~Redundant(v, n)

\* The wanted columns of its early CREATEs, and of the rest.
EarlyAt(v, n) == IF Nth(v, n).op = "create" /\ ~IsLate(v, n)
                 THEN Named(Nth(v, n)) \cap Wanted ELSE {}
LateAt(v, n) == IF Nth(v, n).op \in Adding \ {"tried"} /\ IsLate(v, n) /\ ~Redundant(v, n)
                THEN Named(Nth(v, n)) \cap Wanted ELSE {}
Early(v) == UNION {EarlyAt(v, n) : n \in Numbers(v)}
Late(v) == UNION {LateAt(v, n) : n \in Numbers(v)}

\* A statement on one column names one, and a CREATE at least the column "*".
Shapes ==
    \A v \in Versions : \A n \in Numbers(v) :
        LET s == Nth(v, n)
        IN  /\ s.op \in Altering \cup {"tried", "index"} => ToSet(s.columns) = {s.columns[1]}
            /\ s.op = "create" => "*" \in ToSet(s.columns)
            /\ s.op = "tried" => s.columns[1] # "*"
            /\ s.op = "drop" => s = Drop(s.table)

\* Nothing else adds the column of an ALTER that may add something.
Unique ==
    \A v, w \in Versions : \A n \in Numbers(v), m \in Numbers(w) :
        /\ Genuine(v, n) /\ Nth(w, m).op \in Adding
        /\ Target(Nth(v, n)) \in Named(Nth(w, m))
        => v = w /\ n = m

\* A version has one table_info and no unguarded ALTER, or none; what is guarded
\* comes after it and is among the columns it asks for.
GuardsSound ==
    \A v \in Versions : \A n \in Numbers(v) :
        /\ Nth(v, n).op = "inspect" =>
             \A m \in Numbers(v) : Nth(v, m).op \in {"inspect", "add"} => m = n
        /\ Nth(v, n).op = "add lacking" =>
             \E m \in 1 .. n - 1 : /\ Nth(v, m).op = "inspect"
                                   /\ Target(Nth(v, n)) \in Named(Nth(v, m))

\* The ALTERs of a version are about one table, which is there before.
TablesSound ==
    \A v \in Versions : \A n \in Numbers(v) : Nth(v, n).op \in Altering =>
        LET t == Nth(v, n).table
        IN  /\ \A m \in Numbers(v) : Nth(v, m).op \in Altering => Nth(v, m).table = t
            /\ Dropped(t) => Late(v) = {}
            /\ \/ Dropped(t) \/ OldTable(t)
               \/ \E w \in Versions : w < v /\ <<t, "*">> \in Early(w)

\* Only unguarded ALTERs add anything from the first of them on, nothing from the
\* first one that always throws, and nothing is tried late.
LateSound ==
    \A v \in Versions : \A n \in Numbers(v) :
        /\ IsLate(v, n) => Nth(v, n).op # "tried"
        /\ Nth(v, n).op = "add" => \A m \in Numbers(v) :
             m > n => Nth(v, m).op \notin Adding \ {"add"}
        /\ Redundant(v, n) => \A m \in Numbers(v) : m > n => ~Genuine(v, m)

\* The columns that a CREATE brings to a new table only are tried again, unless
\* no old table lacks them.
TriesSound ==
    \A v \in Versions : \A n \in Numbers(v) :
        /\ Nth(v, n).op = "create" =>
             \A column \in Named(Nth(v, n)) \cap Wanted : column[2] # "*" =>
                \/ Bundled(column[1], column[2])
                \/ \E m \in Numbers(v) : m > n /\ Nth(v, m).op = "tried" /\ Target(Nth(v, m)) = column
        /\ Nth(v, n).op = "tried" =>
             /\ \E m \in Numbers(v) : Creating(v, m, Nth(v, n).table)
             /\ \A m \in Numbers(v) : Creating(v, m, Nth(v, n).table) => m < n

\* A CREATE INDEX has nothing wanted behind it, or does not throw unless a later
\* version has dropped its table.
Trailer(v, n) ==
    \A m \in Numbers(v) : m > n /\ Nth(v, m).op \in Adding => Named(Nth(v, m)) \cap Wanted = {}
Certain(v, n) ==
    LET s == Nth(v, n)
    IN  /\ Bundled(s.table, s.columns[1])
        /\ \E m \in Numbers(v) : Creating(v, m, s.table)
        /\ \A m \in Numbers(v) : Creating(v, m, s.table) => m < n
Overtaken(v, n) ==
    LET s == Nth(v, n)
    IN  /\ s.columns[1] = "*"
        /\ \E m \in 1 .. n - 1 : Creating(v, m, s.table)
        /\ \A w \in Versions : Drop(s.table) \in Statements(w) => w > v
IndexesSound ==
    \A v \in Versions : \A n \in Numbers(v) : Nth(v, n).op = "index" =>
        \/ Trailer(v, n)
        \/ Late(v) = {} /\ (Certain(v, n) \/ Overtaken(v, n))

\* Before, the database had whole tables and of the columns that a version adds
\* by ALTERs the first ones, of unguarded ALTERs all or none.
OldSound ==
    /\ \A column \in OldColumns : <<column[1], "*">> \in OldColumns
    /\ \A v \in Versions : \A n, m \in Numbers(v) :
          /\ Genuine(v, n) /\ Genuine(v, m)
          /\ Target(Nth(v, m)) \in OldColumns /\ (n < m \/ Plain(v))
          => Target(Nth(v, n)) \in OldColumns

WellOrdered ==
    /\ Shapes /\ Unique /\ GuardsSound /\ TablesSound /\ LateSound /\ TriesSound
    /\ IndexesSound /\ OldSound
=============================================================================
