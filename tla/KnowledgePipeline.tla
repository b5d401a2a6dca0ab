------------------------- MODULE KnowledgePipeline -------------------------
(***************************************************************************)
(* The knowledge pipeline (service/knowledge): before an agent writes      *)
(* source files it declares the module it works on, searches the cache for *)
(* that domain, reads what was found and attests that it did.  The table   *)
(* uc7ks_pipeline_state keeps a row per pipeline, agent and domain.  The   *)
(* write gate that is to read it (checkUC7KSWrite) asks first whether its  *)
(* rule blocks, which rule-disposition.ts fixes to audit_only: it lets     *)
(* every write pass.  What the rows say is all there is to be right.       *)
(*                                                                         *)
(* A pipeline is the task a call names, else the task its session resolves *)
(* to, else the session.  The tools of several processes work on one row,  *)
(* and an attestation is stored after the discovery it was compared with   *)
(* was read.                                                               *)
(***************************************************************************)
EXTENDS Naturals, FiniteSets

CONSTANTS
    Scholars,       \* sessions
    ScholarAgent,   \* the agent of a session
    Topics,         \* domains
    Studies,        \* DAG tasks
    NoStudy,        \* the empty task id
    Pages,          \* cache files
    Mandatory,      \* mandatory_knowledge.domains in project.config.json
    Names,          \* the pages whose name occurs in a page's
    MaxStages       \* bound on the rows of the table

ASSUME KnowledgeAssumption ==
    /\ NoStudy \notin Studies
    /\ Mandatory \in [Topics -> SUBSET Pages]
    /\ Names \in [Pages -> SUBSET Pages] /\ \A f \in Pages : f \in Names[f]
    /\ MaxStages \in Nat

VARIABLES
    studyOf,        \* session_map.dag_task_id
    seen,           \* read_audit: the files read, by session
    pipelineState,  \* uc7ks_pipeline_state
    attested        \* attestations checked and not stored yet, by session

knowledgeVars == <<studyOf, seen, pipelineState, attested>>

KnowledgeAgents == {ScholarAgent[s] : s \in Scholars}
Pipelines == Studies \cup Scholars
StageKeys == Pipelines \X KnowledgeAgents \X Topics

\* checked is a history: the attestation was compared with Mandatory.
NoStage == [found |-> "none"]
Stage == [found : {"undeclared", "insufficient", "sufficient"}, files : SUBSET Pages,
          verdict : {"unattested", "attested", "insufficient"}, read : SUBSET Pages,
          checked : BOOLEAN]

Attesting == [key : StageKeys, verdict : {"attested", "insufficient"}, read : SUBSET Pages,
              checked : BOOLEAN]

KnowledgeTypeOK ==
    /\ studyOf \in [Scholars -> Studies \cup {NoStudy}]
    /\ seen \in [Scholars -> SUBSET Pages]
    /\ pipelineState \in [StageKeys -> Stage \cup {NoStage}]
    /\ attested \in [Scholars -> SUBSET Attesting]

KnowledgeInit ==
    /\ studyOf = [s \in Scholars |-> NoStudy]
    /\ seen = [s \in Scholars |-> {}]
    /\ pipelineState = [k \in StageKeys |-> NoStage]
    /\ attested = [s \in Scholars |-> {}]

-----------------------------------------------------------------------------
\* resolveTaskId: the session's own task, else the one a child slot or a
\* context file happens to offer, if any.
TasksOf(s) == IF studyOf[s] # NoStudy THEN {studyOf[s]} ELSE Studies \cup {NoStudy}

\* resolvePipelineId for a call of session s that names task t.
KeysOf(t, s, d) ==
    LET tasks == IF t # NoStudy THEN {t} ELSE TasksOf(s)
    IN  {<<IF u = NoStudy THEN s ELSE u, ScholarAgent[s], d>> : u \in tasks}

\* The tools run to their end without a pause, so what comes in between is
\* other processes': a session's own calls do not overlap.
Idle(s) == attested[s] = {}

\* atomicUpsertDiscovery: the attestation columns of a row stay as they are.
Discovered(k, found, files) ==
    /\ Cardinality({r \in StageKeys : pipelineState[r] # NoStage} \cup {k}) <= MaxStages
    /\ pipelineState' = [pipelineState EXCEPT ![k] =
        IF @ = NoStage
        THEN [found |-> found, files |-> files, verdict |-> "unattested", read |-> {},
              checked |-> FALSE]
        ELSE [@ EXCEPT !.found = found, !.files = files]]

\* module_scope_declare: a row without a discovery, and the task of the session.
\* Either statement may fail without a report.
Declare(s, d, t) ==
    /\ Idle(s)
    /\ \/ \E k \in KeysOf(t, s, d) : Discovered(k, "undeclared", {})
       \/ UNCHANGED pipelineState
    /\ \/ t # NoStudy /\ studyOf' = [studyOf EXCEPT ![s] = t]
       \/ UNCHANGED studyOf
    /\ UNCHANGED <<seen, attested>>

\* A search that names its task needs a row that is no longer undeclared.
SearchAllowed(k, t) ==
    t # NoStudy => pipelineState[k].found \in {"insufficient", "sufficient"}

\* knowledge_cache_search, with what the manifest has for the domain just then.
\* A row that cannot be read stands in nobody's way.
Search(s, d, t, hits, unreadable) ==
    /\ Idle(s)
    /\ \E k \in KeysOf(t, s, d) :
          /\ SearchAllowed(k, t) \/ unreadable
          /\ Discovered(k, IF hits # {} THEN "sufficient" ELSE "insufficient", hits)
    /\ UNCHANGED <<studyOf, seen, attested>>

\* The read tool, and the hook that records it.
ReadPage(s, f) ==
    /\ Idle(s)
    /\ seen' = [seen EXCEPT ![s] = @ \cup {f}]
    /\ UNCHANGED <<studyOf, pipelineState, attested>>

\* Every mandatory file occurs in the name of a file read.
MandatoryNamed(d, files) == Mandatory[d] \subseteq UNION {Names[f] : f \in files}

\* Mutant: whatever was discovered counts as read.
AttestUnread(s, k, files, checked) ==
    /\ pipelineState[k] # NoStage
    /\ pipelineState[k].found = "sufficient"
    /\ files # {}
    /\ files \subseteq pipelineState[k].files
    /\ checked => MandatoryNamed(k[3], files)

\* The checks of knowledge_cache_attest: files that the discovery lists, that
\* this session has read, and with them the mandatory ones.  That last check is
\* left out when the configuration cannot be read or does not ask for it.
AttestAllowed(s, k, files, checked) ==
    /\ pipelineState[k] # NoStage
    /\ pipelineState[k].found = "sufficient"
    /\ files # {}
    /\ files \subseteq pipelineState[k].files
    /\ files \subseteq seen[s]
    /\ checked => MandatoryNamed(k[3], files)

\* knowledge_cache_attest up to its last statement; the retry limit is three
\* and the count it is compared with never above one.
CheckAttest(s, d, t, files, verdict) ==
    /\ Idle(s)
    /\ \E k \in KeysOf(t, s, d), checked \in BOOLEAN :
          /\ AttestAllowed(s, k, files, checked)
          /\ attested' = [attested EXCEPT ![s] =
                {[key |-> k, verdict |-> verdict, read |-> files, checked |-> checked]}]
    /\ UNCHANGED <<studyOf, seen, pipelineState>>

\* atomicUpsertAttestation: a transaction that asks only whether the discovery
\* is still sufficient; or it fails, or the process dies first.
StoreAttest(s) ==
    /\ ~Idle(s)
    /\ attested' = [attested EXCEPT ![s] = {}]
    /\ \/ \E a \in attested[s] :
             /\ pipelineState[a.key].found = "sufficient"
             /\ pipelineState' = [pipelineState EXCEPT ![a.key] =
                                   [@ EXCEPT !.verdict = a.verdict, !.read = a.read,
                                             !.checked = a.checked]]
       \/ UNCHANGED pipelineState
    /\ UNCHANGED <<studyOf, seen>>

\* A dispatch maps a session to a task.
Assign(s) ==
    /\ \E t \in Studies : studyOf' = [studyOf EXCEPT ![s] = t]
    /\ UNCHANGED <<seen, pipelineState, attested>>

KnowledgeNext ==
    \E s \in Scholars :
       \/ \E d \in Topics, t \in Studies \cup {NoStudy}, files \in SUBSET Pages :
             \/ Declare(s, d, t)
             \/ \E unreadable \in BOOLEAN : Search(s, d, t, files, unreadable)
             \/ \E verdict \in {"attested", "insufficient"} :
                   CheckAttest(s, d, t, files, verdict)
       \/ \E f \in Pages : ReadPage(s, f)
       \/ StoreAttest(s)
       \/ Assign(s)

KnowledgeSpec == KnowledgeInit /\ [][KnowledgeNext]_knowledgeVars

\* checkUC7KSWrite: shouldBlock("knowledge-cache-miss") is false.
WriteRefused(s, t) == FALSE

-----------------------------------------------------------------------------
\* Properties.

\* A row that carries an attestation tells the truth: a session of its agent has
\* read every file it lists, and they cover what is mandatory for the domain if
\* that was asked, although the attestation is stored after it was checked, by
\* whichever session comes last, and searches and declarations write the row in
\* between (atomicUpsertAttestation, atomicUpsertDiscovery).
AttestedWasRead ==
    \A k \in StageKeys :
        pipelineState[k] # NoStage /\ pipelineState[k].verdict # "unattested" =>
            /\ \E r \in Scholars :
                  /\ ScholarAgent[r] = k[2]
                  /\ pipelineState[k].read # {} /\ pipelineState[k].read \subseteq seen[r]
            /\ pipelineState[k].checked => MandatoryNamed(k[3], pipelineState[k].read)

\* "Writes BLOCKED until re-attested" (cache-attest.ts): a write passes only when
\* every domain declared or searched for the task has been attested.
WritesAfterReading ==
    \A s \in Scholars : \A t \in TasksOf(s) \ {NoStudy} :
        \/ WriteRefused(s, t)
        \/ \A k \in StageKeys :
              k[1] = t /\ k[2] = ScholarAgent[s] /\ pipelineState[k] # NoStage
              => pipelineState[k].verdict = "attested"
=============================================================================
