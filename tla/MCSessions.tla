----------------------------- MODULE MCSessions -----------------------------
(***************************************************************************)
(* The services around a session, each on a small instance of its own.     *)
(* They share no variable, so a behaviour chooses one of them and the      *)
(* others stay as they began: a property of a service holds or fails here  *)
(* as it would in a run of that service alone.                             *)
(***************************************************************************)
EXTENDS DispatchGrants, SessionRegistry, Checklist, SkillGate, Guidance,
        KnowledgePipeline, TLC

CONSTANTS
    lead, peer, kidA, kidB, keyA, keyB,     \* dispatch
    root, child, jobA, jobB,                \* session registry
    boss, coder,                            \* checklist, guidance
    readerA, readerB,                       \* skill gate
    topic, page, copy                       \* knowledge pipeline

MCParentOf == [c \in Children |-> lead]
MCJobOf == (keyA :> "a") @@ (keyB :> "b")
MCAgentTypeOf == [j \in {"a", "b"} |-> "coder"]
MCGrantTtl == [v \in Privileges |-> 1]

MCParent == (root :> NoParent) @@ (child :> root)

MCRoleOf == (boss :> "Orchestrator") @@ (coder :> "Coder")
MCStartedFor == (boss :> NoTask) @@ (coder :> "task")

MCReaderRole == [s \in Readers |-> "coder"]

MCScholarAgent == [s \in Scholars |-> "coder"]
MCMandatory == (topic :> {page})
MCNames == (page :> {page}) @@ (copy :> {page, copy})

-----------------------------------------------------------------------------
VARIABLE part   \* the service of this behaviour

sessionsVars ==
    <<part, grantsVars, registryVars, checklistVars, skillVars, guidanceVars, knowledgeVars>>

Services == {"dispatch", "registry", "checklist", "skill", "guidance", "knowledge"}

SessionsInit ==
    /\ part \in Services
    /\ GrantsInit /\ RegistryInit /\ ChecklistInit /\ SkillInit /\ GuidanceInit
    /\ KnowledgeInit
    /\ part = "skill" \/ \A s \in Readers, f \in SkillFiles :
                            content[f] = "text" /\ scopeOf[s] = "one"

Only(service) ==
    /\ part = service /\ part' = part
    /\ service # "dispatch" => UNCHANGED grantsVars
    /\ service # "registry" => UNCHANGED registryVars
    /\ service # "checklist" => UNCHANGED checklistVars
    /\ service # "skill" => UNCHANGED skillVars
    /\ service # "guidance" => UNCHANGED guidanceVars
    /\ service # "knowledge" => UNCHANGED knowledgeVars

SessionsNext ==
    \/ part = "dispatch" /\ GrantsNext /\ Only("dispatch")
    \/ part = "registry" /\ RegistryNext /\ Only("registry")
    \/ part = "checklist" /\ ChecklistNext /\ Only("checklist")
    \/ part = "skill" /\ SkillNext /\ Only("skill")
    \/ part = "guidance" /\ GuidanceNext /\ Only("guidance")
    \/ part = "knowledge" /\ KnowledgeNext /\ Only("knowledge")

SessionsSpec == SessionsInit /\ [][SessionsNext]_sessionsVars

\* The rows of every service keep the shape the code gives them.
SessionsTypeOK ==
    CASE part = "dispatch" -> GrantsTypeOK
      [] part = "registry" -> RegistryTypeOK
      [] part = "checklist" -> ChecklistTypeOK
      [] part = "skill" -> SkillTypeOK
      [] part = "guidance" -> GuidanceTypeOK
      [] part = "knowledge" -> KnowledgeTypeOK
=============================================================================
