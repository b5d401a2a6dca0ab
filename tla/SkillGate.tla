----------------------------- MODULE SkillGate -----------------------------
(***************************************************************************)
(* Reads and what they entitle to: the read audit (service/file-guard/     *)
(* read-audit-*.ts), the attestation of required skill reads               *)
(* (service/session/skill-attest.ts) and the policy that blocks the tools  *)
(* of a session without one (plugin-handlers/before/skill-policy.ts), with *)
(* FRAMEWORK_SKILL_READ_HARD_GATE set.                                     *)
(*                                                                         *)
(* Plugins are synchronous, but files belong to everyone: an edit may come *)
(* between the read tool and the hook that records the read, and between   *)
(* the hash an attestation notes and the check of the audit.  A hash is    *)
(* the content itself.                                                     *)
(***************************************************************************)
EXTENDS Naturals

CONSTANTS
    Readers,        \* sessions
    ReaderRoles,    \* agent types
    ReaderRole,     \* the agent type of a session
    SkillFiles,          \* skill files
    Contents,       \* contents a file may have
    NoFile,        \* the content of a file that is not there
    Scopes          \* task_scope_id values a session may resolve to

ASSUME SkillAssumption ==
    /\ ReaderRole \in [Readers -> ReaderRoles]
    /\ NoFile \notin Contents

VARIABLES
    content,        \* the files
    required,       \* required_skill_reads in project.config.json
    scopeOf,        \* what resolveSkillAttestationIdentity gives a session
    reading,        \* reads whose hook has not run: file and what was delivered
    audit,          \* read_audit: the newest record per role and file
    attesting,      \* attestations under way: what they noted
    skillState,     \* skill_read_state, by session
    everRead        \* history: full reads recorded, with the hash recorded

skillVars ==
    <<content, required, scopeOf, reading, audit, attesting, skillState, everRead>>

NeverRead == [hash |-> NoFile, full |-> FALSE, recent |-> FALSE]

\* Nothing, or what is attested: the scope and the hash of every file.
Attestations == [scope : Scopes, files : UNION {[S -> Contents] : S \in SUBSET SkillFiles}]

SkillTypeOK ==
    /\ content \in [SkillFiles -> Contents \cup {NoFile}]
    /\ required \in SUBSET SkillFiles
    /\ scopeOf \in [Readers -> Scopes]
    /\ reading \in [Readers -> SUBSET SkillFiles]
    /\ audit \in [ReaderRoles \X SkillFiles -> [hash : Contents \cup {NoFile},
                                           full : BOOLEAN, recent : BOOLEAN]]
    /\ attesting \in [Readers -> SUBSET Attestations]
    /\ skillState \in [Readers -> SUBSET Attestations]
    /\ everRead \in SUBSET (ReaderRoles \X SkillFiles \X (Contents \cup {NoFile}))

SkillInit ==
    /\ content \in [SkillFiles -> Contents]
    /\ required = SkillFiles
    /\ \E scope \in Scopes : scopeOf = [s \in Readers |-> scope]
    /\ reading = [s \in Readers |-> {}]
    /\ audit = [rf \in ReaderRoles \X SkillFiles |-> NeverRead]
    /\ attesting = [s \in Readers |-> {}]
    /\ skillState = [s \in Readers |-> {}]
    /\ everRead = {}

-----------------------------------------------------------------------------
\* The world around: files, configuration and session_map.

Edit(f) ==
    /\ \E c \in Contents \cup {NoFile} : content' = [content EXCEPT ![f] = c]
    /\ UNCHANGED <<required, scopeOf, reading, audit, attesting, skillState, everRead>>

Configure ==
    /\ required' \in SUBSET SkillFiles
    /\ UNCHANGED <<content, scopeOf, reading, audit, attesting, skillState, everRead>>

MapSession(s) ==
    /\ \E scope \in Scopes : scopeOf' = [scopeOf EXCEPT ![s] = scope]
    /\ UNCHANGED <<content, required, reading, audit, attesting, skillState, everRead>>

-----------------------------------------------------------------------------
\* The read audit.

\* The read tool delivers the file ...
ReadTool(s, f) ==
    /\ content[f] # NoFile
    /\ reading' = [reading EXCEPT ![s] = {f}]
    /\ UNCHANGED <<content, required, scopeOf, audit, attesting, skillState, everRead>>

\* ... and the hook records the hash and size the file has then.  A file that
\* is gone is recorded without a hash, and as read in full (size 0).
TrackRead(s, full) ==
    /\ \E f \in reading[s] :
          LET role == ReaderRole[s]
              whole == full \/ content[f] = NoFile
          IN  /\ audit' = [audit EXCEPT ![<<role, f>>] =
                             [hash |-> content[f], full |-> whole, recent |-> TRUE]]
              /\ everRead' = IF whole THEN everRead \cup {<<role, f, content[f]>>}
                             ELSE everRead
    /\ reading' = [reading EXCEPT ![s] = {}]
    /\ UNCHANGED <<content, required, scopeOf, attesting, skillState>>

\* read_max_age_ms goes by; the newest 10000 records outlast it.
ReadsAge ==
    /\ audit' = [rf \in ReaderRoles \X SkillFiles |-> [audit[rf] EXCEPT !.recent = FALSE]]
    /\ UNCHANGED <<content, required, scopeOf, reading, attesting, skillState, everRead>>

\* Mutant: a partial read will do.
VerifyPartial(role, f) ==
    LET r == audit[<<role, f>>]
    IN  /\ r.recent
        /\ r.hash # NoFile /\ content[f] # NoFile => r.hash = content[f]

\* verifyRead, asked without a session: any session of the role will do.  A
\* record without a hash is not compared, and a file that cannot be read counts
\* as unchanged.
VerifyRead(role, f) ==
    LET r == audit[<<role, f>>]
    IN  /\ r.recent /\ r.full
        /\ r.hash # NoFile /\ content[f] # NoFile => r.hash = content[f]

-----------------------------------------------------------------------------
\* skill_read_attest.

\* The session's attestation is dropped first, unless that statement fails;
\* then every required file is hashed, and one that is missing fails the call.
BeginAttest(s) ==
    /\ attesting[s] = {}
    /\ \/ skillState' = [skillState EXCEPT ![s] = {}]
       \/ UNCHANGED skillState
    /\ attesting' = [attesting EXCEPT ![s] =
                       IF required # {} /\ \A f \in required : content[f] # NoFile
                       THEN {[scope |-> scopeOf[s],
                              files |-> [f \in required |-> content[f]]]}
                       ELSE {}]
    /\ UNCHANGED <<content, required, scopeOf, reading, audit, everRead>>

\* The audit is asked about each of those files, and the attestation stored,
\* unless that statement fails.
FinishAttest(s) ==
    /\ \E a \in attesting[s] :
          \/ /\ \A f \in DOMAIN a.files : VerifyRead(ReaderRole[s], f)
             /\ skillState' = [skillState EXCEPT ![s] = {a}]
          \/ UNCHANGED skillState
    /\ attesting' = [attesting EXCEPT ![s] = {}]
    /\ UNCHANGED <<content, required, scopeOf, reading, audit, everRead>>

\* validateSkillAttestation: what skill-policy asks before every other tool.
Valid(s) ==
    /\ required # {}
    /\ \E a \in skillState[s] :
          /\ a.scope = scopeOf[s]
          /\ a.files = [f \in required |-> content[f]]

SkillNext ==
    \/ \E f \in SkillFiles : Edit(f)
    \/ Configure
    \/ \E s \in Readers :
          \/ MapSession(s)
          \/ \E f \in SkillFiles : ReadTool(s, f)
          \/ \E full \in BOOLEAN : TrackRead(s, full)
          \/ BeginAttest(s) \/ FinishAttest(s)
    \/ ReadsAge

SkillSpec == SkillInit /\ [][SkillNext]_skillVars

-----------------------------------------------------------------------------
\* Properties.

\* While a session's tools are open, each required file has been read in full
\* by its role, as far as the audit can tell (verifyRead, and the required list
\* that the attestation is compared with).
OpenMeansRead ==
    \A s \in Readers : Valid(s) =>
        \A f \in required : \E c \in Contents \cup {NoFile} :
            <<ReaderRole[s], f, c>> \in everRead

\* ... and with the content it has now: verifyRead says of a file with another
\* hash that it "has been modified since you read it".
OpenMeansReadThis ==
    \A s \in Readers : Valid(s) =>
        \A f \in required : <<ReaderRole[s], f, content[f]>> \in everRead
=============================================================================
