-------------------------- MODULE SessionRegistry --------------------------
(***************************************************************************)
(* The session map (service/session/session-map.ts, dbWriteSessionMap in   *)
(* lib/db-state-manager.ts): which agent, job and domain a session has.    *)
(* The hooks of the session plugin, dispatches and scope declarations      *)
(* write it, the startup cleanup and the nightly compaction delete from    *)
(* it, and the gate check accepts a task id on its evidence                *)
(* (service/gate/dispatch-integrity.ts).                                   *)
(*                                                                         *)
(* An action is what one process does between two awaits.  Left out: the   *)
(* table session_registry, written beside the map and read by nothing, and *)
(* the ctx files, which nothing writes.                                    *)
(***************************************************************************)
EXTENDS Naturals, FiniteSets

CONSTANTS
    Sessions,
    NoParent,
    Parent,         \* the SDK's parent of a session, NoParent for a root
    AgentTypes, Jobs, Domains,
    None,           \* NULL
    MapLimit        \* session_map's 50 rows

ASSUME RegistryAssumption ==
    /\ NoParent \notin Sessions
    /\ None \notin AgentTypes \cup Jobs \cup Domains \cup {"pending"}
    /\ Parent \in [Sessions -> Sessions \cup {NoParent}]
    /\ MapLimit \in Nat \ {0}

\* The session_id "dispatch:child:<job>".
Slot(j) == <<"dispatch:child", j>>
Keys == Sessions \cup {Slot(j) : j \in Jobs}

VARIABLES
    sessionMap,     \* the rows of session_map
    recency,        \* pairs of keys: the first one's updated_at is the later or the same row's
    dayOld,         \* keys of rows not written for 24 hours
    queuedBy,       \* dispatch_queue, which keeps its rows: who enqueued each job
    logged          \* jobs with a 'dispatched' row in session_events

registryVars == <<sessionMap, recency, dayOld, queuedBy, logged>>

NoMapRow == [agent |-> None, job |-> None, domain |-> None, parent |-> NoParent]
Rows == [agent : AgentTypes \cup {None, "pending"}, job : Jobs \cup {None},
         domain : Domains \cup {None}, parent : Sessions \cup {NoParent}]

\* The keys an order is about; and that it puts them one after the other.
Ordered(order) == {k \in Keys : <<k, k>> \in order}
Linear(order) ==
    /\ \A k, l \in Keys : <<k, l>> \in order => k \in Ordered(order) /\ l \in Ordered(order)
    /\ \A k, l \in Ordered(order) :
          /\ <<k, l>> \in order \/ <<l, k>> \in order
          /\ <<k, l>> \in order /\ <<l, k>> \in order => k = l
    /\ \A k, l, m \in Ordered(order) :
          <<k, l>> \in order /\ <<l, m>> \in order => <<k, m>> \in order

RegistryTypeOK ==
    /\ sessionMap \in [Keys -> Rows]
    /\ recency \in SUBSET (Keys \X Keys) /\ Linear(recency)
    /\ \A k \in Keys : (sessionMap[k] # NoMapRow) <=> (k \in Ordered(recency))
    /\ dayOld \subseteq Ordered(recency)
    /\ queuedBy \in [Jobs -> SUBSET Sessions]
    /\ logged \subseteq {j \in Jobs : queuedBy[j] # {}}

RegistryInit ==
    /\ sessionMap = [k \in Keys |-> NoMapRow]
    /\ recency = {}
    /\ dayOld = {}
    /\ queuedBy = [j \in Jobs |-> {}]
    /\ logged = {}

-----------------------------------------------------------------------------
\* Mutant: the upsert without COALESCE.
GivenOnly(new, old) == new
Given(new, old) == IF new = None THEN old ELSE new

\* dbWriteSessionMap's four statements: a job or a domain that is not given
\* stays, the parent is the first one written, the agent is the last.
Written(row, agent, job, domain, parent) ==
    [agent |-> agent, job |-> Given(job, row.job), domain |-> Given(domain, row.domain),
     parent |-> IF row.parent = NoParent THEN parent ELSE row.parent]

Without(order, gone) == {pair \in order : pair[1] \notin gone /\ pair[2] \notin gone}

\* Mutant: an insert that leaves the old row.
TouchedAgain(order, k) == order \cup ({k} \X (Ordered(order) \cup {k}))
Touched(order, k) == Without(order, {k}) \cup ({k} \X (Ordered(order) \cup {k}))

WriteRow(k, agent, job, domain, parent) ==
    /\ sessionMap' = [sessionMap EXCEPT ![k] = Written(@, agent, job, domain, parent)]
    /\ recency' = Touched(recency, k)
    /\ dayOld' = dayOld \ {k}

DeleteRows(gone) ==
    /\ sessionMap' = [k \in Keys |-> IF k \in gone THEN NoMapRow ELSE sessionMap[k]]
    /\ recency' = Without(recency, gone)
    /\ dayOld' = dayOld \ gone

-----------------------------------------------------------------------------
\* session.created.
SessionCreated(s, agent) ==
    /\ WriteRow(s, agent, None, None, Parent[s])
    /\ UNCHANGED <<queuedBy, logged>>

\* cleanOrphanSessionMaps: nothing writes session_log, so every row of a session
\* that is a day old is an orphan.
Orphans == dayOld \cap Sessions

\* chat.message: the startup cleanup, then writeSessionMapWithConstraint with
\* the job and the domain the session's own row has.
ChatMessage(s, agent) ==
    LET kept == IF s \in Orphans THEN NoMapRow ELSE sessionMap[s]
    IN  /\ sessionMap' = [k \in Keys |->
                            IF k = s THEN Written(kept, agent, kept.job, kept.domain, Parent[s])
                            ELSE IF k \in Orphans THEN NoMapRow ELSE sessionMap[k]]
        /\ recency' = Touched(Without(recency, Orphans), s)
        /\ dayOld' = dayOld \ Sessions
        /\ UNCHANGED <<queuedBy, logged>>

\* The dispatch command enqueues the job; it may be all that happens.
EnqueueJob(s, j) ==
    /\ queuedBy' = [queuedBy EXCEPT ![j] = @ \cup {s}]
    /\ UNCHANGED <<sessionMap, recency, dayOld, logged>>

\* The router when the command has returned: the dispatching session's row gets
\* the job too, the child's slot is written, and the event, whose failure is
\* only reported.
RegisterDispatch(s, j, agent, domain) ==
    /\ s \in queuedBy[j]
    /\ sessionMap' = [sessionMap EXCEPT
         ![s] = Written(@, IF @.agent = None THEN "pending" ELSE @.agent,
                        j, domain, NoParent),
         ![Slot(j)] = Written(@, agent, j, domain, NoParent)]
    /\ recency' = Touched(Touched(recency, s), Slot(j))
    /\ dayOld' = dayOld \ {s, Slot(j)}
    /\ logged' \in {logged, logged \cup {j}}
    /\ UNCHANGED queuedBy

\* module_scope_declare: the job is the caller's argument, and the upsert names
\* no parent.  With no job given, a domain already on the row is replaced and a
\* missing one stays missing.
DeclareScope(s, agent, j, domain) ==
    /\ IF j # None
       THEN WriteRow(s, agent, j, domain, NoParent)
       ELSE /\ sessionMap[s].domain \notin {None, domain}
            /\ WriteRow(s, agent, None, domain, NoParent)
    /\ UNCHANGED <<queuedBy, logged>>

\* dbCleanStaleEntries, from the nightly compaction: the newest rows stay,
\* whosever they are.
Superseded ==
    {k \in Ordered(recency) :
        Cardinality({l \in Keys : <<l, k>> \in recency}) > MapLimit}
Compact ==
    /\ Superseded # {}
    /\ DeleteRows(Superseded)
    /\ UNCHANGED <<queuedBy, logged>>

\* Rows grow old in the order of their last write.
DayPasses ==
    /\ \E k \in Ordered(recency) : dayOld' = dayOld \cup {l \in Keys : <<k, l>> \in recency}
    /\ UNCHANGED <<sessionMap, recency, queuedBy, logged>>

RegistryNext ==
    \/ \E s \in Sessions, a \in AgentTypes :
          \/ SessionCreated(s, a) \/ ChatMessage(s, a)
          \/ \E d \in Domains :
                \/ \E j \in Jobs : RegisterDispatch(s, j, a, d)
                \/ \E j \in Jobs \cup {None} : DeclareScope(s, a, j, d)
    \/ \E s \in Sessions, j \in Jobs : EnqueueJob(s, j)
    \/ Compact \/ DayPasses

RegistrySpec == RegistryInit /\ [][RegistryNext]_registryVars

-----------------------------------------------------------------------------
\* validateDispatchTaskIntegrity: a job is refused as fabricated when some job
\* is on the map and this one is neither there nor in the fallback tables.
OnMap(j) == \E k \in Keys : sessionMap[k].job = j
InFallback(j) == queuedBy[j] # {} \/ j \in logged
Refused(j) ==
    /\ ~OnMap(j) /\ ~InFallback(j)
    /\ \E other \in Jobs : OnMap(other)

\* Properties.

\* While a session's row lives no write takes its job or its domain away or
\* moves it to another parent: hooks that know less leave what is there.
NothingForgotten ==
    [][\A k \in Keys :
         LET old == sessionMap[k]
             new == sessionMap'[k]
         IN  old # NoMapRow /\ new # NoMapRow /\ k \notin dayOld =>
               /\ old.job # None => new.job # None
               /\ old.domain # None => new.domain # None
               /\ old.parent # NoParent => new.parent = old.parent]_registryVars

\* "agent identity preserved: ... (SQL COALESCE will ignore attempted value)",
\* says upsertSessionMap when another agent is written over a row's.
AgentImmutable ==
    [][\A s \in Sessions :
         sessionMap[s].agent \in AgentTypes /\ sessionMap'[s] # NoMapRow /\ s \notin dayOld
             => sessionMap'[s].agent = sessionMap[s].agent]_registryVars

\* "task_id ... is not registered in any dispatch session": a job the check
\* accepts while others are on the map was dispatched.
AcceptedIsDispatched ==
    \A j \in Jobs : (\E other \in Jobs : OnMap(other)) /\ ~Refused(j) => queuedBy[j] # {}
=============================================================================
