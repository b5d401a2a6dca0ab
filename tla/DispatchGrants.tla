--------------------------- MODULE DispatchGrants ---------------------------
(***************************************************************************)
(* The dispatch queue (service/dispatch/queue.ts, the dispatch-subagent    *)
(* command and the Task hook marker-consume.ts) and the one-time grants a  *)
(* dispatch may carry: framework maintenance (dispatch/privilege.ts with   *)
(* its plans) and repository operations (repo/grants.ts).  A grant is      *)
(* created with the queue row, bound to a child session by the session     *)
(* plugin, perhaps confirmed by the parent, and used up by the child.      *)
(*                                                                         *)
(* A dispatch key names at most one row for ever (unique index, and        *)
(* neither a running nor an expired row is ever deleted), so rows and      *)
(* grants are functions of the key.  Every hook and tool body is           *)
(* synchronous, hence one step, except where two database statements of    *)
(* one call can be separated by another process: the command enqueues and  *)
(* then creates the grant, and the Task hook without a queue id reads the  *)
(* oldest pending prompt and then leases.                                  *)
(***************************************************************************)
EXTENDS Naturals

CONSTANTS
    Parents,        \* sessions that dispatch
    Children,       \* sessions started by a Task call
    ParentOf,       \* the SDK's session.parent_id
    DispatchKeys,   \* dispatch keys (the token of the prompt)
    JobOf,          \* agent type and DAG task a key's prompt is for
    AgentTypeOf,    \* agent type of a job
    NoSession, NoKey,
    Asked,          \* what a dispatch may ask for (bound): privileges or "none"
    GrantTtl,       \* time to live of a grant, per privilege
    StaleAge,       \* age after which session start expires a pending row
    MaxWrites,      \* write budget of a framework grant
    MaxLaunches     \* the Task calls per key that are counted

RepoPrivileges == {"repo_maintenance", "remote_repo_write"}
Privileges == RepoPrivileges \cup {"framework_maintenance"}

ASSUME GrantsAssumption ==
    /\ ParentOf \in [Children -> Parents]
    /\ NoSession \notin Parents \cup Children
    /\ NoKey \notin DispatchKeys
    /\ Asked \subseteq Privileges \cup {"none"}
    /\ StaleAge \in Nat
    /\ GrantTtl \in [Privileges -> 1 .. StaleAge]
    /\ MaxWrites \in Nat \ {0}
    /\ MaxLaunches \in Nat

VARIABLES
    rows,       \* dispatch_queue
    rowAge,     \* time since created_at, counted up to StaleAge
    asking,     \* per parent: the key whose dispatch has found no duplicate
    command,    \* per parent: the dispatch command that has enqueued and not ended
    found,      \* per parent: the prompt its Task hook has loaded, not yet leased
    grants,     \* dispatch_privilege_grants and repo_operation_grants
    plans,      \* framework_maintenance_plans, by grant
    launched    \* history: Task calls let through with the prompt of a key

grantsVars ==
    <<rows, rowAge, asking, command, found, grants, plans, launched>>

NoRow == [status |-> "none", parent |-> NoSession, owner |-> NoSession]
NoCommand == [key |-> NoKey, privilege |-> "none"]
NoGrant == [status |-> "none", privilege |-> "none", child |-> NoSession,
            confirmed |-> FALSE, used |-> 0]

QueueRow == [status : {"none", "pending", "running", "expired"},
             parent : Parents \cup {NoSession}, owner : Parents \cup {NoSession}]

Grant == [status : {"none", "pending", "bound", "consumed"},
          privilege : Privileges \cup {"none"}, child : Children \cup {NoSession},
          confirmed : BOOLEAN, used : 0 .. MaxWrites]

GrantsTypeOK ==
    /\ rows \in [DispatchKeys -> QueueRow]
    /\ rowAge \in [DispatchKeys -> 0 .. StaleAge]
    /\ asking \in [Parents -> DispatchKeys \cup {NoKey}]
    /\ command \in [Parents -> [key : DispatchKeys \cup {NoKey},
                                privilege : Privileges \cup {"none"}]]
    /\ found \in [Parents -> DispatchKeys \cup {NoKey}]
    /\ grants \in [DispatchKeys -> Grant]
    /\ plans \in [DispatchKeys -> {"none", "active", "completed"}]
    /\ launched \in [DispatchKeys -> 0 .. MaxLaunches]

GrantsInit ==
    /\ rows = [k \in DispatchKeys |-> NoRow]
    /\ rowAge = [k \in DispatchKeys |-> 0]
    /\ asking = [p \in Parents |-> NoKey] /\ command = [p \in Parents |-> NoCommand]
    /\ found = [p \in Parents |-> NoKey]
    /\ grants = [k \in DispatchKeys |-> NoGrant]
    /\ plans = [k \in DispatchKeys |-> "none"]
    /\ launched = [k \in DispatchKeys |-> 0]

-----------------------------------------------------------------------------
\* The dispatch command and the queue.

Live(k) == rows[k].status \in {"pending", "running"}

\* dbCheckDuplicateDispatch: the same agent type and DAG task is in flight.
DuplicateDispatch(k) == \E j \in DispatchKeys : JobOf[j] = JobOf[k] /\ Live(j)

\* dbEnqueueDispatch fails on a key that has a row: the index is unique.
Enqueue(p, k) ==
    /\ rows[k].status = "none"
    /\ rows' = [rows EXCEPT ![k] = [NoRow EXCEPT !.status = "pending",
                                                 !.parent = p]]

\* dispatch-subagent: the check is a statement of its own ...
CheckDispatch(p, k) ==
    /\ asking[p] = NoKey /\ command[p] = NoCommand
    /\ ~DuplicateDispatch(k)
    /\ asking' = [asking EXCEPT ![p] = k]
    /\ UNCHANGED <<rows, rowAge, command, found, grants, plans, launched>>

\* ... and the enqueue after it is fatal when it fails.
Dispatch(p, privilege) ==
    /\ asking[p] # NoKey
    /\ \/ /\ Enqueue(p, asking[p])
          /\ command' = IF privilege = "none" THEN command
                        ELSE [command EXCEPT ![p] = [key |-> asking[p],
                                                     privilege |-> privilege]]
       \/ UNCHANGED <<rows, command>>
    /\ asking' = [asking EXCEPT ![p] = NoKey]
    /\ UNCHANGED <<rowAge, found, grants, plans, launched>>

\* The rest of the command: the grant is created, in a statement of its own...
CreateGrant(p) ==
    /\ command[p] # NoCommand
    /\ grants' = [grants EXCEPT ![command[p].key] =
                    [NoGrant EXCEPT !.status = "pending",
                                    !.privilege = command[p].privilege]]
    /\ command' = [command EXCEPT ![p] = NoCommand]
    /\ UNCHANGED <<asking, rows, rowAge, found, plans, launched>>

\* ... or it is not: the failure is only logged, or the process ends first.
LoseGrant(p) ==
    /\ command[p] # NoCommand
    /\ command' = [command EXCEPT ![p] = NoCommand]
    /\ UNCHANGED <<asking, rows, rowAge, found, grants, plans, launched>>

-----------------------------------------------------------------------------
\* The Task hook: which prompt is launched, and which row is leased.

Launch(k) ==
    launched' = [launched EXCEPT ![k] = IF @ < MaxLaunches THEN @ + 1 ELSE @]

Leased(p, k) == [rows EXCEPT ![k] = [@ EXCEPT !.status = "running", !.owner = p]]

\* Mutant: the UPDATE does not ask for the status.
LeaseAnyway(p, k) == rows' = Leased(p, k)

\* The UPDATE matches a pending row only; when none matches, nothing changes.
LeaseIfPending(p, k) ==
    rows' = IF rows[k].status = "pending" THEN Leased(p, k) ELSE rows

\* A prompt with a queue id, or one that carries its own token and is looked up
\* by it (dbDequeueWithHash): the call goes through whether or not it leased.
TaskWithQueueId(p, k) ==
    /\ rows[k].status # "none"
    /\ found[p] = NoKey
    /\ Launch(k)
    /\ LeaseIfPending(p, k)
    /\ UNCHANGED <<asking, rowAge, command, found, grants, plans>>

OldestPending(agent) ==
    LET pending == {k \in DispatchKeys : /\ rows[k].status = "pending"
                                         /\ AgentTypeOf[JobOf[k]] = agent}
    IN  {k \in pending : \A j \in pending : rowAge[j] <= rowAge[k]}

\* A bare prompt: dbFindPendingDispatch loads the oldest pending prompt ...
TaskFindsPrompt(p, agent) ==
    /\ found[p] = NoKey
    /\ \E k \in OldestPending(agent) : found' = [found EXCEPT ![p] = k]
    /\ UNCHANGED <<asking, rows, rowAge, command, grants, plans, launched>>

\* ... and dbDequeueWithLease leases the row that is then the oldest, if any.
TaskLeasesOldest(p) ==
    /\ found[p] # NoKey
    /\ Launch(found[p])
    /\ LET oldest == OldestPending(AgentTypeOf[JobOf[found[p]]])
       IN  \/ oldest = {} /\ UNCHANGED rows
           \/ \E k \in oldest : rows' = Leased(p, k)
    /\ found' = [found EXCEPT ![p] = NoKey]
    /\ UNCHANGED <<asking, rowAge, command, grants, plans>>

\* Step 4 of session start: pending rows past the limit expire.
ExpireOldRows ==
    /\ rows' = [k \in DispatchKeys |->
                  IF rows[k].status = "pending" /\ rowAge[k] = StaleAge
                  THEN [rows[k] EXCEPT !.status = "expired"] ELSE rows[k]]
    /\ UNCHANGED <<asking, rowAge, command, found, grants, plans, launched>>

-----------------------------------------------------------------------------
\* The grants.

Unexpired(k) == rowAge[k] < GrantTtl[grants[k].privilege]

Newest(S) == {k \in S : \A j \in S : rowAge[k] <= rowAge[j]}

\* Mutants: the key in flight of any parent, and one of several.
AnyDispatchKey(c) ==
    LET keys == {k \in DispatchKeys : Live(k)} IN {k \in keys : keys = {k}}
SomeDispatchKey(c) == {k \in DispatchKeys : rows[k].parent = ParentOf[c] /\ Live(k)}

\* resolveChildDispatchKey: the only key in flight of the child's parent.
ChildDispatchKey(c) ==
    LET keys == {k \in DispatchKeys : rows[k].parent = ParentOf[c] /\ Live(k)}
    IN  {k \in keys : keys = {k}}

\* Mutant: a bound grant is bound again.
BindGrantAgain(c) ==
    /\ \E k \in ChildDispatchKey(c) :
          /\ grants[k].status \in {"pending", "bound"} /\ Unexpired(k)
          /\ grants' = [grants EXCEPT ![k] = [@ EXCEPT !.status = "bound", !.child = c]]
    /\ UNCHANGED <<asking, rows, rowAge, command, found, plans, launched>>

\* session.created and chat.message: bindGrant and bindRepoGrant of that key.
BindGrant(c) ==
    /\ \E k \in ChildDispatchKey(c) :
          /\ grants[k].status = "pending" /\ Unexpired(k)
          /\ grants' = [grants EXCEPT ![k] = [@ EXCEPT !.status = "bound",
                                                       !.child = c]]
    /\ UNCHANGED <<asking, rows, rowAge, command, found, plans, launched>>

\* confirm_repo_grant: the parent's newest open grant of the privilege.
ConfirmRepoGrant(p, privilege) ==
    LET open == {k \in DispatchKeys : /\ rows[k].parent = p
                                      /\ grants[k].privilege = privilege
                                      /\ grants[k].status \in {"pending", "bound"}
                                      /\ Unexpired(k)}
    IN  /\ \E k \in Newest(open) : grants' = [grants EXCEPT ![k].confirmed = TRUE]
        /\ UNCHANGED <<asking, rows, rowAge, command, found, plans, launched>>

\* hasGrant and hasRepoGrant: the newest bound, unexpired grant of the child.
Usable(c, privilege) ==
    {k \in DispatchKeys : /\ grants[k].status = "bound"
                          /\ grants[k].child = c
                          /\ grants[k].privilege = privilege
                          /\ Unexpired(k)}

HeldGrant(c, privilege) == Newest(Usable(c, privilege))

\* framework_maintenance_plan: one active plan per grant.
DeclarePlan(c) ==
    /\ \E k \in HeldGrant(c, "framework_maintenance") :
          /\ plans[k] # "active"
          /\ plans' = [plans EXCEPT ![k] = "active"]
    /\ UNCHANGED <<asking, rows, rowAge, command, found, grants, launched>>

\* Mutant: the budget is compared before the write is counted.
RecordedWriteLate(k) ==
    [grants[k] EXCEPT !.used = @ + 1,
                      !.status = IF grants[k].used >= MaxWrites THEN "consumed" ELSE @]

\* recordGrantWrite: the write that reaches the budget consumes the grant.
RecordedWrite(k) ==
    [grants[k] EXCEPT !.used = @ + 1,
                      !.status = IF grants[k].used + 1 >= MaxWrites THEN "consumed" ELSE @]

\* safe_framework_edit: grant, then plan, then the write, then the record.  A
\* write whose record fails changes no row of this model.
FrameworkEdit(c) ==
    /\ \E k \in HeldGrant(c, "framework_maintenance") :
          /\ plans[k] = "active"
          /\ grants' = [grants EXCEPT ![k] = RecordedWrite(k)]
    /\ UNCHANGED <<asking, rows, rowAge, command, found, plans, launched>>

\* framework_maintenance_complete ends the plan and the grant.
CompleteMaintenance(c) ==
    /\ \E k \in HeldGrant(c, "framework_maintenance") :
          /\ plans' = [plans EXCEPT ![k] = IF @ = "active" THEN "completed" ELSE @]
          /\ grants' = [grants EXCEPT ![k].status = "consumed"]
    /\ UNCHANGED <<asking, rows, rowAge, command, found, launched>>

\* safe_repo_commit, safe_repo_push and the gh tools: one effect, then consume.
RepoWrite(c, privilege) ==
    /\ \E k \in HeldGrant(c, privilege) :
          /\ privilege = "remote_repo_write" => grants[k].confirmed
          /\ grants' = [grants EXCEPT ![k] = [@ EXCEPT !.used = 1,
                                                       !.status = "consumed"]]
    /\ UNCHANGED <<asking, rows, rowAge, command, found, plans, launched>>

\* Time passes; the calls in progress above take none.
Age ==
    /\ \A p \in Parents : command[p] = NoCommand /\ found[p] = NoKey
    /\ rowAge' = [k \in DispatchKeys |->
                    IF rows[k].status # "none" /\ rowAge[k] < StaleAge
                    THEN rowAge[k] + 1 ELSE rowAge[k]]
    /\ UNCHANGED <<asking, rows, command, found, grants, plans, launched>>

GrantsNext ==
    \/ \E p \in Parents :
          \/ \E k \in DispatchKeys : CheckDispatch(p, k) \/ TaskWithQueueId(p, k)
          \/ \E v \in Asked : Dispatch(p, v)
          \/ CreateGrant(p) \/ LoseGrant(p)
          \/ \E k \in DispatchKeys : TaskFindsPrompt(p, AgentTypeOf[JobOf[k]])
          \/ TaskLeasesOldest(p)
          \/ \E v \in RepoPrivileges : ConfirmRepoGrant(p, v)
    \/ \E c \in Children :
          \/ BindGrant(c)
          \/ DeclarePlan(c) \/ FrameworkEdit(c) \/ CompleteMaintenance(c)
          \/ \E v \in RepoPrivileges : RepoWrite(c, v)
    \/ ExpireOldRows
    \/ Age

GrantsSpec == GrantsInit /\ [][GrantsNext]_grantsVars

-----------------------------------------------------------------------------
\* Properties.

\* A grant is only ever held by a child of the session that dispatched it
\* (resolveChildDispatchKey matches parent_session_id, not the lease).
HeldByOwnChild ==
    \A k \in DispatchKeys :
        grants[k].child # NoSession => ParentOf[grants[k].child] = rows[k].parent

\* A child never has two usable grants of one privilege, so hasGrant's choice
\* of the newest never matters (the fail-closed rule of resolveChildDispatchKey,
\* together with 24 h of row life against minutes of grant life).
OneUsableGrant ==
    \A c \in Children, v \in Privileges :
        \A j, k \in Usable(c, v) : j = k

\* The writes recorded on a grant stay within its budget, and a grant that has
\* used its budget is no longer bound (recordGrantWrite, consumeRepoGrant).
BudgetHonoured ==
    \A k \in DispatchKeys :
        LET budget == IF grants[k].privilege \in RepoPrivileges THEN 1 ELSE MaxWrites
        IN  /\ grants[k].used <= budget
            /\ grants[k].used = budget => grants[k].status = "consumed"

\* A leased row keeps its owner for ever: no second lease, whichever of the
\* three ways of the Task hook two sessions take (the UPDATE's status test).
LeaseIsExclusive ==
    [][\A k \in DispatchKeys : rows[k].owner # NoSession => rows'[k] = rows[k]]_grantsVars

\* A grant once bound is never bound again, to the same or another child.
BoundOnce ==
    [][\A k \in DispatchKeys :
          grants[k].child # NoSession => grants'[k].child = grants[k].child]_grantsVars

\* A dispatched prompt is launched at most once (the lease design comment of
\* db-manager.ts: "This prevents double-consumption").
LaunchedOnce == \A k \in DispatchKeys : launched[k] <= 1
=============================================================================
