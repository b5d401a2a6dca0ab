------------------------ MODULE DispatchGrantsProofs ------------------------
(***************************************************************************)
(* Proofs about dispatch rows and one-time grants, for any number of       *)
(* parents, children and dispatch keys, every budget and every time to     *)
(* live up to the age at which rows expire.                                *)
(***************************************************************************)
EXTENDS DispatchGrants, TLAPS

-----------------------------------------------------------------------------
(* The invariants the properties rest on *)

\* What one row of the queue says by itself: only a lease names an owner, and
\* only old rows expire.
RowSound(k) ==
    /\ rows[k].owner # NoSession => rows[k].status = "running"
    /\ rows[k].status = "expired" => rowAge[k] = StaleAge

\* A grant has its row, and a holder only from the moment it is bound.
GrantSound(k) ==
    /\ grants[k] # NoGrant => rows[k].status # "none"
    /\ grants[k].child # NoSession => grants[k].status \in {"bound", "consumed"}

\* A dispatch command that is still to create its grant has its row, and the
\* grant is not there yet.
CommandSound(p) ==
    command[p] # NoCommand =>
        /\ command[p].key \in DispatchKeys
        /\ rows[command[p].key].status # "none"
        /\ rows[command[p].key].parent = p
        /\ grants[command[p].key] = NoGrant

QueueSound ==
    /\ \A k \in DispatchKeys : RowSound(k) /\ GrantSound(k)
    /\ \A p \in Parents : CommandSound(p)

IInv == GrantsTypeOK /\ QueueSound /\ HeldByOwnChild /\ BudgetHonoured /\ OneUsableGrant

-----------------------------------------------------------------------------
(* Type correctness *)

\* The two writes to a row, whoever makes them.
LEMMA RowTypes ==
  ASSUME GrantsTypeOK, NEW p \in Parents, NEW k \in DispatchKeys
  PROVE  /\ Leased(p, k) \in [DispatchKeys -> QueueRow]
         /\ [rows EXCEPT ![k] = [NoRow EXCEPT !.status = "pending", !.parent = p]]
              \in [DispatchKeys -> QueueRow]
<1>1. rows[k] \in QueueRow
  BY DEF GrantsTypeOK
<1>2. /\ [rows[k] EXCEPT !.status = "running", !.owner = p] \in QueueRow
      /\ [NoRow EXCEPT !.status = "pending", !.parent = p] \in QueueRow
  BY <1>1 DEF NoRow, QueueRow
<1> QED
  BY <1>2 DEF GrantsTypeOK, Leased

LEMMA NoGrantType == NoGrant \in Grant
BY GrantsAssumption DEF NoGrant, Grant

\* A bound grant has writes left, so recordGrantWrite counts within the budget.
LEMMA WriteTypes ==
  ASSUME GrantsTypeOK, BudgetHonoured, NEW k \in DispatchKeys,
         grants[k].status = "bound", grants[k].privilege = "framework_maintenance"
  PROVE  /\ grants[k].used + 1 \in 0 .. MaxWrites
         /\ RecordedWrite(k) \in Grant
<1>1. grants[k] \in Grant /\ grants[k].used \in 0 .. MaxWrites
  BY DEF GrantsTypeOK, Grant
<1>2. "framework_maintenance" \notin RepoPrivileges
  BY DEF RepoPrivileges
<1>3. grants[k].used # MaxWrites
  BY <1>2 DEF BudgetHonoured
<1>4. grants[k].used + 1 \in 0 .. MaxWrites
  BY <1>1, <1>3, GrantsAssumption
<1>5. \A s \in {"bound", "consumed"} :
        [grants[k] EXCEPT !.used = grants[k].used + 1, !.status = s] \in Grant
  BY <1>1, <1>4 DEF Grant
<1> QED BY <1>4, <1>5 DEF RecordedWrite

\* Every variable keeps its shape.
LEMMA GrantsTypeStep == IInv /\ [GrantsNext]_grantsVars => GrantsTypeOK'
<1> SUFFICES ASSUME IInv, [GrantsNext]_grantsVars PROVE GrantsTypeOK'
  OBVIOUS
<1> GrantsTypeOK /\ BudgetHonoured
  BY DEF IInv
<1> \A k \in DispatchKeys : grants[k] \in Grant
  BY DEF GrantsTypeOK
<1>1. CASE UNCHANGED grantsVars
  BY <1>1 DEF grantsVars, GrantsTypeOK
<1>16. ASSUME NEW p \in Parents, NEW k \in DispatchKeys, CheckDispatch(p, k)
       PROVE  GrantsTypeOK'
  BY <1>16 DEF CheckDispatch, GrantsTypeOK
<1>2. ASSUME NEW p \in Parents, NEW v \in Asked, Dispatch(p, v) PROVE GrantsTypeOK'
  <2>1. asking' \in [Parents -> DispatchKeys \cup {NoKey}] /\ asking[p] \in DispatchKeys
    BY <1>2 DEF Dispatch, GrantsTypeOK
  <2>2. CASE UNCHANGED <<rows, command>>
    BY <1>2, <2>1, <2>2 DEF Dispatch, GrantsTypeOK
  <2>3. CASE /\ Enqueue(p, asking[p])
             /\ command' = IF v = "none" THEN command
                           ELSE [command EXCEPT ![p] = [key |-> asking[p], privilege |-> v]]
    <3>1. rows' \in [DispatchKeys -> QueueRow]
      BY <2>1, <2>3, RowTypes DEF Enqueue
    <3>2. v \in Privileges \cup {"none"}
      BY GrantsAssumption
    <3>3. command' \in [Parents -> [key : DispatchKeys \cup {NoKey},
                                  privilege : Privileges \cup {"none"}]]
      BY <2>1, <2>3, <3>2 DEF GrantsTypeOK
    <3> QED BY <1>2, <2>1, <3>1, <3>3 DEF Dispatch, GrantsTypeOK
  <2> QED BY <1>2, <2>2, <2>3 DEF Dispatch
<1>3. ASSUME NEW p \in Parents, CreateGrant(p) PROVE GrantsTypeOK'
  <2>1. command[p].privilege \in Privileges \cup {"none"}
    BY DEF GrantsTypeOK
  <2>2. [NoGrant EXCEPT !.status = "pending", !.privilege = command[p].privilege] \in Grant
    BY <2>1, NoGrantType DEF Grant
  <2>3. grants' \in [DispatchKeys -> Grant]
    BY <1>3, <2>2 DEF CreateGrant, GrantsTypeOK
  <2>4. command' \in [Parents -> [key : DispatchKeys \cup {NoKey},
                                  privilege : Privileges \cup {"none"}]]
    BY <1>3 DEF CreateGrant, GrantsTypeOK, NoCommand
  <2> QED BY <1>3, <2>3, <2>4 DEF CreateGrant, GrantsTypeOK
<1>4. ASSUME NEW p \in Parents, LoseGrant(p) PROVE GrantsTypeOK'
  BY <1>4 DEF LoseGrant, GrantsTypeOK, NoCommand
<1>5. ASSUME NEW p \in Parents, NEW k \in DispatchKeys, TaskWithQueueId(p, k)
      PROVE  GrantsTypeOK'
  <2>1. launched' \in [DispatchKeys -> 0 .. MaxLaunches]
    BY <1>5, GrantsAssumption DEF TaskWithQueueId, Launch, GrantsTypeOK
  <2> QED BY <1>5, <2>1, RowTypes DEF TaskWithQueueId, LeaseIfPending, GrantsTypeOK
<1>6. ASSUME NEW p \in Parents, NEW k \in DispatchKeys,
             TaskFindsPrompt(p, AgentTypeOf[JobOf[k]])
      PROVE  GrantsTypeOK'
  BY <1>6 DEF TaskFindsPrompt, OldestPending, GrantsTypeOK
<1>7. ASSUME NEW p \in Parents, TaskLeasesOldest(p) PROVE GrantsTypeOK'
  <2>1. found[p] \in DispatchKeys /\ found' \in [Parents -> DispatchKeys \cup {NoKey}]
    BY <1>7 DEF TaskLeasesOldest, GrantsTypeOK
  <2>2. launched' \in [DispatchKeys -> 0 .. MaxLaunches]
    BY <1>7, <2>1, GrantsAssumption DEF TaskLeasesOldest, Launch, GrantsTypeOK
  <2>3. UNCHANGED rows \/ \E k \in DispatchKeys : rows' = Leased(p, k)
    BY <1>7 DEF TaskLeasesOldest, OldestPending
  <2>4. rows' \in [DispatchKeys -> QueueRow]
    <3>1. rows \in [DispatchKeys -> QueueRow]
      BY DEF GrantsTypeOK
    <3>2. \A k \in DispatchKeys : Leased(p, k) \in [DispatchKeys -> QueueRow]
      BY RowTypes
    <3> QED BY <2>3, <3>1, <3>2
  <2> QED BY <1>7, <2>1, <2>2, <2>4 DEF TaskLeasesOldest, GrantsTypeOK
<1>8. ASSUME NEW p \in Parents, NEW v \in RepoPrivileges, ConfirmRepoGrant(p, v)
      PROVE  GrantsTypeOK'
  <2>1. PICK k \in DispatchKeys : grants' = [grants EXCEPT ![k].confirmed = TRUE]
    BY <1>8 DEF ConfirmRepoGrant, Newest
  <2>2. grants' \in [DispatchKeys -> Grant]
    <3>1. grants[k] \in Grant
      BY DEF GrantsTypeOK
    <3>2. [grants[k] EXCEPT !.confirmed = TRUE] \in Grant
      BY <3>1 DEF Grant
    <3> QED BY <2>1, <3>2 DEF GrantsTypeOK
  <2> QED BY <1>8, <2>2 DEF ConfirmRepoGrant, GrantsTypeOK
<1>9. ASSUME NEW c \in Children, BindGrant(c) PROVE GrantsTypeOK'
  <2>1. PICK k \in DispatchKeys :
          grants' = [grants EXCEPT ![k] = [@ EXCEPT !.status = "bound", !.child = c]]
    BY <1>9 DEF BindGrant, ChildDispatchKey
  <2>2. grants' \in [DispatchKeys -> Grant]
    <3>1. grants[k] \in Grant
      BY DEF GrantsTypeOK
    <3>2. [grants[k] EXCEPT !.status = "bound", !.child = c] \in Grant
      BY <3>1 DEF Grant
    <3> QED BY <2>1, <3>2 DEF GrantsTypeOK
  <2> QED BY <1>9, <2>2 DEF BindGrant, GrantsTypeOK
<1>10. ASSUME NEW c \in Children, DeclarePlan(c) PROVE GrantsTypeOK'
  BY <1>10 DEF DeclarePlan, HeldGrant, Newest, Usable, GrantsTypeOK
<1>11. ASSUME NEW c \in Children, FrameworkEdit(c) PROVE GrantsTypeOK'
  <2>1. PICK k \in DispatchKeys :
          /\ grants[k].status = "bound" /\ grants[k].privilege = "framework_maintenance"
          /\ grants' = [grants EXCEPT ![k] = RecordedWrite(k)]
    BY <1>11 DEF FrameworkEdit, HeldGrant, Newest, Usable
  <2>2. grants' \in [DispatchKeys -> Grant]
    BY <2>1, WriteTypes DEF GrantsTypeOK
  <2> QED BY <1>11, <2>2 DEF FrameworkEdit, GrantsTypeOK
<1>12. ASSUME NEW c \in Children, CompleteMaintenance(c) PROVE GrantsTypeOK'
  <2>1. PICK k \in DispatchKeys :
          /\ plans' = [plans EXCEPT ![k] = IF @ = "active" THEN "completed" ELSE @]
          /\ grants' = [grants EXCEPT ![k].status = "consumed"]
    BY <1>12 DEF CompleteMaintenance, HeldGrant, Newest, Usable
  <2>2. grants' \in [DispatchKeys -> Grant]
    <3>1. grants[k] \in Grant
      BY DEF GrantsTypeOK
    <3>2. [grants[k] EXCEPT !.status = "consumed"] \in Grant
      BY <3>1 DEF Grant
    <3> QED BY <2>1, <3>2 DEF GrantsTypeOK
  <2>3. plans' \in [DispatchKeys -> {"none", "active", "completed"}]
    BY <2>1 DEF GrantsTypeOK
  <2> QED BY <1>12, <2>2, <2>3 DEF CompleteMaintenance, GrantsTypeOK
<1>13. ASSUME NEW c \in Children, NEW v \in RepoPrivileges, RepoWrite(c, v)
       PROVE  GrantsTypeOK'
  <2>1. PICK k \in DispatchKeys :
          grants' = [grants EXCEPT ![k] = [@ EXCEPT !.used = 1, !.status = "consumed"]]
    BY <1>13 DEF RepoWrite, HeldGrant, Newest, Usable
  <2>2. 1 \in 0 .. MaxWrites
    BY GrantsAssumption
  <2>3. grants' \in [DispatchKeys -> Grant]
    <3>1. grants[k] \in Grant
      BY DEF GrantsTypeOK
    <3>2. [grants[k] EXCEPT !.used = 1, !.status = "consumed"] \in Grant
      BY <3>1, <2>2 DEF Grant
    <3> QED BY <2>1, <3>2 DEF GrantsTypeOK
  <2> QED BY <1>13, <2>3 DEF RepoWrite, GrantsTypeOK
<1>14. CASE ExpireOldRows
  <2>1. \A k \in DispatchKeys : /\ rows[k] \in QueueRow
                                 /\ [rows[k] EXCEPT !.status = "expired"] \in QueueRow
    <3>1. \A k \in DispatchKeys : rows[k] \in QueueRow
      BY DEF GrantsTypeOK
    <3>2. ASSUME NEW row \in QueueRow PROVE [row EXCEPT !.status = "expired"] \in QueueRow
      BY DEF QueueRow
    <3> QED BY <3>1, <3>2
  <2>2. rows' \in [DispatchKeys -> QueueRow]
    BY <1>14, <2>1 DEF ExpireOldRows
  <2> QED BY <1>14, <2>2 DEF ExpireOldRows, GrantsTypeOK
<1>15. CASE Age
  <2>1. rowAge' \in [DispatchKeys -> 0 .. StaleAge]
    BY <1>15, GrantsAssumption DEF Age, GrantsTypeOK
  <2> QED BY <1>15, <2>1 DEF Age, GrantsTypeOK
<1> QED
  BY <1>1, <1>2, <1>3, <1>4, <1>5, <1>6, <1>7, <1>8, <1>9, <1>10, <1>11, <1>12, <1>13,
     <1>14, <1>15, <1>16 DEF GrantsNext
-----------------------------------------------------------------------------
(* What a step does to one row, one grant and one command *)

RowMoves(k) ==
    \/ rows'[k] = rows[k]
    \/ /\ rows[k].status = "none" /\ rows'[k].status = "pending"
       /\ rows'[k].owner = NoSession
    \/ /\ rows[k].status = "pending" /\ rows'[k].parent = rows[k].parent
       /\ \/ rows'[k].status = "running"
          \/ /\ rows'[k].status = "expired" /\ rowAge[k] = StaleAge
             /\ rows'[k].owner = rows[k].owner

AgeMoves(k) ==
    rowAge'[k] = rowAge[k] \/ (rowAge[k] # StaleAge /\ rowAge'[k] = rowAge[k] + 1)

Created(k) ==
    \E p \in Parents : /\ command[p] # NoCommand /\ command[p].key = k
                       /\ command'[p] = NoCommand
                       /\ grants'[k].status = "pending" /\ grants'[k].child = NoSession
                       /\ grants'[k].used = 0

Bound(k) ==
    /\ grants[k].status = "pending"
    /\ \E c \in Children : /\ k \in ChildDispatchKey(c)
                           /\ grants'[k] = [grants[k] EXCEPT !.status = "bound", !.child = c]

Confirmed(k) ==
    /\ grants[k].status \in {"pending", "bound"}
    /\ grants'[k] = [grants[k] EXCEPT !.confirmed = TRUE]

Spent(k) ==
    /\ grants[k].status = "bound"
    /\ \/ /\ grants[k].privilege = "framework_maintenance"
          /\ \/ grants'[k] = RecordedWrite(k)
             \/ grants'[k] = [grants[k] EXCEPT !.status = "consumed"]
       \/ /\ grants[k].privilege \in RepoPrivileges
          /\ grants'[k] = [grants[k] EXCEPT !.used = 1, !.status = "consumed"]

GrantMoves(k) ==
    grants'[k] = grants[k] \/ Created(k) \/ Bound(k) \/ Confirmed(k) \/ Spent(k)

CommandMoves(p) ==
    \/ command'[p] = command[p] \/ command'[p] = NoCommand
    \/ \E k \in DispatchKeys : /\ rows[k].status = "none" /\ rows'[k].status # "none"
                               /\ rows'[k].parent = p
                               /\ command'[p].key = k /\ grants'[k] = grants[k]

Moves == /\ \A k \in DispatchKeys : RowMoves(k) /\ AgeMoves(k) /\ GrantMoves(k)
         /\ \A p \in Parents : CommandMoves(p)

\* A lease, of a row that is pending.
LEMMA LeaseMoves ==
  ASSUME GrantsTypeOK, NEW p \in Parents, NEW j \in DispatchKeys, rows[j].status = "pending",
         rows' = Leased(p, j)
  PROVE  \A k \in DispatchKeys : RowMoves(k)
BY DEF GrantsTypeOK, QueueRow, Leased, RowMoves

\* No handler moves a row, a grant or a command in any other way.
LEMMA StepMoves == IInv /\ [GrantsNext]_grantsVars => Moves
<1> SUFFICES ASSUME IInv, [GrantsNext]_grantsVars PROVE Moves
  OBVIOUS
<1> GrantsTypeOK
  BY DEF IInv
<1>a. ASSUME UNCHANGED rows PROVE \A k \in DispatchKeys : RowMoves(k)
  BY <1>a DEF RowMoves
<1>b. ASSUME UNCHANGED rowAge PROVE \A k \in DispatchKeys : AgeMoves(k)
  BY <1>b DEF AgeMoves
<1>c. ASSUME UNCHANGED grants PROVE \A k \in DispatchKeys : GrantMoves(k)
  BY <1>c DEF GrantMoves
<1>d. ASSUME UNCHANGED command PROVE \A p \in Parents : CommandMoves(p)
  BY <1>d DEF CommandMoves
<1>1. CASE UNCHANGED grantsVars
  BY <1>1, <1>a, <1>b, <1>c, <1>d DEF grantsVars, Moves
<1>16. ASSUME NEW p \in Parents, NEW k \in DispatchKeys, CheckDispatch(p, k) PROVE Moves
  BY <1>16, <1>a, <1>b, <1>c, <1>d DEF CheckDispatch, Moves
<1>2. ASSUME NEW p \in Parents, NEW v \in Asked, Dispatch(p, v) PROVE Moves
  <2>1. asking[p] \in DispatchKeys /\ UNCHANGED <<rowAge, grants>>
    BY <1>2 DEF Dispatch, GrantsTypeOK
  <2>2. CASE UNCHANGED <<rows, command>>
    BY <2>1, <2>2, <1>a, <1>b, <1>c, <1>d DEF Moves
  <2>3. CASE /\ Enqueue(p, asking[p])
             /\ command' = IF v = "none" THEN command
                           ELSE [command EXCEPT ![p] = [key |-> asking[p], privilege |-> v]]
    <3>1. \A j \in DispatchKeys : RowMoves(j)
      BY <2>1, <2>3 DEF Enqueue, RowMoves, NoRow, GrantsTypeOK, QueueRow
    <3>2. /\ rows[asking[p]].status = "none" /\ rows'[asking[p]].status = "pending"
          /\ rows'[asking[p]].parent = p
      BY <2>1, <2>3 DEF Enqueue, NoRow, GrantsTypeOK
    <3>3. \A q \in Parents : CommandMoves(q)
      BY <2>1, <2>3, <3>2 DEF CommandMoves, GrantsTypeOK
    <3> QED BY <2>1, <3>1, <3>3, <1>b, <1>c DEF Moves
  <2> QED BY <1>2, <2>2, <2>3 DEF Dispatch
<1>3. ASSUME NEW p \in Parents, CreateGrant(p) PROVE Moves
  <2>1. command'[p] = NoCommand
    BY <1>3 DEF CreateGrant, GrantsTypeOK
  <2>2. \A k \in DispatchKeys : GrantMoves(k)
    BY <1>3, <2>1 DEF CreateGrant, GrantMoves, Created, NoGrant, GrantsTypeOK
  <2>3. \A q \in Parents : CommandMoves(q)
    BY <1>3 DEF CreateGrant, CommandMoves, GrantsTypeOK
  <2> QED BY <1>3, <2>2, <2>3, <1>a, <1>b DEF CreateGrant, Moves
<1>4. ASSUME NEW p \in Parents, LoseGrant(p) PROVE Moves
  <2>1. \A q \in Parents : CommandMoves(q)
    BY <1>4 DEF LoseGrant, CommandMoves, GrantsTypeOK
  <2> QED BY <1>4, <2>1, <1>a, <1>b, <1>c DEF LoseGrant, Moves
<1>5. ASSUME NEW p \in Parents, NEW k \in DispatchKeys, TaskWithQueueId(p, k) PROVE Moves
  <2>1. \A j \in DispatchKeys : RowMoves(j)
    BY <1>5, <1>a, LeaseMoves DEF TaskWithQueueId, LeaseIfPending
  <2> QED BY <1>5, <2>1, <1>b, <1>c, <1>d DEF TaskWithQueueId, Moves
<1>6. ASSUME NEW p \in Parents, NEW k \in DispatchKeys,
             TaskFindsPrompt(p, AgentTypeOf[JobOf[k]])
      PROVE  Moves
  BY <1>6, <1>a, <1>b, <1>c, <1>d DEF TaskFindsPrompt, Moves
<1>7. ASSUME NEW p \in Parents, TaskLeasesOldest(p) PROVE Moves
  <2>1. UNCHANGED rows \/ \E k \in DispatchKeys : /\ rows[k].status = "pending"
                                                  /\ rows' = Leased(p, k)
    BY <1>7 DEF TaskLeasesOldest, OldestPending
  <2>2. \A j \in DispatchKeys : RowMoves(j)
    BY <2>1, <1>a, LeaseMoves
  <2> QED BY <1>7, <2>2, <1>b, <1>c, <1>d DEF TaskLeasesOldest, Moves
<1>8. ASSUME NEW p \in Parents, NEW v \in RepoPrivileges, ConfirmRepoGrant(p, v) PROVE Moves
  <2>1. PICK k \in DispatchKeys : /\ grants[k].status \in {"pending", "bound"}
                                  /\ grants' = [grants EXCEPT ![k].confirmed = TRUE]
    BY <1>8 DEF ConfirmRepoGrant, Newest
  <2>2. \A j \in DispatchKeys : GrantMoves(j)
    BY <2>1 DEF GrantMoves, Confirmed, GrantsTypeOK
  <2> QED BY <1>8, <2>2, <1>a, <1>b, <1>d DEF ConfirmRepoGrant, Moves
<1>9. ASSUME NEW c \in Children, BindGrant(c) PROVE Moves
  <2>1. PICK k \in ChildDispatchKey(c) :
          /\ grants[k].status = "pending"
          /\ grants' = [grants EXCEPT ![k] = [@ EXCEPT !.status = "bound", !.child = c]]
    BY <1>9 DEF BindGrant
  <2>2. k \in DispatchKeys
    BY DEF ChildDispatchKey
  <2>3. grants'[k] = [grants[k] EXCEPT !.status = "bound", !.child = c]
    BY <2>1, <2>2 DEF GrantsTypeOK
  <2>4. Bound(k)
    BY <2>1, <2>3 DEF Bound
  <2>5. \A j \in DispatchKeys : GrantMoves(j)
    BY <2>1, <2>4 DEF GrantMoves, GrantsTypeOK
  <2> QED BY <1>9, <2>5, <1>a, <1>b, <1>d DEF BindGrant, Moves
<1>10. ASSUME NEW c \in Children, DeclarePlan(c) PROVE Moves
  BY <1>10, <1>a, <1>b, <1>c, <1>d DEF DeclarePlan, Moves
<1>11. ASSUME NEW c \in Children, FrameworkEdit(c) PROVE Moves
  <2>1. PICK k \in DispatchKeys :
          /\ grants[k].status = "bound" /\ grants[k].privilege = "framework_maintenance"
          /\ grants' = [grants EXCEPT ![k] = RecordedWrite(k)]
    BY <1>11 DEF FrameworkEdit, HeldGrant, Newest, Usable
  <2>2. \A j \in DispatchKeys : GrantMoves(j)
    BY <2>1 DEF GrantMoves, Spent, GrantsTypeOK
  <2> QED BY <1>11, <2>2, <1>a, <1>b, <1>d DEF FrameworkEdit, Moves
<1>12. ASSUME NEW c \in Children, CompleteMaintenance(c) PROVE Moves
  <2>1. PICK k \in DispatchKeys :
          /\ grants[k].status = "bound" /\ grants[k].privilege = "framework_maintenance"
          /\ grants' = [grants EXCEPT ![k].status = "consumed"]
    BY <1>12 DEF CompleteMaintenance, HeldGrant, Newest, Usable
  <2>2. \A j \in DispatchKeys : GrantMoves(j)
    BY <2>1 DEF GrantMoves, Spent, GrantsTypeOK
  <2> QED BY <1>12, <2>2, <1>a, <1>b, <1>d DEF CompleteMaintenance, Moves
<1>13. ASSUME NEW c \in Children, NEW v \in RepoPrivileges, RepoWrite(c, v) PROVE Moves
  <2>1. PICK k \in DispatchKeys :
          /\ grants[k].status = "bound" /\ grants[k].privilege = v
          /\ grants' = [grants EXCEPT ![k] = [@ EXCEPT !.used = 1, !.status = "consumed"]]
    BY <1>13 DEF RepoWrite, HeldGrant, Newest, Usable
  <2>2. \A j \in DispatchKeys : GrantMoves(j)
    BY <2>1 DEF GrantMoves, Spent, GrantsTypeOK
  <2> QED BY <1>13, <2>2, <1>a, <1>b, <1>d DEF RepoWrite, Moves
<1>14. CASE ExpireOldRows
  <2>1. \A k \in DispatchKeys : RowMoves(k)
    BY <1>14 DEF ExpireOldRows, RowMoves, GrantsTypeOK, QueueRow
  <2> QED BY <1>14, <2>1, <1>b, <1>c, <1>d DEF ExpireOldRows, Moves
<1>15. CASE Age
  <2>1. \A k \in DispatchKeys : AgeMoves(k)
    BY <1>15, GrantsAssumption DEF Age, AgeMoves, GrantsTypeOK
  <2> QED BY <1>15, <2>1, <1>a, <1>c, <1>d DEF Age, Moves
<1> QED
  BY <1>1, <1>2, <1>3, <1>4, <1>5, <1>6, <1>7, <1>8, <1>9, <1>10, <1>11, <1>12, <1>13,
     <1>14, <1>15, <1>16 DEF GrantsNext

-----------------------------------------------------------------------------
(* The invariant *)

\* Only a grant that exists is bound, confirmed or spent.
LEMMA MovedExists ==
  ASSUME NEW k, Bound(k) \/ Confirmed(k) \/ Spent(k)
  PROVE  grants[k] # NoGrant
<1>1. CASE Bound(k)
  <2>1. grants[k].status = "pending"
    BY <1>1 DEF Bound
  <2> QED BY <2>1 DEF NoGrant
<1>2. CASE Confirmed(k)
  <2>1. grants[k].status \in {"pending", "bound"}
    BY <1>2 DEF Confirmed
  <2> QED BY <2>1 DEF NoGrant
<1>3. CASE Spent(k)
  <2>1. grants[k].status = "bound"
    BY <1>3 DEF Spent
  <2> QED BY <2>1 DEF NoGrant
<1> QED BY <1>1, <1>2, <1>3

\* Rows and grants stay sound, and a command's grant is not there before it.
LEMMA SoundStep == IInv /\ [GrantsNext]_grantsVars => QueueSound'
<1> SUFFICES ASSUME IInv, [GrantsNext]_grantsVars PROVE QueueSound'
  OBVIOUS
<1> GrantsTypeOK /\ QueueSound /\ Moves
  BY StepMoves DEF IInv
<1>1. \A k \in DispatchKeys : RowSound(k)'
  <2> SUFFICES ASSUME NEW k \in DispatchKeys PROVE RowSound(k)'
    OBVIOUS
  <2>1. RowSound(k) /\ RowMoves(k) /\ AgeMoves(k)
    BY DEF QueueSound, Moves
  <2>2. rowAge[k] \in 0 .. StaleAge
    BY DEF GrantsTypeOK
  <2> QED BY <2>1, <2>2 DEF RowSound, RowMoves, AgeMoves
<1>2. \A k \in DispatchKeys : rows[k].status # "none" =>
                                /\ rows'[k].status # "none"
                                /\ rows'[k].parent = rows[k].parent
  BY DEF Moves, RowMoves
<1>3. \A k \in DispatchKeys : GrantSound(k)'
  <2> SUFFICES ASSUME NEW k \in DispatchKeys PROVE GrantSound(k)'
    OBVIOUS
  <2>1. GrantSound(k) /\ GrantMoves(k) /\ grants[k] \in Grant
    BY DEF QueueSound, Moves, GrantsTypeOK
  <2>2. CASE grants'[k] = grants[k]
    BY <1>2, <2>1, <2>2 DEF GrantSound
  <2>3. CASE Created(k)
    <3>1. rows[k].status # "none"
      BY <2>3 DEF Created, QueueSound, CommandSound
    <3> QED BY <1>2, <2>3, <3>1 DEF Created, GrantSound
  <2>4. CASE Bound(k) \/ Confirmed(k) \/ Spent(k)
    <3>1. grants[k] # NoGrant
      BY <2>4, MovedExists
    <3>2. grants'[k].child # NoSession => grants'[k].status \in {"bound", "consumed"}
      BY <2>1, <2>4 DEF Bound, Confirmed, Spent, Grant, RecordedWrite, GrantSound
    <3> QED BY <1>2, <2>1, <3>1, <3>2 DEF GrantSound
  <2> QED BY <2>1, <2>2, <2>3, <2>4 DEF GrantMoves
<1>4. \A p \in Parents : CommandSound(p)'
  <2> SUFFICES ASSUME NEW p \in Parents, command'[p] # NoCommand PROVE CommandSound(p)'
    BY DEF CommandSound
  <2>1. CommandMoves(p)
    BY DEF Moves
  <2>2. CASE command'[p] = command[p]
    <3> DEFINE k == command[p].key
    <3>1. /\ k \in DispatchKeys /\ rows[k].status # "none" /\ rows[k].parent = p
          /\ grants[k] = NoGrant
      BY <2>2 DEF QueueSound, CommandSound
    <3>2. ~Created(k)
      <4> SUFFICES ASSUME NEW q \in Parents, command[q] # NoCommand, command[q].key = k,
                          command'[q] = NoCommand
                   PROVE  FALSE
        BY DEF Created
      <4>1. rows[k].parent = q
        BY DEF QueueSound, CommandSound
      <4> QED BY <3>1, <4>1
    <3>3. grants'[k] = grants[k]
      BY <3>1, <3>2, MovedExists DEF Moves, GrantMoves
    <3> QED BY <1>2, <2>2, <3>1, <3>3 DEF CommandSound
  <2>3. CASE \E k \in DispatchKeys : /\ rows[k].status = "none" /\ rows'[k].status # "none"
                                     /\ rows'[k].parent = p
                                     /\ command'[p].key = k /\ grants'[k] = grants[k]
    BY <2>3 DEF CommandSound, QueueSound, GrantSound
  <2> QED BY <2>1, <2>2, <2>3 DEF CommandMoves
<1> QED BY <1>1, <1>3, <1>4 DEF QueueSound

\* The child a grant is bound to is one of the session that dispatched it.
LEMMA HeldStep == IInv /\ [GrantsNext]_grantsVars => HeldByOwnChild'
<1> SUFFICES ASSUME IInv, [GrantsNext]_grantsVars, NEW k \in DispatchKeys,
                    grants'[k].child # NoSession
             PROVE  ParentOf[grants'[k].child] = rows'[k].parent
  BY DEF HeldByOwnChild
<1> GrantsTypeOK /\ QueueSound /\ HeldByOwnChild /\ Moves
  BY StepMoves DEF IInv
<1>1. GrantSound(k) /\ RowMoves(k) /\ GrantMoves(k) /\ grants[k] \in Grant
  BY DEF QueueSound, Moves, GrantsTypeOK
<1>2. grants[k] # NoGrant => rows'[k].parent = rows[k].parent
  BY <1>1 DEF GrantSound, RowMoves
<1>3. CASE grants[k].child # NoSession /\ grants'[k].child = grants[k].child
  BY <1>2, <1>3 DEF HeldByOwnChild, NoGrant
<1>4. CASE Bound(k)
  <2>1. PICK c \in Children : /\ k \in ChildDispatchKey(c)
                              /\ grants'[k] = [grants[k] EXCEPT !.status = "bound", !.child = c]
    BY <1>4 DEF Bound
  <2>2. grants'[k].child = c /\ rows[k].parent = ParentOf[c]
    BY <1>1, <2>1 DEF ChildDispatchKey, Grant
  <2>3. grants[k] # NoGrant
    BY <1>4 DEF Bound, NoGrant
  <2> QED BY <1>2, <2>2, <2>3
<1>5. ~Created(k)
  BY DEF Created
<1>6. Confirmed(k) \/ Spent(k) => grants'[k].child = grants[k].child
  BY <1>1 DEF Confirmed, Spent, RecordedWrite, Grant
<1> QED BY <1>1, <1>3, <1>4, <1>5, <1>6 DEF GrantMoves

\* No step spends more than a grant has, and the last write consumes it.
LEMMA BudgetStep == IInv /\ [GrantsNext]_grantsVars => BudgetHonoured'
<1> SUFFICES ASSUME IInv, [GrantsNext]_grantsVars PROVE BudgetHonoured'
  OBVIOUS
<1> GrantsTypeOK /\ BudgetHonoured /\ Moves
  BY StepMoves DEF IInv
<1> DEFINE Budget(g) == IF g.privilege \in RepoPrivileges THEN 1 ELSE MaxWrites
           Within(g) == /\ g.used <= Budget(g)
                        /\ g.used = Budget(g) => g.status = "consumed"
<1> SUFFICES ASSUME NEW k \in DispatchKeys PROVE Within(grants'[k])
  BY DEF BudgetHonoured
<1>1. GrantMoves(k) /\ grants[k] \in Grant /\ Within(grants[k])
  BY DEF Moves, GrantsTypeOK, BudgetHonoured
<1>2. CASE grants'[k] = grants[k]
  BY <1>1, <1>2
<1>3. CASE Created(k)
  BY <1>3, GrantsAssumption DEF Created
<1>4. CASE Bound(k)
  BY <1>1, <1>4 DEF Bound, Grant
<1>5. CASE Confirmed(k)
  BY <1>1, <1>5 DEF Confirmed, Grant
<1>6. CASE Spent(k)
  <2>1. CASE grants[k].privilege = "framework_maintenance"
    <3>1. grants[k].privilege \notin RepoPrivileges
      BY <2>1 DEF RepoPrivileges
    <3>2. grants[k].used \in Nat /\ grants[k].used < MaxWrites
      BY <1>1, <1>6, <3>1, GrantsAssumption DEF Spent, Grant
    <3>3. CASE grants'[k] = RecordedWrite(k)
      <4>1. /\ grants'[k].used = grants[k].used + 1
            /\ grants'[k].privilege = grants[k].privilege
            /\ grants[k].used + 1 >= MaxWrites => grants'[k].status = "consumed"
        BY <1>1, <3>3 DEF RecordedWrite, Grant
      <4> QED BY <3>1, <3>2, <4>1, GrantsAssumption
    <3>4. CASE grants'[k] = [grants[k] EXCEPT !.status = "consumed"]
      BY <1>1, <3>4 DEF Grant
    <3> QED BY <1>6, <3>1, <3>3, <3>4 DEF Spent
  <2>2. CASE grants[k].privilege \in RepoPrivileges
    <3>1. /\ grants'[k].used = 1 /\ grants'[k].status = "consumed"
          /\ grants'[k].privilege = grants[k].privilege
      BY <1>1, <1>6, <2>2 DEF Spent, Grant, RepoPrivileges
    <3> QED BY <2>2, <3>1
  <2> QED BY <1>6, <2>1, <2>2 DEF Spent
<1> QED BY <1>1, <1>2, <1>3, <1>4, <1>5, <1>6 DEF GrantMoves

\* A usable grant's row is in flight: rows expire later than grants do.
LEMMA UsableIsLive ==
  ASSUME IInv, NEW c \in Children, NEW v \in Privileges, NEW k \in Usable(c, v)
  PROVE  k \in DispatchKeys /\ rows[k].parent = ParentOf[c] /\ Live(k)
<1>1. /\ k \in DispatchKeys /\ grants[k].status = "bound" /\ grants[k].child = c
      /\ rowAge[k] < GrantTtl[v]
  BY DEF Usable, Unexpired
<1>2. rows[k].parent = ParentOf[c]
  BY <1>1, GrantsAssumption DEF IInv, HeldByOwnChild
<1>3. rows[k].status # "none"
  BY <1>1 DEF IInv, QueueSound, GrantSound, NoGrant
<1>4. rows[k].status # "expired"
  <2>1. GrantTtl[v] \in 1 .. StaleAge /\ rowAge[k] \in 0 .. StaleAge
    BY <1>1, GrantsAssumption DEF IInv, GrantsTypeOK
  <2>2. rowAge[k] # StaleAge
    BY <1>1, <2>1, GrantsAssumption
  <2> QED BY <1>1, <2>2 DEF IInv, QueueSound, RowSound
<1>5. rows[k] \in QueueRow
  BY <1>1 DEF IInv, GrantsTypeOK
<1> QED BY <1>1, <1>2, <1>3, <1>4, <1>5 DEF Live, QueueRow

\* A grant becomes usable only when it is bound, while its row is the only one
\* of that parent in flight.
LEMMA UsableOrBound ==
  ASSUME IInv, [GrantsNext]_grantsVars, NEW c \in Children, NEW v \in Privileges,
         NEW k \in DispatchKeys, k \in Usable(c, v)'
  PROVE  k \in Usable(c, v) \/ k \in ChildDispatchKey(c)
<1> GrantsTypeOK /\ Moves
  BY StepMoves DEF IInv
<1>1. /\ grants'[k].status = "bound" /\ grants'[k].child = c /\ grants'[k].privilege = v
      /\ rowAge'[k] < GrantTtl[v]
  BY DEF Usable, Unexpired
<1>2. rowAge[k] < GrantTtl[v]
  <2>1. rowAge[k] \in 0 .. StaleAge /\ GrantTtl[v] \in 1 .. StaleAge /\ AgeMoves(k)
    BY GrantsAssumption DEF GrantsTypeOK, Moves
  <2> QED BY <1>1, <2>1, GrantsAssumption DEF AgeMoves
<1>3. GrantMoves(k) /\ grants[k] \in Grant
  BY DEF Moves, GrantsTypeOK
<1>4. CASE Bound(k)
  BY <1>1, <1>3, <1>4 DEF Bound, Grant
<1>5. ~Created(k)
  BY <1>1, GrantsAssumption DEF Created
<1>6. CASE grants'[k] = grants[k] \/ Confirmed(k) \/ Spent(k)
  <2>1. grants[k].status = "bound" /\ grants[k].child = c /\ grants[k].privilege = v
    BY <1>1, <1>3, <1>6 DEF Confirmed, Spent, RecordedWrite, Grant
  <2> QED BY <1>2, <2>1 DEF Usable, Unexpired
<1> QED BY <1>3, <1>4, <1>5, <1>6 DEF GrantMoves

\* A child never comes to have two usable grants of one privilege.
LEMMA OneUsableStep == IInv /\ [GrantsNext]_grantsVars => OneUsableGrant'
<1> SUFFICES ASSUME IInv, [GrantsNext]_grantsVars,
                    NEW c \in Children, NEW v \in Privileges,
                    NEW j \in Usable(c, v)', NEW k \in Usable(c, v)'
             PROVE  j = k
  BY DEF OneUsableGrant
<1> DEFINE Keys == {i \in DispatchKeys : rows[i].parent = ParentOf[c] /\ Live(i)}
<1>1. j \in DispatchKeys /\ k \in DispatchKeys
  BY DEF Usable
<1>2. /\ j \in Usable(c, v) \/ Keys = {j}
      /\ k \in Usable(c, v) \/ Keys = {k}
  BY <1>1, UsableOrBound DEF ChildDispatchKey
<1>3. /\ j \in Usable(c, v) => j \in Keys
      /\ k \in Usable(c, v) => k \in Keys
  BY UsableIsLive
<1>4. CASE j \in Usable(c, v) /\ k \in Usable(c, v)
  BY <1>4 DEF IInv, OneUsableGrant
<1> QED BY <1>2, <1>3, <1>4

LEMMA IInvInit == GrantsInit => IInv
<1> SUFFICES ASSUME GrantsInit PROVE IInv
  OBVIOUS
<1>1. GrantsTypeOK
  <2>1. NoRow \in QueueRow /\ NoCommand \in [key : DispatchKeys \cup {NoKey},
                                             privilege : Privileges \cup {"none"}]
    BY DEF NoRow, QueueRow, NoCommand
  <2> QED BY <2>1, NoGrantType, GrantsAssumption DEF GrantsInit, GrantsTypeOK
<1>2. QueueSound
  BY DEF GrantsInit, QueueSound, RowSound, GrantSound, CommandSound, NoRow, NoGrant, NoCommand
<1>3. HeldByOwnChild /\ OneUsableGrant
  BY DEF GrantsInit, HeldByOwnChild, OneUsableGrant, Usable, NoGrant
<1>4. BudgetHonoured
  BY GrantsAssumption DEF GrantsInit, BudgetHonoured, NoGrant
<1> QED BY <1>1, <1>2, <1>3, <1>4 DEF IInv

LEMMA IInvStep == IInv /\ [GrantsNext]_grantsVars => IInv'
BY GrantsTypeStep, SoundStep, HeldStep, BudgetStep, OneUsableStep DEF IInv

LEMMA Invariant == GrantsSpec => []IInv
BY IInvInit, IInvStep, PTL DEF GrantsSpec

-----------------------------------------------------------------------------
(* The theorems *)

\* Whatever sessions dispatch, however commands fail between the row and its
\* grant, a grant is held by nobody but a child of the session that asked for
\* it (resolveChildDispatchKey).
THEOREM HeldInvariant == GrantsSpec => []HeldByOwnChild
BY Invariant, PTL DEF IInv

\* No child ever has two usable grants of one privilege, if grants live no
\* longer than rows (hasGrant, hasRepoGrant).
THEOREM OneUsableInvariant == GrantsSpec => []OneUsableGrant
BY Invariant, PTL DEF IInv

\* No grant records more writes than its budget, and none that has used it up
\* is still bound (recordGrantWrite, consumeRepoGrant).
THEOREM BudgetInvariant == GrantsSpec => []BudgetHonoured
BY Invariant, PTL DEF IInv

\* A leased row is never leased again and never changes (the status test of the
\* lease's UPDATE).
THEOREM LeaseStays == GrantsSpec => LeaseIsExclusive
<1>1. IInv /\ [GrantsNext]_grantsVars =>
        [\A k \in DispatchKeys : rows[k].owner # NoSession => rows'[k] = rows[k]]_grantsVars
  BY StepMoves DEF IInv, QueueSound, RowSound, Moves, RowMoves
<1> QED BY <1>1, Invariant, PTL DEF GrantsSpec, LeaseIsExclusive

\* A bound grant never passes to another child (bindGrant, bindRepoGrant).
THEOREM BindingStays == GrantsSpec => BoundOnce
<1>1. ASSUME IInv, [GrantsNext]_grantsVars, NEW k \in DispatchKeys,
             grants[k].child # NoSession
      PROVE  grants'[k].child = grants[k].child
  <2>1. GrantMoves(k) /\ grants[k] \in Grant /\ GrantSound(k)
    BY <1>1, StepMoves DEF Moves, IInv, GrantsTypeOK, QueueSound
  <2>2. ~Created(k)
    <3> SUFFICES ASSUME NEW p \in Parents, command[p] # NoCommand, command[p].key = k
                 PROVE  FALSE
      BY DEF Created
    <3> QED BY <1>1 DEF IInv, QueueSound, CommandSound, NoGrant
  <2>3. ~Bound(k)
    BY <1>1, <2>1 DEF Bound, GrantSound
  <2> QED BY <2>1, <2>2, <2>3 DEF GrantMoves, Confirmed, Spent, RecordedWrite, Grant
<1>2. IInv /\ [GrantsNext]_grantsVars =>
        [\A k \in DispatchKeys :
            grants[k].child # NoSession => grants'[k].child = grants[k].child]_grantsVars
  BY <1>1
<1> QED BY <1>2, Invariant, PTL DEF GrantsSpec, BoundOnce
=============================================================================
