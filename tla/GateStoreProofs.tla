-------------------------- MODULE GateStoreProofs ---------------------------
(***************************************************************************)
(* Proofs of the gate store's invariants, for every set of processes,      *)
(* sessions, tasks and agents, every rule table, and calls that overlap in *)
(* any way, crash, and read in vain.                                       *)
(***************************************************************************)
EXTENDS GateProperties, TLAPS

-----------------------------------------------------------------------------
(* Rows and stores *)

\* The row of a session that does not exist is a row.
LEMMA NoRowType == NoRow \in Row
BY DEF NoRow, Row, Status, Live, Terminal, Time

\* What a failed read returns, or an ended call leaves, is a store.
LEMMA EmptyStoreType == EmptyStore \in Store
BY NoRowType DEF EmptyStore, Store

\* Draining a session changes its status only.
LEMMA DrainedRow == ASSUME NEW r \in Row
                    PROVE [r EXCEPT !.status = "drained"] \in Row
BY DEF Row, Status, Terminal

\* Confirming a session arms its row (compliance_gate_confirm).
LEMMA ArmedRow ==
  ASSUME NEW r \in Row, NEW a \in BOOLEAN, NEW t \in TaskArg, NEW n \in Nat
  PROVE  [r EXCEPT !.status = "armed", !.approval = a,
                   !.task = IF t = NoTask THEN r.task ELSE t,
                   !.confirmed = n] \in Row
<1>1. "armed" \in Status /\ n \in Time
  BY DEF Status, Live, Time
<1>2. (IF t = NoTask THEN r.task ELSE t) \in Tasks \cup {NoTask}
  BY DEF Row, TaskArg
<1> QED BY <1>1, <1>2 DEF Row

\* The words the handlers write, and the times.
LEMMA Words ==
  /\ {"armed", "delivered", "approved", "completed", "failed", "recoverable"} \subseteq Status
  /\ Never \in Time /\ Nat \subseteq Time
BY DEF Status, Live, Terminal, Time

\* Submitting, rejecting or ending a session changes two columns of its row, and
\* a retry four.
LEMMA ChangedRow ==
  ASSUME NEW r \in Row, NEW w \in Status, NEW n \in Time, NEW c \in BOOLEAN,
         NEW t \in Tasks \cup {NoTask}
  PROVE  /\ [r EXCEPT !.status = w, !.submitted = n] \in Row
         /\ [r EXCEPT !.status = w, !.consumed = c] \in Row
         /\ [r EXCEPT !.status = w, !.consumed = c, !.confirmed = n, !.task = t] \in Row
BY DEF Row

\* The task a confirm or a retry leaves in a row.
LEMMA ChangedTask ==
  ASSUME NEW r \in Row, NEW t \in TaskArg
  PROVE  (IF t = NoTask THEN r.task ELSE t) \in Tasks \cup {NoTask}
BY DEF Row, TaskArg

\* A save of a well-formed copy leaves well-formed rows (dbSaveGateStore).
LEMMA SavedType == ASSUME StoreTypeOK, NEW st \in Store
                   PROVE Saved(st) \in [Sids -> Row]
<1> SUFFICES ASSUME NEW s \in Sids PROVE Saved(st)[s] \in Row
  BY DEF Saved
<1>1. db[s] \in Row /\ st.rows[s] \in Row
  BY DEF StoreTypeOK, Store
<1> QED BY <1>1, DrainedRow DEF Saved

\* The copy a load hands to its handler is a store (loadGateStore).
LEMMA ReconciledType == ASSUME NEW st \in Store PROVE Reconciled(st) \in Store
BY DEF Reconciled, Store, Fresh, Kept, Working

\* The cleanups drain rows in place.
LEMMA DrainedType == ASSUME NEW rows \in [Sids -> Row], NEW S
                     PROVE Drained(rows, S) \in [Sids -> Row]
BY DrainedRow DEF Drained

\* Storing a row and an active list (saveGateStore at the end of a handler).
LEMMA CommitType ==
  ASSUME TypeOK, NEW p \in Procs, NEW s \in Sids, NEW r \in Row,
         NEW a \in SUBSET Sids, Commit(p, s, r, a)
  PROVE  db' \in [Sids -> Row] /\ active' \in SUBSET Sids
<1> DEFINE st == [rows |-> [mem[p].rows EXCEPT ![s] = r], active |-> a]
<1>1. st \in Store
  BY DEF TypeOK, CallTypeOK, Store
<1> QED BY <1>1, SavedType DEF Commit, Save, TypeOK

-----------------------------------------------------------------------------
(* Calls *)

\* The end of a call.
LEMMA FinishType == ASSUME TypeOK, NEW p \in Procs, Finish(p) PROVE CallTypeOK'
BY EmptyStoreType
   DEF TypeOK, CallTypeOK, Finish, Idle, Jobs, TaskArg, Stages

\* The next load of a check.
LEMMA ProceedType ==
  ASSUME TypeOK, NEW p \in Procs, NEW t \in TaskArg,
         NEW kind \in {"purge", "drain", "create"}, Proceed(p, kind, t)
  PROVE  CallTypeOK'
BY EmptyStoreType DEF TypeOK, CallTypeOK, Proceed, Jobs, Stages

\* The task id a check carries.
LEMMA JobArg == ASSUME TypeOK, NEW p \in Procs, job[p].kind # "compact"
                PROVE  job[p].arg \in TaskArg
BY DEF TypeOK, CallTypeOK, Jobs

\* Archiving stale sessions takes them out of the copy.
LEMMA ArchiveStaleType ==
  ASSUME TypeOK, NEW p \in Procs, NEW S \in SUBSET Sids, ArchiveStale(p, S),
         pc[p] = "run"
  PROVE  TypeOK'
<1>1. [rows |-> [s \in Sids |-> IF s \in S THEN NoRow ELSE mem[p].rows[s]],
       active |-> mem[p].active \ S] \in Store
  BY NoRowType DEF TypeOK, CallTypeOK, Store
<1> QED BY <1>1 DEF ArchiveStale, TypeOK, StoreTypeOK, CallTypeOK, Stages

\* A handler that stores one row and ends.
LEMMA HandlerType ==
  ASSUME TypeOK, NEW p \in Procs, NEW s \in Sids, NEW r \in Row,
         NEW a \in SUBSET Sids, Commit(p, s, r, a), Finish(p),
         audits' \in [Sids -> Nat],
         ledger' \in [Sids -> {"free", "owed", "paid"}],
         UNCHANGED <<archived, now>>
  PROVE  TypeOK'
BY CommitType, FinishType DEF TypeOK, StoreTypeOK

\* The history of approvals keeps its shape.
LEMMA LedgerType ==
  ASSUME TypeOK, NEW s \in Sids, Owe(s) \/ Pay(s) \/ UNCHANGED ledger
  PROVE  ledger' \in [Sids -> {"free", "owed", "paid"}]
BY DEF TypeOK, StoreTypeOK, Owe, Pay

-----------------------------------------------------------------------------
(* Type correctness *)

\* Every variable keeps its shape: whatever the interleaving, no copy of a row
\* has a status that gate_sessions does not know.
THEOREM TypeInvariant == Spec => []TypeOK
<1> USE DEF TypeOK, StoreTypeOK
<1>1. Init => TypeOK
  BY NoRowType, EmptyStoreType
     DEF Init, CallTypeOK, Idle, Jobs, TaskArg, Stages
<1>2. TypeOK /\ [Next]_vars => TypeOK'
  <2> SUFFICES ASSUME TypeOK, [Next]_vars PROVE TypeOK'
    OBVIOUS
  <2>1. CASE UNCHANGED vars
    BY <2>1 DEF vars, CallTypeOK
  <2>2. CASE Tick
    BY <2>2 DEF Tick, CallTypeOK
  <2> SUFFICES ASSUME NEW p \in Procs,
                      \/ Load(p) \/ LoadFails(p) \/ Return(p) \/ Crash(p)
                      \/ Handler(p) \/ Continue(p) \/ Begin(p)
               PROVE  TypeOK'
    BY <2>1, <2>2 DEF Next
  <2> mem[p] \in Store /\ pc[p] \in Stages /\ job[p] \in Jobs
    BY DEF CallTypeOK
  <2>3. CASE Load(p)
    <3>1. [rows |-> db, active |-> active] \in Store
      BY DEF Store
    <3> QED BY <2>3, <3>1, ReconciledType DEF Load, CallTypeOK, Stages
  <2>4. CASE LoadFails(p)
    BY <2>4, EmptyStoreType DEF LoadFails, CallTypeOK, Stages
  <2>5. CASE Return(p) \/ Crash(p)
    BY <2>5, FinishType DEF Return, Crash
  <2>6. CASE Handler(p)
    <3> HIDE DEF TypeOK, StoreTypeOK
    <3> \A s \in Sids : mem[p].rows[s] \in Row
      BY DEF Store
    <3> now \in Nat /\ audits \in [Sids -> Nat]
      BY DEF TypeOK, StoreTypeOK
    <3> ledger' = ledger => ledger' \in [Sids -> {"free", "owed", "paid"}]
      BY DEF TypeOK, StoreTypeOK
    <3>1. ASSUME NEW s \in Sids, NEW agent \in Agents, NEW t \in TaskArg,
                 Confirm(p, s, agent, t)
          PROVE  TypeOK'
      <4> DEFINE row == [mem[p].rows[s] EXCEPT
                           !.status = "armed",
                           !.approval = agent \notin Exempt,
                           !.task = IF t = NoTask THEN mem[p].rows[s].task
                                                   ELSE t,
                           !.confirmed = now]
      <4>0. mem[p].rows[s] \in Row /\ (agent \notin Exempt) \in BOOLEAN
        OBVIOUS
      <4>1. row \in Row
        BY <4>0, ArmedRow
      <4> QED BY <3>1, <4>1, HandlerType, LedgerType DEF Confirm, Store
    <3>2. ASSUME NEW s \in Sids, NEW outcome \in {"delivered", "recoverable"},
                 Submit(p, s, outcome)
          PROVE  TypeOK'
      <4> DEFINE row == [mem[p].rows[s] EXCEPT !.status = outcome,
                                            !.submitted = now]
      <4>1. row \in Row
        BY Words, ChangedRow
      <4> QED BY <3>2, <4>1, HandlerType, LedgerType DEF Submit, Store
    <3>3. ASSUME NEW s \in Sids, Reject(p, s)
          PROVE  TypeOK'
      <4> DEFINE row == [mem[p].rows[s] EXCEPT !.status = "armed",
                                            !.submitted = Never]
      <4>1. row \in Row
        BY Words, ChangedRow
      <4> QED BY <3>3, <4>1, HandlerType, LedgerType DEF Reject, Store
    <3>4. ASSUME NEW s \in Sids, Approve(p, s)
          PROVE  TypeOK'
      <4> DEFINE row == Approved(mem[p].rows[s])
      <4>1. row \in Row
        BY DEF Approved, Row, Status, Live
      <4> QED BY <3>4, <4>1, HandlerType, LedgerType DEF Approve, Store
    <3>5. ASSUME NEW s \in Sids, ApproveComplete(p, s)
          PROVE  TypeOK'
      <4> DEFINE row == [Approved(mem[p].rows[s]) EXCEPT
                           !.status = "completed"]
      <4>1. row \in Row
        BY DEF Approved, Row, Status, Terminal
      <4> QED BY <3>5, <4>1, HandlerType, LedgerType DEF ApproveComplete, Store
    <3>6. ASSUME NEW s \in Sids, NEW t \in TaskArg, Retry(p, s, t)
          PROVE  TypeOK'
      <4> DEFINE task == IF t = NoTask THEN mem[p].rows[s].task ELSE t
                 row == [mem[p].rows[s] EXCEPT
                           !.status = "armed", !.consumed = FALSE,
                           !.confirmed = now, !.task = task]
      <4>0. task \in Tasks \cup {NoTask}
        BY ChangedTask
      <4>1. row \in Row
        <5>1. mem[p].rows[s] \in Row /\ now \in Time /\ "armed" \in Status
          BY Words
        <5> HIDE DEF task
        <5> QED BY <4>0, <5>1, ChangedRow
      <4> QED BY <3>6, <4>1, HandlerType, LedgerType DEF Retry, Store
    <3>7. ASSUME NEW s \in Sids, CompleteFails(p, s)
          PROVE  TypeOK'
      <4> DEFINE row == [mem[p].rows[s] EXCEPT !.status = "failed",
                                            !.consumed = TRUE]
      <4>1. row \in Row
        BY Words, ChangedRow
      <4> QED BY <3>7, <4>1, HandlerType, LedgerType DEF CompleteFails, Store
    <3>8. ASSUME NEW s \in Sids, CompleteIncomplete(p, s)
          PROVE  TypeOK'
      <4> DEFINE exhausted == LoadedRetries + 1 > ArtifactRetryLimit
                 row == [mem[p].rows[s] EXCEPT
                           !.status = IF exhausted THEN "failed"
                                                   ELSE "recoverable",
                           !.consumed = exhausted]
      <4>1. exhausted \in BOOLEAN
        OBVIOUS
      <4> HIDE DEF exhausted
      <4>3. row \in Row
        BY <4>1 DEF Row, Status, Terminal
      <4> USE DEF exhausted
      <4> QED BY <3>8, <4>3, HandlerType
              DEF CompleteIncomplete, Store
    <3>9. ASSUME NEW s \in Sids, Complete(p, s)
          PROVE  TypeOK'
      <4> DEFINE row == [mem[p].rows[s] EXCEPT !.status = "completed",
                                            !.consumed = TRUE]
      <4>1. row \in Row
        BY Words, ChangedRow
      <4>2. db' \in [Sids -> Row] /\ active' \in SUBSET Sids
        BY <3>9, <4>1, CommitType DEF Complete, Store
      <4>3. CallTypeOK'
        BY <3>9 DEF Complete, TypeOK, CallTypeOK, Jobs, Stages
      <4>4. /\ audits' \in [Sids -> Nat]
            /\ UNCHANGED <<archived, now, ledger>>
        BY <3>9 DEF Complete
      <4> QED BY <4>2, <4>3, <4>4 DEF TypeOK, StoreTypeOK
    <3>10. ASSUME NEW t \in Tasks, CheckConflict(p, t)
           PROVE  TypeOK'
      BY <3>10, ProceedType DEF CheckConflict, TypeOK, StoreTypeOK, TaskArg
    <3>11. CASE PurgeTool(p)
      <4>1. StaleForTool(mem[p]) \in SUBSET Sids
        BY DEF StaleForTool, StaleForCheck
      <4> QED BY <3>11, <4>1, ArchiveStaleType DEF PurgeTool, InCall
    <3> QED BY <2>6, <3>1, <3>2, <3>3, <3>4, <3>5, <3>6, <3>7, <3>8, <3>9,
               <3>10, <3>11 DEF Handler
  <2>7. CASE Continue(p)
    <3>1. CASE WriteBack(p)
      BY <3>1, SavedType DEF WriteBack, Save, CallTypeOK, Store, Stages
    <3>2. CASE CompactRead(p)
      <4>1. [mem[p] EXCEPT !.rows = db] \in Store
        BY DEF Store
      <4> QED BY <3>2, <4>1 DEF CompactRead, CallTypeOK, Stages
    <3>3. CASE CompactSync(p)
      <4>1. \A s \in Sids : mem[p].rows[s] \in Row
        BY DEF Store
      <4>2. \A s \in Sids : /\ HotRow(mem[p].rows[s]) \in Row
                            /\ RecentRow(mem[p].rows[s]) \in Row
        BY <4>1, NoRowType DEF HotRow, RecentRow, Row
      <4> QED BY <3>3, <4>2 DEF CompactSync, CallTypeOK, Stages
    <3>4. CASE CompactArchive(p)
      <4>1. \A s \in Sids : [db[s] EXCEPT !.status = "archived"] \in Row
        BY DEF Row, Status
      <4>2. db' \in [Sids -> Row]
        BY <3>4, <4>1 DEF CompactArchive
      <4> QED BY <3>4, <4>2, FinishType DEF CompactArchive
    <3>5. CASE CheckPurge(p)
      <4>1. job[p].arg \in TaskArg
        BY <3>5, JobArg DEF CheckPurge
      <4>2. StaleForCheck(mem[p]) \in SUBSET Sids
        BY DEF StaleForCheck
      <4> QED BY <3>5, <4>1, <4>2, ArchiveStaleType, ProceedType DEF CheckPurge
    <3>6. CASE PurgeSave(p)
      <4>1. db' \in [Sids -> Row] /\ active' \in SUBSET Sids
        BY <3>6, SavedType DEF PurgeSave, Save, Store
      <4>2. CallTypeOK'
        BY <3>6, JobArg, ProceedType, FinishType DEF PurgeSave
      <4> QED BY <3>6, <4>1, <4>2 DEF PurgeSave
    <3>7. CASE Drain(p)
      <4>1. db' \in [Sids -> Row]
        BY <3>7, DrainedType DEF Drain, DrainTransaction
      <4>2. CallTypeOK'
        BY <3>7, JobArg, ProceedType, FinishType DEF Drain
      <4> QED BY <3>7, <4>1, <4>2 DEF Drain
    <3>8. ASSUME NEW s \in Sids, NEW passed \in BOOLEAN, Create(p, s, passed)
          PROVE  TypeOK'
      <4> DEFINE row == [NoRow EXCEPT !.status = "checked", !.passed = passed,
                                      !.task = job[p].arg, !.created = now]
      <4>1. job[p].arg \in Tasks \cup {NoTask}
        BY <3>8, JobArg DEF Create, TaskArg
      <4>2. row \in Row
        BY <4>1, NoRowType DEF Row, Status
      <4> QED BY <3>8, <4>2, HandlerType DEF Create, Store
    <3>9. CASE CreateExhausted(p)
      BY <3>9, FinishType DEF CreateExhausted
    <3> QED BY <2>7, <3>1, <3>2, <3>3, <3>4, <3>5, <3>6, <3>7, <3>8, <3>9
            DEF Continue
  <2>8. CASE Begin(p)
    <3>1. CASE CheckNoTask(p)
      BY <3>1, ProceedType DEF CheckNoTask, TaskArg
    <3>2. ASSUME NEW s \in Sids,
                 NEW status \in {"armed", "approved", "completed"},
                 BulkReview(p, s, status)
          PROVE  TypeOK'
      <4>1. [db[s] EXCEPT !.status = status,
                          !.consumed = @ \/ status # "armed"] \in Row
        BY <3>2, Words, ChangedRow DEF StoreTypeOK
      <4>2. db' \in [Sids -> Row]
        BY <3>2, <4>1 DEF BulkReview
      <4> QED BY <3>2, <4>2, LedgerType DEF BulkReview, CallTypeOK
    <3>3. CASE Startup(p)
      BY <3>3, DrainedType DEF Startup, CallTypeOK
    <3> QED BY <2>8, <3>1, <3>2, <3>3 DEF Begin
  <2> QED BY <2>3, <2>4, <2>5, <2>6, <2>7, <2>8
<1> QED BY <1>1, <1>2, PTL DEF Spec

-----------------------------------------------------------------------------
(* Rows that keep status and consumed_at together *)

\* The rows the invariants allow, with and without bulk reviews.
Decided == {r \in Row : DecidedRow(r)}
Good == {r \in Decided : OpenRow(r) /\ SignedRow(r)}
NoBulk == \A p \in Procs : "bulk" \notin Offers[p]

Inductive(D) == D = Decided \/ (D = Good /\ NoBulk)

\* Every copy of every row, stored or in memory, is in D.
RowsIn(D) == /\ db \in [Sids -> D]
             /\ \A p \in Procs : mem[p].rows \in [Sids -> D]

\* What it takes a row to be in D.
LEMMA InRows ==
  ASSUME NEW D, Inductive(D), NEW r \in Row
  PROVE  r \in D <=> /\ DecidedRow(r)
                     /\ D = Good => OpenRow(r) /\ SignedRow(r)
BY DEF Inductive, Decided, Good

LEMMA RowsAreRows == ASSUME NEW D, Inductive(D) PROVE D \subseteq Row
BY DEF Inductive, Decided, Good

\* D is closed under what the operations on whole stores do to a row.
LEMMA ClosedRows ==
  ASSUME NEW D, Inductive(D)
  PROVE  /\ NoRow \in D
         /\ \A r \in D : /\ [r EXCEPT !.status = "drained"] \in D
                         /\ [r EXCEPT !.status = "archived"] \in D
                         /\ r.status \in {"checked", "armed", "delivered"}
                              => HotRow(r) \in D
                         /\ r.status = "completed" => RecentRow(r) \in D
<1> USE DEF DecidedRow, OpenRow, SignedRow
<1>1. NoRow \in D
  BY NoRowType, InRows DEF NoRow
<1> SUFFICES ASSUME NEW r \in D
             PROVE  /\ [r EXCEPT !.status = "drained"] \in D
                    /\ [r EXCEPT !.status = "archived"] \in D
                    /\ r.status \in {"checked", "armed", "delivered"}
                         => HotRow(r) \in D
                    /\ r.status = "completed" => RecentRow(r) \in D
  BY <1>1
<1> r \in Row
  BY RowsAreRows
<1>2. [r EXCEPT !.status = "drained"] \in D
  <2>1. [r EXCEPT !.status = "drained"] \in Row
    BY DrainedRow
  <2> QED BY <2>1, InRows DEF Row
<1>3. [r EXCEPT !.status = "archived"] \in D
  <2>1. [r EXCEPT !.status = "archived"] \in Row
    BY DEF Row, Status
  <2> QED BY <2>1, InRows DEF Row
<1>4. ASSUME r.status \in {"checked", "armed", "delivered"}
      PROVE  HotRow(r) \in D
  <2>1. HotRow(r) \in Row
    BY NoRowType DEF HotRow, Row
  <2>2. HotRow(r).status = r.status /\ HotRow(r).consumed = FALSE
    BY DEF HotRow, NoRow
  <2> QED BY <1>4, <2>1, <2>2, InRows
<1>5. ASSUME r.status = "completed" PROVE RecentRow(r) \in D
  <2>1. RecentRow(r) \in Row /\ DecidedRow(r)
    BY NoRowType, InRows DEF RecentRow, Row
  <2>2. /\ RecentRow(r).status = "completed"
        /\ RecentRow(r).consumed = r.consumed
        /\ RecentRow(r).approval = FALSE
    BY <1>5 DEF RecentRow, NoRow
  <2> QED BY <1>5, <2>1, <2>2, InRows
<1> QED BY <1>2, <1>3, <1>4, <1>5

\* A save moves whole rows or drains them (dbSaveGateStore).
LEMMA SavedRows ==
  ASSUME NEW D, Inductive(D), RowsIn(D), NEW st, st.rows \in [Sids -> D]
  PROVE  Saved(st) \in [Sids -> D]
BY ClosedRows DEF Saved, RowsIn

\* The end of a call and its next load forget the copy.
LEMMA ForgetRows ==
  ASSUME NEW D, Inductive(D), TypeOK, RowsIn(D), NEW p \in Procs,
         mem' = [mem EXCEPT ![p] = EmptyStore]
  PROVE  \A q \in Procs : mem'[q].rows \in [Sids -> D]
BY ClosedRows DEF RowsIn, EmptyStore, TypeOK, CallTypeOK

\* A handler that stores one row of D and ends.
LEMMA HandlerRows ==
  ASSUME NEW D, Inductive(D), TypeOK, RowsIn(D), NEW p \in Procs,
         NEW s \in Sids, NEW r \in D, NEW a, Commit(p, s, r, a), Finish(p)
  PROVE  RowsIn(D)'
<1> DEFINE st == [rows |-> [mem[p].rows EXCEPT ![s] = r], active |-> a]
<1>1. st.rows \in [Sids -> D]
  BY DEF RowsIn
<1>2. db' \in [Sids -> D]
  BY <1>1, SavedRows DEF Commit, Save
<1> QED BY <1>2, ForgetRows DEF Finish, RowsIn

\* Archiving stale sessions takes them out of the copy.
LEMMA ArchiveStaleRows ==
  ASSUME NEW D, Inductive(D), TypeOK, RowsIn(D), NEW p \in Procs, NEW S,
         ArchiveStale(p, S)
  PROVE  RowsIn(D)'
<1>1. [s \in Sids |-> IF s \in S THEN NoRow ELSE mem[p].rows[s]] \in [Sids -> D]
  BY ClosedRows DEF RowsIn
<1> QED BY <1>1 DEF ArchiveStale, RowsIn, TypeOK, CallTypeOK

\* No step takes a row out of D.
LEMMA RowsStep ==
  ASSUME NEW D, Inductive(D), TypeOK, RowsIn(D), [Next]_vars
  PROVE  RowsIn(D)'
  <2>1. CASE UNCHANGED vars
    BY <2>1 DEF vars, RowsIn
  <2>2. CASE Tick
    BY <2>2 DEF Tick, RowsIn
  <2> SUFFICES ASSUME NEW p \in Procs,
                      \/ Load(p) \/ LoadFails(p) \/ Return(p) \/ Crash(p)
                      \/ Handler(p) \/ Continue(p) \/ Begin(p)
               PROVE  RowsIn(D)'
    BY <2>1, <2>2 DEF Next
  <2> /\ db \in [Sids -> D] /\ mem[p].rows \in [Sids -> D]
      /\ mem \in [Procs -> Store]
    BY DEF RowsIn, TypeOK, CallTypeOK
  <2>3. CASE Load(p)
    <3>1. Reconciled([rows |-> db, active |-> active]).rows = db
      BY DEF Reconciled
    <3> QED BY <2>3, <3>1 DEF Load, RowsIn
  <2>4. CASE LoadFails(p)
    BY <2>4, ForgetRows DEF LoadFails, RowsIn
  <2>5. CASE Return(p) \/ Crash(p)
    BY <2>5, ForgetRows DEF Return, Crash, Finish, RowsIn
  <2>6. CASE Handler(p)
    <3> DEFINE Sound(r) == /\ DecidedRow(r)
                           /\ D = Good => OpenRow(r) /\ SignedRow(r)
    <3> \A s \in Sids : mem[p].rows[s] \in Row /\ Sound(mem[p].rows[s])
      BY RowsAreRows, InRows
    <3> USE DEF DecidedRow, OpenRow, SignedRow
    <3> now \in Nat
      BY DEF TypeOK, StoreTypeOK
    <3>1. ASSUME NEW s \in Sids, NEW agent \in Agents, NEW t \in TaskArg,
                 Confirm(p, s, agent, t)
          PROVE  RowsIn(D)'
      <4> DEFINE row == [mem[p].rows[s] EXCEPT
                           !.status = "armed",
                           !.approval = agent \notin Exempt,
                           !.task = IF t = NoTask THEN mem[p].rows[s].task
                                                   ELSE t,
                           !.confirmed = now]
      <4>1. row \in Row
        <5>1. mem[p].rows[s] \in Row /\ (agent \notin Exempt) \in BOOLEAN
          OBVIOUS
        <5> QED BY <5>1, ArmedRow
      <4>2. Sound(row)
        BY <3>1 DEF Confirm, Row
      <4>3. row \in D
        <5> HIDE DEF row
        <5> QED BY <4>1, <4>2, InRows
      <4> QED BY <3>1, <4>3, HandlerRows DEF Confirm
    <3>2. ASSUME NEW s \in Sids, NEW outcome \in {"delivered", "recoverable"},
                 Submit(p, s, outcome)
          PROVE  RowsIn(D)'
      <4> DEFINE row == [mem[p].rows[s] EXCEPT !.status = outcome,
                                            !.submitted = now]
      <4>1. row \in Row
        BY Words, ChangedRow
      <4>2. Sound(row)
        BY <3>2 DEF Submit, Row
      <4>3. row \in D
        <5> HIDE DEF row
        <5> QED BY <4>1, <4>2, InRows
      <4> QED BY <3>2, <4>3, HandlerRows DEF Submit
    <3>3. ASSUME NEW s \in Sids, Reject(p, s)
          PROVE  RowsIn(D)'
      <4> DEFINE row == [mem[p].rows[s] EXCEPT !.status = "armed",
                                            !.submitted = Never]
      <4>1. row \in Row
        BY Words, ChangedRow
      <4>2. Sound(row)
        BY <3>3 DEF Reject, Row
      <4>3. row \in D
        <5> HIDE DEF row
        <5> QED BY <4>1, <4>2, InRows
      <4> QED BY <3>3, <4>3, HandlerRows DEF Reject
    <3>4. ASSUME NEW s \in Sids, Approve(p, s)
          PROVE  RowsIn(D)'
      <4> DEFINE row == Approved(mem[p].rows[s])
      <4>1. row \in Row
        BY DEF Row, Status, Live, Terminal, Time, TaskArg, Approved
      <4>2. Sound(row)
        BY <3>4 DEF Approve, Row, Approved
      <4>3. row \in D
        <5> HIDE DEF row
        <5> QED BY <4>1, <4>2, InRows
      <4> QED BY <3>4, <4>3, HandlerRows DEF Approve
    <3>5. ASSUME NEW s \in Sids, ApproveComplete(p, s)
          PROVE  RowsIn(D)'
      <4> DEFINE row == [Approved(mem[p].rows[s]) EXCEPT
                           !.status = "completed"]
      <4>1. row \in Row
        BY DEF Row, Status, Live, Terminal, Time, TaskArg, Approved
      <4>2. Sound(row)
        BY <3>5 DEF ApproveComplete, Row, Approved
      <4>3. row \in D
        <5> HIDE DEF row
        <5> QED BY <4>1, <4>2, InRows
      <4> QED BY <3>5, <4>3, HandlerRows DEF ApproveComplete
    <3>6. ASSUME NEW s \in Sids, NEW t \in TaskArg, Retry(p, s, t)
          PROVE  RowsIn(D)'
      <4> DEFINE row == [mem[p].rows[s] EXCEPT
                           !.status = "armed", !.consumed = FALSE,
                           !.confirmed = now,
                           !.task = IF t = NoTask THEN mem[p].rows[s].task
                                                   ELSE t]
      <4>0. (IF t = NoTask THEN mem[p].rows[s].task ELSE t)
               \in Tasks \cup {NoTask}
        BY ChangedTask
      <4>1. row \in Row
        BY <4>0, Words, ChangedRow
      <4>2. Sound(row)
        BY <3>6 DEF Retry, Row
      <4>3. row \in D
        <5> HIDE DEF row
        <5> QED BY <4>1, <4>2, InRows
      <4> QED BY <3>6, <4>3, HandlerRows DEF Retry
    <3>7. ASSUME NEW s \in Sids, CompleteFails(p, s)
          PROVE  RowsIn(D)'
      <4> DEFINE row == [mem[p].rows[s] EXCEPT !.status = "failed",
                                            !.consumed = TRUE]
      <4>1. row \in Row
        BY Words, ChangedRow
      <4>2. Sound(row)
        BY <3>7 DEF CompleteFails, Row
      <4>3. row \in D
        <5> HIDE DEF row
        <5> QED BY <4>1, <4>2, InRows
      <4> QED BY <3>7, <4>3, HandlerRows DEF CompleteFails
    <3>8. ASSUME NEW s \in Sids, CompleteIncomplete(p, s)
          PROVE  RowsIn(D)'
      <4> DEFINE exhausted == LoadedRetries + 1 > ArtifactRetryLimit
                 row == [mem[p].rows[s] EXCEPT
                           !.status = IF exhausted THEN "failed"
                                                   ELSE "recoverable",
                           !.consumed = exhausted]
      <4>1. exhausted = FALSE
        BY DEF LoadedRetries, ArtifactRetryLimit
      <4> HIDE DEF exhausted
      <4>2. row \in Row
        BY <4>1 DEF Row, Status
      <4>3. Sound(row)
        BY <4>1 DEF Row
      <4>4. row \in D
        <5> HIDE DEF row
        <5> QED BY <4>2, <4>3, InRows
      <4>5. Commit(p, s, row, mem[p].active) /\ Finish(p)
        BY <3>8, <4>1 DEF CompleteIncomplete, exhausted
      <4> QED BY <4>4, <4>5, HandlerRows
    <3>9. ASSUME NEW s \in Sids, Complete(p, s)
          PROVE  RowsIn(D)'
      <4> DEFINE row == [mem[p].rows[s] EXCEPT !.status = "completed",
                                            !.consumed = TRUE]
                 st == [rows |-> [mem[p].rows EXCEPT ![s] = row],
                        active |-> mem[p].active \ {s}]
      <4>0. row \in Row /\ Sound(row)
        BY <3>9 DEF Complete, CompleteAllowed, Row, Status, Terminal
      <4>1. row \in D
        BY <4>0, InRows
      <4>2. st.rows \in [Sids -> D]
        BY <4>1
      <4>3. db' = Saved(st) /\ mem' = mem
        BY <3>9 DEF Complete, Commit, Save
      <4> QED BY <4>2, <4>3, SavedRows DEF RowsIn
    <3>10. ASSUME NEW t \in Tasks, CheckConflict(p, t)
           PROVE  RowsIn(D)'
      BY <3>10, ForgetRows DEF CheckConflict, Proceed, RowsIn
    <3>11. CASE PurgeTool(p)
      BY <3>11, ArchiveStaleRows DEF PurgeTool
    <3> QED BY <2>6, <3>1, <3>2, <3>3, <3>4, <3>5, <3>6, <3>7, <3>8, <3>9,
               <3>10, <3>11 DEF Handler
  <2>7. CASE Continue(p)
    <3>1. CASE WriteBack(p)
      BY <3>1, SavedRows DEF WriteBack, Save, RowsIn
    <3>2. CASE CompactRead(p)
      BY <3>2 DEF CompactRead, RowsIn, Store
    <3>3. CASE CompactSync(p)
      BY <3>3, ClosedRows DEF CompactSync, RowsIn
    <3>4. CASE CompactArchive(p)
      <4>1. \A s \in Sids : [db[s] EXCEPT !.status = "archived"] \in D
        BY ClosedRows
      <4>2. db' \in [Sids -> D]
        BY <3>4, <4>1 DEF CompactArchive
      <4> QED BY <3>4, <4>2, ForgetRows DEF CompactArchive, Finish, RowsIn
    <3>5. CASE CheckPurge(p)
      BY <3>5, ArchiveStaleRows, ForgetRows DEF CheckPurge, Proceed, RowsIn
    <3>6. CASE PurgeSave(p)
      <4>1. db' \in [Sids -> D]
        BY <3>6, SavedRows DEF PurgeSave, Save
      <4> QED BY <3>6, <4>1, ForgetRows DEF PurgeSave, Proceed, Finish, RowsIn
    <3>7. CASE Drain(p)
      <4>1. db' \in [Sids -> D]
        BY <3>7, ClosedRows DEF Drain, DrainTransaction, Drained
      <4> QED BY <3>7, <4>1, ForgetRows DEF Drain, Proceed, Finish, RowsIn
    <3>8. ASSUME NEW s \in Sids, NEW passed \in BOOLEAN, Create(p, s, passed)
          PROVE  RowsIn(D)'
      <4> DEFINE row == [NoRow EXCEPT !.status = "checked", !.passed = passed,
                                      !.task = job[p].arg, !.created = now]
      <4>1. job[p].arg \in Tasks \cup {NoTask} /\ now \in Nat
        BY <3>8, JobArg DEF Create, TaskArg, TypeOK, StoreTypeOK
      <4>2. row \in Row
        BY <4>1, NoRowType DEF Row, Status
      <4>3. row.status = "checked" /\ row.consumed = FALSE
        BY DEF NoRow
      <4> HIDE DEF row
      <4>4. DecidedRow(row) /\ OpenRow(row) /\ SignedRow(row)
        BY <4>3 DEF DecidedRow, OpenRow, SignedRow
      <4>5. row \in D
        BY <4>2, <4>4, InRows
      <4> USE DEF row
      <4> QED BY <3>8, <4>5, HandlerRows DEF Create
    <3>9. CASE CreateExhausted(p)
      BY <3>9, ForgetRows DEF CreateExhausted, Finish, RowsIn
    <3> QED BY <2>7, <3>1, <3>2, <3>3, <3>4, <3>5, <3>6, <3>7, <3>8, <3>9
            DEF Continue
  <2>8. CASE Begin(p)
    <3>1. CASE CheckNoTask(p)
      BY <3>1, ForgetRows DEF CheckNoTask, Proceed, RowsIn
    <3>2. ASSUME NEW s \in Sids,
                 NEW status \in {"armed", "approved", "completed"},
                 BulkReview(p, s, status)
          PROVE  RowsIn(D)'
      <4>1. D = Decided
        BY <3>2 DEF BulkReview, Inductive, NoBulk
      <4> DEFINE c == db[s].consumed \/ status # "armed"
                 row == [db[s] EXCEPT !.status = status, !.consumed = c]
      <4>2. db[s] \in Row /\ c \in BOOLEAN
        BY RowsAreRows
      <4>3. row \in D
        <5> HIDE DEF c
        <5>1. row \in Row
          BY <4>2 DEF Row, Status, Live, Terminal
        <5>2. row.status = status /\ row.consumed = c
          BY <4>2 DEF Row
        <5>3. status # "armed" => c
          BY DEF c
        <5> HIDE DEF row
        <5> QED BY <4>1, <5>1, <5>2, <5>3 DEF Decided, DecidedRow
      <4>4. db' = [db EXCEPT ![s] = row]
        BY <3>2 DEF BulkReview
      <4> QED BY <3>2, <4>3, <4>4 DEF BulkReview, RowsIn
    <3>3. CASE Startup(p)
      BY <3>3, ClosedRows DEF Startup, Drained, RowsIn
    <3> QED BY <2>8, <3>1, <3>2, <3>3 DEF Begin
  <2> QED BY <2>3, <2>4, <2>5, <2>6, <2>7, <2>8

LEMMA RowsInit == ASSUME NEW D, Inductive(D), Init PROVE RowsIn(D)
BY ClosedRows DEF Init, RowsIn, EmptyStore

\* An approved, completed or failed session carries consumed_at in every copy,
\* bulk reviews included.
THEOREM DecidedInvariant == Spec => []DecidedIsConsumed
<1>1. Inductive(Decided)
  BY DEF Inductive
<1>2. Init => RowsIn(Decided)
  BY <1>1, RowsInit
<1>3. TypeOK /\ RowsIn(Decided) /\ [Next]_vars => RowsIn(Decided)'
  BY <1>1, RowsStep
<1>4. RowsIn(Decided) => DecidedIsConsumed
  BY DEF RowsIn, Decided, DecidedIsConsumed, EveryRow
<1> QED BY <1>2, <1>3, <1>4, TypeInvariant, PTL DEF Spec

\* Without bulk reviews an open session is not consumed, and a completed one
\* that needs an approver names it.
THEOREM OpenAndSignedInvariant ==
  ASSUME NoBulk
  PROVE  Spec => [](OpenIsUnconsumed /\ CompletedIsSigned)
<1>1. Inductive(Good)
  BY DEF Inductive
<1>2. Init => RowsIn(Good)
  BY <1>1, RowsInit
<1>3. TypeOK /\ RowsIn(Good) /\ [Next]_vars => RowsIn(Good)'
  BY <1>1, RowsStep
<1>4. RowsIn(Good) => OpenIsUnconsumed /\ CompletedIsSigned
  BY DEF RowsIn, Good, OpenIsUnconsumed, CompletedIsSigned, EveryRow
<1> QED BY <1>2, <1>3, <1>4, TypeInvariant, PTL DEF Spec

\* Its first half on its own: without bulk reviews no handler, in any overlap,
\* takes a session that is open for work for a finished one.
COROLLARY OpenInvariant ==
  ASSUME NoBulk
  PROVE  Spec => []OpenIsUnconsumed
BY OpenAndSignedInvariant, PTL

-----------------------------------------------------------------------------
(* Completion records *)

\* Between complete and the compactor's last step the session is known to have
\* its record: CompactArchive relies on it.
CompactedIsAudited ==
  \A p \in Procs : job[p].kind = "compact" => audits[job[p].arg] > 0

Recorded == CompletedIsAudited /\ CompactedIsAudited

Over(r) == r.status \in {"completed", "archived"}

\* A save completes no session that neither the copy nor the store shows
\* completed.
LEMMA SavedOver ==
  ASSUME TypeOK, NEW st \in Store, NEW s \in Sids, Over(Saved(st)[s])
  PROVE  Over(st.rows[s]) \/ Over(db[s])
<1>1. db[s] \in Row /\ st.rows[s] \in Row
  BY DEF TypeOK, StoreTypeOK, Store
<1>2. [db[s] EXCEPT !.status = "drained"].status = "drained"
  BY <1>1 DEF Row
<1> QED BY <1>1, <1>2 DEF Saved, Over

\* Draining completes no session.
LEMMA DrainedOver ==
  ASSUME TypeOK, NEW S \in SUBSET Sids, NEW s \in Sids,
         Over(Drained(db, S)[s])
  PROVE  Over(db[s])
BY DEF TypeOK, StoreTypeOK, Drained, Over, Row

\* A call that ends, or goes on with its next load, leaves no copy behind.
LEMMA ForgetRecorded ==
  ASSUME TypeOK, Recorded, NEW p \in Procs, NEW j \in Jobs, j.kind # "compact",
         mem' = [mem EXCEPT ![p] = EmptyStore], job' = [job EXCEPT ![p] = j],
         UNCHANGED audits,
         \A s \in Sids : Over(db'[s]) => audits[s] > 0
  PROVE  Recorded'
BY DEF TypeOK, CallTypeOK, Recorded, CompletedIsAudited, CompactedIsAudited,
       AuditedRow, Over, EmptyStore, NoRow

\* The jobs that Finish and Proceed leave.
LEMMA NextJob ==
  ASSUME TypeOK, NEW p \in Procs
  PROVE  /\ Idle \in Jobs /\ Idle.kind # "compact"
         /\ \A kind \in {"purge", "drain", "create"}, t \in TaskArg :
              /\ [kind |-> kind, arg |-> t] \in Jobs
              /\ [kind |-> kind, arg |-> t].kind # "compact"
BY DEF Idle, Jobs, TaskArg

LEMMA FinishRecorded ==
  ASSUME TypeOK, Recorded, NEW p \in Procs, Finish(p), UNCHANGED audits,
         \A s \in Sids : Over(db'[s]) => audits[s] > 0
  PROVE  Recorded'
BY ForgetRecorded, NextJob DEF Finish

LEMMA ProceedRecorded ==
  ASSUME TypeOK, Recorded, NEW p \in Procs, NEW t \in TaskArg,
         NEW kind \in {"purge", "drain", "create"}, Proceed(p, kind, t),
         UNCHANGED audits, \A s \in Sids : Over(db'[s]) => audits[s] > 0
  PROVE  Recorded'
BY ForgetRecorded, NextJob DEF Proceed

\* A handler whose row is not over.
LEMMA HandlerRecorded ==
  ASSUME TypeOK, Recorded, NEW p \in Procs, NEW s \in Sids, NEW r \in Row,
         NEW a \in SUBSET Sids, Commit(p, s, r, a), Finish(p), ~Over(r),
         UNCHANGED audits
  PROVE  Recorded'
<1> DEFINE st == [rows |-> [mem[p].rows EXCEPT ![s] = r], active |-> a]
<1>1. st \in Store
  BY DEF TypeOK, CallTypeOK, Store
<1>2. \A u \in Sids : Over(st.rows[u]) => audits[u] > 0
  BY DEF TypeOK, CallTypeOK, Store, Recorded, CompletedIsAudited, AuditedRow,
         Over
<1>3. \A u \in Sids : Over(db[u]) => audits[u] > 0
  BY DEF Recorded, CompletedIsAudited, AuditedRow, Over
<1>4. \A u \in Sids : Over(db'[u]) => audits[u] > 0
  <2> db' = Saved(st)
    BY DEF Commit, Save
  <2> HIDE DEF st
  <2> SUFFICES ASSUME NEW u \in Sids, Over(Saved(st)[u])
               PROVE  audits[u] > 0
    OBVIOUS
  <2>1. Over(st.rows[u]) \/ Over(db[u])
    BY <1>1, SavedOver
  <2> QED BY <1>2, <1>3, <2>1
<1> QED BY <1>4, FinishRecorded

\* A handler that completes its session writes the record with it.
LEMMA CompletingRecorded ==
  ASSUME TypeOK, Recorded, NEW p \in Procs, NEW s \in Sids, NEW r \in Row,
         NEW a \in SUBSET Sids, Commit(p, s, r, a),
         audits' = [audits EXCEPT ![s] = @ + 1]
  PROVE  /\ \A u \in Sids : Over(db'[u]) => audits'[u] > 0
         /\ \A u \in Sids : audits[u] > 0 => audits'[u] > 0
         /\ audits'[s] > 0
<1> DEFINE st == [rows |-> [mem[p].rows EXCEPT ![s] = r], active |-> a]
<1>1. st \in Store
  BY DEF TypeOK, CallTypeOK, Store
<1>2. /\ \A u \in Sids : audits[u] > 0 => audits'[u] > 0
      /\ audits'[s] > 0
  BY DEF TypeOK, StoreTypeOK
<1>3. \A u \in Sids : Over(st.rows[u]) \/ Over(db[u]) => audits'[u] > 0
  BY <1>2 DEF TypeOK, CallTypeOK, Store, Recorded, CompletedIsAudited,
              AuditedRow, Over
<1>4. \A u \in Sids : Over(db'[u]) => audits'[u] > 0
  <2> db' = Saved(st)
    BY DEF Commit, Save
  <2> HIDE DEF st
  <2> SUFFICES ASSUME NEW u \in Sids, Over(Saved(st)[u])
               PROVE  audits'[u] > 0
    OBVIOUS
  <2>1. Over(st.rows[u]) \/ Over(db[u])
    BY <1>1, SavedOver
  <2> QED BY <1>3, <2>1
<1> QED BY <1>2, <1>4

\* Archiving stale sessions takes them out of the copy.
LEMMA ArchiveStaleRecorded ==
  ASSUME TypeOK, Recorded, NEW p \in Procs, NEW S, ArchiveStale(p, S)
  PROVE  Recorded'
BY DEF ArchiveStale, Recorded, CompletedIsAudited, CompactedIsAudited,
       AuditedRow, TypeOK, CallTypeOK, Store, NoRow

\* No step completes a session without its record.
LEMMA RecordedStep ==
  ASSUME NoBulk, TypeOK, Recorded, [Next]_vars
  PROVE  Recorded'
  <2>1. CASE UNCHANGED vars
    BY <2>1 DEF vars, Recorded, CompletedIsAudited, CompactedIsAudited,
                AuditedRow
  <2>2. CASE Tick
    BY <2>2 DEF Tick, Recorded, CompletedIsAudited, CompactedIsAudited,
                AuditedRow
  <2> SUFFICES ASSUME NEW p \in Procs,
                      \/ Load(p) \/ LoadFails(p) \/ Return(p) \/ Crash(p)
                      \/ Handler(p) \/ Continue(p) \/ Begin(p)
               PROVE  Recorded'
    BY <2>1, <2>2 DEF Next
  <2>a. /\ mem[p] \in Store /\ mem \in [Procs -> Store]
        /\ db \in [Sids -> Row] /\ now \in Nat /\ audits \in [Sids -> Nat]
    BY DEF TypeOK, StoreTypeOK, CallTypeOK
  <2>b. \A u \in Sids : /\ Over(db[u]) => audits[u] > 0
                        /\ Over(mem[p].rows[u]) => audits[u] > 0
    BY DEF Recorded, CompletedIsAudited, AuditedRow, Over
  <2>3. CASE Load(p)
    <3>1. Reconciled([rows |-> db, active |-> active]).rows = db
      BY DEF Reconciled
    <3> QED BY <2>3, <2>a, <3>1 DEF Load, Recorded, CompletedIsAudited,
                               CompactedIsAudited, AuditedRow
  <2>4. CASE LoadFails(p)
    BY <2>4, <2>a DEF LoadFails, Recorded, CompletedIsAudited,
                 CompactedIsAudited, AuditedRow, EmptyStore, NoRow
  <2>5. CASE Return(p) \/ Crash(p)
    BY <2>5, <2>b, FinishRecorded DEF Return, Crash
  <2>6. CASE Handler(p)
    <3> \A s \in Sids : mem[p].rows[s] \in Row
      BY <2>a DEF Store
    <3> now \in Nat
      BY <2>a
    <3> mem[p].active \in SUBSET Sids
      BY <2>a DEF Store
    <3>1. ASSUME NEW s \in Sids, NEW agent \in Agents, NEW t \in TaskArg,
                 Confirm(p, s, agent, t)
          PROVE  Recorded'
      <4> DEFINE row == [mem[p].rows[s] EXCEPT
                           !.status = "armed",
                           !.approval = agent \notin Exempt,
                           !.task = IF t = NoTask THEN mem[p].rows[s].task
                                                   ELSE t,
                           !.confirmed = now]
      <4>0. mem[p].rows[s] \in Row /\ (agent \notin Exempt) \in BOOLEAN
        OBVIOUS
      <4>1. row \in Row
        BY <4>0, ArmedRow
      <4>2. ~Over(row)
        BY DEF Over, Row
      <4> HIDE DEF Over
      <4> QED BY <3>1, <4>1, <4>2, HandlerRecorded DEF Confirm, Store
    <3>2. ASSUME NEW s \in Sids, NEW outcome \in {"delivered", "recoverable"},
                 Submit(p, s, outcome)
          PROVE  Recorded'
      <4> DEFINE row == [mem[p].rows[s] EXCEPT !.status = outcome,
                                            !.submitted = now]
      <4>1. row \in Row
        BY Words, ChangedRow
      <4>2. ~Over(row)
        BY DEF Over, Row
      <4> HIDE DEF Over
      <4> QED BY <3>2, <4>1, <4>2, HandlerRecorded DEF Submit, Store
    <3>3. ASSUME NEW s \in Sids, Reject(p, s)
          PROVE  Recorded'
      <4> DEFINE row == [mem[p].rows[s] EXCEPT !.status = "armed",
                                            !.submitted = Never]
      <4>1. row \in Row
        BY Words, ChangedRow
      <4>2. ~Over(row)
        BY DEF Over, Row
      <4> HIDE DEF Over
      <4> QED BY <3>3, <4>1, <4>2, HandlerRecorded DEF Reject, Store
    <3>4. ASSUME NEW s \in Sids, Approve(p, s)
          PROVE  Recorded'
      <4> DEFINE row == Approved(mem[p].rows[s])
      <4>1. row \in Row
        BY DEF Row, Status, Live, Terminal, Time, TaskArg, Approved
      <4>2. ~Over(row)
        BY DEF Over, Row, Approved
      <4> HIDE DEF Over
      <4> QED BY <3>4, <4>1, <4>2, HandlerRecorded DEF Approve, Store
    <3>5. ASSUME NEW s \in Sids, ApproveComplete(p, s)
          PROVE  Recorded'
      <4> DEFINE row == [Approved(mem[p].rows[s]) EXCEPT
                           !.status = "completed"]
      <4>0. Approved(mem[p].rows[s]) \in Row
        BY DEF Approved, Row, Status, Live
      <4>1. row \in Row
        BY <4>0 DEF Row, Status, Terminal
      <4>a. /\ Commit(p, s, row, mem[p].active \ {s})
            /\ audits' = [audits EXCEPT ![s] = @ + 1]
            /\ mem[p].active \ {s} \in SUBSET Sids
        BY <3>5, <2>a DEF ApproveComplete, Store
      <4>2. /\ \A u \in Sids : Over(db'[u]) => audits'[u] > 0
            /\ \A u \in Sids : audits[u] > 0 => audits'[u] > 0
        <5> HIDE DEF row
        <5> QED BY <4>1, <4>a, CompletingRecorded
      <4>3. Finish(p)
        BY <3>5 DEF ApproveComplete
      <4> QED BY <4>2, <4>3, <2>a
              DEF Finish, Idle, EmptyStore, NoRow, Over, Recorded, AuditedRow,
                  CompletedIsAudited, CompactedIsAudited, TypeOK, CallTypeOK,
                  Jobs
    <3>6. ASSUME NEW s \in Sids, NEW t \in TaskArg, Retry(p, s, t)
          PROVE  Recorded'
      <4> DEFINE row == [mem[p].rows[s] EXCEPT
                           !.status = "armed", !.consumed = FALSE,
                           !.confirmed = now,
                           !.task = IF t = NoTask THEN mem[p].rows[s].task
                                                   ELSE t]
      <4>0. (IF t = NoTask THEN mem[p].rows[s].task ELSE t)
               \in Tasks \cup {NoTask}
        BY ChangedTask
      <4>1. row \in Row
        BY <4>0, Words, ChangedRow
      <4>2. ~Over(row)
        BY DEF Over, Row
      <4> HIDE DEF Over
      <4> QED BY <3>6, <4>1, <4>2, HandlerRecorded DEF Retry, Store
    <3>7. ASSUME NEW s \in Sids, CompleteFails(p, s)
          PROVE  Recorded'
      <4> DEFINE row == [mem[p].rows[s] EXCEPT !.status = "failed",
                                            !.consumed = TRUE]
      <4>1. row \in Row
        BY Words, ChangedRow
      <4>2. ~Over(row)
        BY DEF Over, Row
      <4> HIDE DEF Over
      <4> QED BY <3>7, <4>1, <4>2, HandlerRecorded DEF CompleteFails, Store
    <3>8. ASSUME NEW s \in Sids, CompleteIncomplete(p, s)
          PROVE  Recorded'
      <4> DEFINE exhausted == LoadedRetries + 1 > ArtifactRetryLimit
                 row == [mem[p].rows[s] EXCEPT
                           !.status = IF exhausted THEN "failed"
                                                   ELSE "recoverable",
                           !.consumed = exhausted]
      <4>1. exhausted = FALSE
        BY DEF LoadedRetries, ArtifactRetryLimit
      <4> HIDE DEF exhausted
      <4>2. row \in Row
        BY <4>1 DEF Row, Status
      <4>3. ~Over(row)
        BY <4>1 DEF Over, Row
      <4>4. Commit(p, s, row, mem[p].active) /\ Finish(p) /\ UNCHANGED audits
        BY <3>8, <4>1 DEF CompleteIncomplete, exhausted
      <4> QED BY <4>2, <4>3, <4>4, HandlerRecorded
    <3>9. ASSUME NEW s \in Sids, Complete(p, s)
          PROVE  Recorded'
      <4> DEFINE row == [mem[p].rows[s] EXCEPT !.status = "completed",
                                            !.consumed = TRUE]
      <4>1. row \in Row
        BY Words, ChangedRow
      <4>2. /\ \A u \in Sids : Over(db'[u]) => audits'[u] > 0
            /\ \A u \in Sids : audits[u] > 0 => audits'[u] > 0
            /\ audits'[s] > 0
        BY <3>9, <4>1, CompletingRecorded DEF Complete
      <4>3. /\ job' = [job EXCEPT ![p] = [kind |-> "compact", arg |-> s]]
            /\ mem' = mem
        BY <3>9 DEF Complete
      <4> QED BY <4>2, <4>3
              DEF Over, Recorded, AuditedRow, CompletedIsAudited,
                  CompactedIsAudited, TypeOK, CallTypeOK, Jobs
    <3>10. ASSUME NEW t \in Tasks, CheckConflict(p, t)
           PROVE  Recorded'
      BY <3>10, <2>b, ProceedRecorded DEF CheckConflict, TaskArg
    <3>11. CASE PurgeTool(p)
      BY <3>11, ArchiveStaleRecorded DEF PurgeTool
    <3> QED BY <2>6, <3>1, <3>2, <3>3, <3>4, <3>5, <3>6, <3>7, <3>8, <3>9,
               <3>10, <3>11 DEF Handler
  <2>7. CASE Continue(p)
    <3> DEFINE Safe == \A u \in Sids : Over(db'[u]) => audits[u] > 0
    <3>1. CASE WriteBack(p)
      <4>1. Safe
        BY <3>1, <2>a, <2>b, SavedOver DEF WriteBack, Save
      <4> QED BY <3>1, <4>1
              DEF WriteBack, Over, Recorded, AuditedRow, CompletedIsAudited,
                  CompactedIsAudited
    <3>2. CASE CompactRead(p)
      BY <3>2, <2>a DEF CompactRead, Recorded, AuditedRow, CompletedIsAudited,
                        CompactedIsAudited, Store
    <3>3. CASE CompactSync(p)
      <4>1. Safe
        BY <3>3, <2>b DEF CompactSync, HotRow, RecentRow, NoRow, Over
      <4> QED BY <3>3, <4>1
              DEF CompactSync, Over, Recorded, AuditedRow, CompletedIsAudited,
                  CompactedIsAudited
    <3>4. CASE CompactArchive(p)
      <4>1. audits[job[p].arg] > 0
        BY <3>4 DEF CompactArchive, Recorded, CompactedIsAudited, TypeOK,
                    CallTypeOK
      <4>2. \A u \in Sids : u # job[p].arg => db'[u] = db[u]
        BY <3>4, <2>a DEF CompactArchive
      <4>3. Safe
        BY <4>1, <4>2, <2>b
      <4> QED BY <3>4, <4>3, FinishRecorded DEF CompactArchive
    <3>5. CASE CheckPurge(p)
      BY <3>5, <2>b, JobArg, ArchiveStaleRecorded, ProceedRecorded
         DEF CheckPurge
    <3>6. CASE PurgeSave(p)
      <4>1. Safe
        BY <3>6, <2>a, <2>b, SavedOver DEF PurgeSave, Save
      <4> QED BY <3>6, <4>1, JobArg, FinishRecorded, ProceedRecorded
              DEF PurgeSave
    <3>7. CASE Drain(p)
      <4>1. Safe
        <5>1. \/ db' = db
              \/ \E S \in SUBSET Sids : db' = Drained(db, S)
          BY <3>7 DEF Drain, DrainTransaction, StaleForCheck
        <5> QED BY <2>b, <5>1, DrainedOver
      <4> QED BY <3>7, <4>1, JobArg, FinishRecorded, ProceedRecorded DEF Drain
    <3>8. ASSUME NEW s \in Sids, NEW passed \in BOOLEAN, Create(p, s, passed)
          PROVE  Recorded'
      <4> DEFINE row == [NoRow EXCEPT !.status = "checked", !.passed = passed,
                                      !.task = job[p].arg, !.created = now]
      <4>1. job[p].arg \in Tasks \cup {NoTask}
        BY <3>8, JobArg DEF Create, TaskArg
      <4>2. row \in Row
        BY <4>1, <2>a, NoRowType DEF Row, Status
      <4>3. ~Over(row)
        BY DEF Over, NoRow
      <4> QED BY <3>8, <4>2, <4>3, <2>a, HandlerRecorded DEF Create, Store
    <3>9. CASE CreateExhausted(p)
      BY <3>9, <2>b, FinishRecorded DEF CreateExhausted
    <3> QED BY <2>7, <3>1, <3>2, <3>3, <3>4, <3>5, <3>6, <3>7, <3>8, <3>9
            DEF Continue
  <2>8. CASE Begin(p)
    <3>1. CASE CheckNoTask(p)
      BY <3>1, <2>b, ProceedRecorded DEF CheckNoTask, TaskArg
    <3>2. \A s \in Sids, status \in {"armed", "approved", "completed"} :
            ~BulkReview(p, s, status)
      BY DEF NoBulk, BulkReview
    <3>3. CASE Startup(p)
      <4>1. \E S \in SUBSET Sids : db' = Drained(db, S)
        BY <3>3 DEF Startup, StartupDelivered, StartupArmed
      <4>2. \A u \in Sids : Over(db'[u]) => audits[u] > 0
        BY <2>b, <4>1, DrainedOver
      <4> QED BY <3>3, <4>2
              DEF Startup, Over, Recorded, AuditedRow, CompletedIsAudited,
                  CompactedIsAudited
    <3> QED BY <2>8, <3>1, <3>2, <3>3 DEF Begin
  <2> QED BY <2>3, <2>4, <2>5, <2>6, <2>7, <2>8

\* Without bulk reviews a completed or archived session has its completion
\* record, in every copy and at every moment of the compactor's three steps.
THEOREM AuditedInvariant ==
  ASSUME NoBulk
  PROVE  Spec => []CompletedIsAudited
<1>1. Init => Recorded
  BY DEF Init, Recorded, CompletedIsAudited, CompactedIsAudited, AuditedRow,
         EmptyStore, NoRow, Idle
<1>2. TypeOK /\ Recorded /\ [Next]_vars => Recorded'
  BY RecordedStep
<1>3. Recorded => CompletedIsAudited
  BY DEF Recorded
<1> QED BY <1>1, <1>2, <1>3, TypeInvariant, PTL DEF Spec
=============================================================================
