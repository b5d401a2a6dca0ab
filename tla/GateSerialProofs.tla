-------------------------- MODULE GateSerialProofs --------------------------
(***************************************************************************)
(* What the gate store guarantees when calls follow one another, for every *)
(* number of processes and sessions, every rule table and crashes anywhere *)
(* inside a call: the lifecycle of a session, and what draining and        *)
(* completing one means.  Of all this little is left when calls overlap,   *)
(* and a failed read or a bulk review is enough to break it too.           *)
(***************************************************************************)
EXTENDS GateStoreProofs

\* The usual deployment.
Serial == ~Overlap /\ NoBulk /\ "load" \notin Faults

-----------------------------------------------------------------------------
(* The inductive invariant *)

\* One call at a time.
Alone == \A p, q \in Procs : ~Quiet(p) /\ ~Quiet(q) => p = q

\* A stale session that a purge has archived and dropped from its copy.
TakenOut(p, s) ==
  /\ mem[p].rows[s] = NoRow /\ s \in archived
  /\ StaleArmed(db[s]) \/ StaleChecked(db[s])

\* What a call has in memory is what is stored, but for what its purge drops;
\* and the compactor works on a completed session.
TrueCopy(p) ==
  /\ pc[p] \in {"reconcile", "run", "sync"} => mem[p].rows = db
  /\ pc[p] = "purged" =>
       \A s \in Sids : mem[p].rows[s] = db[s] \/ TakenOut(p, s)
  /\ pc[p] \in {"compact", "sync", "archive"} =>
       db[job[p].arg].status = "completed"

\* A session has one completion record at most, and only when it is over.
Once(s) == audits[s] <= 1 /\ (audits[s] = 1 => Over(db[s]))

SerialInv ==
  /\ Alone
  /\ \A p \in Procs : TrueCopy(p)
  /\ \A s \in Sids : Once(s)

IInv == TypeOK /\ DecidedIsConsumed /\ SerialInv

-----------------------------------------------------------------------------
(* What a step does to a stored session *)

\* Moves other than draining, as GateLifecycle allows them.
Progress(from, to) ==
  \/ from = "none" /\ to = "checked"
  \/ from = "checked" /\ to = "armed"
  \/ from = "armed" /\ to \in {"delivered", "recoverable", "completed", "failed"}
  \/ from = "delivered" /\ to \in {"approved", "completed", "armed"}
  \/ from = "recoverable" /\ to = "armed"

\* A session stays, moves on, is archived by the compactor, or is drained when
\* it is overdue, with an archive record unless it was delivered.
StoredMove(s) ==
  LET from == db[s].status
      to == db'[s].status
  IN \/ to = from
     \/ Progress(from, to)
     \/ from = "completed" /\ to = "archived"
     \/ /\ from \in {"checked", "armed", "delivered"} /\ to = "drained"
        /\ Overdue(db[s])
        /\ from # "delivered" => s \in archived

\* A completion record is written only with the completion.
Counted(s) ==
  \/ audits'[s] = audits[s]
  \/ audits'[s] = audits[s] + 1 /\ ~Over(db[s]) /\ Over(db'[s])

\* What has to be shown of every step.
StepSound ==
  /\ Alone' /\ \A q \in Procs : TrueCopy(q)'
  /\ \A s \in Sids : StoredMove(s) /\ Counted(s)

\* A call that is under way keeps the others from beginning.
LEMMA Turn ==
  ASSUME Serial, Alone, NEW p \in Procs,
         \/ Load(p) \/ LoadFails(p) \/ Return(p) \/ Crash(p)
         \/ Handler(p) \/ Continue(p) \/ Begin(p)
  PROVE  \A q \in Procs \ {p} : Quiet(q)
<1>1. CASE \A q \in Procs : Quiet(q)
  BY <1>1
<1>2. CASE ~Quiet(p)
  BY <1>2 DEF Alone
<1>3. MayBegin => \A q \in Procs : Quiet(q)
  BY DEF Serial, MayBegin
<1>4. ~Quiet(p) \/ MayBegin
  <2>1. CASE Load(p) \/ LoadFails(p) \/ Return(p) \/ Crash(p)
    BY <2>1 DEF Load, LoadFails, Return, Crash, Quiet
  <2>2. CASE Handler(p)
    BY <2>2 DEF Handler, Confirm, Submit, Reject, Approve, ApproveComplete, Retry,
         CompleteFails, CompleteIncomplete, Complete, CheckConflict, PurgeTool,
         InCall, Quiet
  <2>3. CASE Continue(p)
    BY <2>3 DEF Continue, WriteBack, CompactRead, CompactSync, CompactArchive,
         CheckPurge, PurgeSave, Drain, Create, CreateExhausted, InCall, Quiet
  <2>4. CASE Begin(p)
    BY <2>4 DEF Begin, CheckNoTask, BulkReview, Startup
  <2> QED BY <2>1, <2>2, <2>3, <2>4
<1> QED BY <1>1, <1>2, <1>3, <1>4

\* While only p is at work, its own copy is the one to look at.
LEMMA OnlyOwn ==
  ASSUME TypeOK, NEW p \in Procs, \A q \in Procs \ {p} : Quiet(q),
         NEW v, NEW j, pc' = [pc EXCEPT ![p] = v], job' = [job EXCEPT ![p] = j]
  PROVE  /\ pc'[p] = v /\ job'[p] = j
         /\ Alone'
         /\ \A q \in Procs \ {p} : TrueCopy(q)'
<1>1. pc'[p] = v /\ job'[p] = j
  BY DEF TypeOK, CallTypeOK
<1>2. \A q \in Procs \ {p} : pc'[q] = "idle" /\ job'[q] = Idle
  BY DEF TypeOK, CallTypeOK, Quiet
<1>3. Alone'
  BY <1>2 DEF Alone, Quiet
<1>4. \A q \in Procs \ {p} : TrueCopy(q)'
  BY <1>2 DEF TrueCopy
<1> QED BY <1>1, <1>3, <1>4

\* ... within a call as well.
LEMMA SameCall ==
  ASSUME TypeOK, NEW p \in Procs, \A q \in Procs \ {p} : Quiet(q),
         NEW v, pc' = [pc EXCEPT ![p] = v], job' = job
  PROVE  /\ pc'[p] = v
         /\ Alone'
         /\ \A q \in Procs \ {p} : TrueCopy(q)'
<1>1. job' = [job EXCEPT ![p] = job[p]]
  BY DEF TypeOK, CallTypeOK
<1> QED BY <1>1, OnlyOwn

\* The end of a call, and its next load, leave no copy to look at.
LEMMA NoCopyLeft ==
  ASSUME TypeOK, NEW p \in Procs, \A q \in Procs \ {p} : Quiet(q),
         Finish(p) \/ \E kind, t : Proceed(p, kind, t)
  PROVE  Alone' /\ \A q \in Procs : TrueCopy(q)'
<1>1. PICK j : pc' = [pc EXCEPT ![p] = "idle"] /\ job' = [job EXCEPT ![p] = j]
  BY DEF Finish, Proceed
<1>2. /\ pc'[p] = "idle" /\ Alone'
      /\ \A q \in Procs \ {p} : TrueCopy(q)'
  BY <1>1, OnlyOwn
<1>3. TrueCopy(p)'
  BY <1>2 DEF TrueCopy
<1> QED BY <1>2, <1>3

\* A handler whose copy is the store changes one row of it.
LEMMA CommitChanges ==
  ASSUME TypeOK, NEW p \in Procs, NEW s \in Sids, NEW r, NEW a,
         mem[p].rows = db, Commit(p, s, r, a), r.status # "none"
  PROVE  /\ db'[s] = r
         /\ \A u \in Sids \ {s} : db'[u] = db[u]
<1> DEFINE st == [rows |-> [mem[p].rows EXCEPT ![s] = r], active |-> a]
<1>1. db \in [Sids -> Row]
  BY DEF TypeOK, StoreTypeOK
<1>2. st.rows[s] = r /\ \A u \in Sids \ {s} : st.rows[u] = db[u]
  BY <1>1
<1>3. db' = Saved(st)
  BY DEF Commit, Save
<1> HIDE DEF st
<1>4. ASSUME NEW u \in Sids, st.rows[u].status # "none" PROVE db'[u] = st.rows[u]
  BY <1>3, <1>4 DEF Saved, Present
<1>5. ASSUME NEW u \in Sids \ {s}, db[u].status = "none" PROVE db'[u] = db[u]
  BY <1>2, <1>3, <1>5 DEF Saved, Present
<1> QED BY <1>2, <1>4, <1>5

\* A handler moves its own session and leaves the others.
LEMMA HandlerMoves ==
  ASSUME TypeOK, NEW p \in Procs, NEW s \in Sids, NEW r, NEW a,
         mem[p].rows = db, Commit(p, s, r, a), r.status # "none",
         Progress(db[s].status, r.status)
  PROVE  \A u \in Sids : StoredMove(u)
BY CommitChanges DEF StoredMove

\* ... and ends its call without a completion record.
LEMMA HandlerSound ==
  ASSUME TypeOK, NEW p \in Procs, \A q \in Procs \ {p} : Quiet(q),
         NEW s \in Sids, NEW r, NEW a, mem[p].rows = db,
         Commit(p, s, r, a), r.status # "none", Progress(db[s].status, r.status),
         Finish(p), UNCHANGED audits
  PROVE  StepSound
BY NoCopyLeft, HandlerMoves DEF StepSound, Counted

\* A step of a call that stores nothing.
LEMMA StoresNothing ==
  ASSUME UNCHANGED <<db, audits>>, Alone', \A q \in Procs : TrueCopy(q)'
  PROVE  StepSound
BY DEF StepSound, StoredMove, Counted

\* What has been stale for one tick stays stale.
LEMMA StaysStale ==
  ASSUME TypeOK, now' = now + 1, db' = db, NEW s \in Sids
  PROVE  /\ StaleArmed(db[s]) => StaleArmed(db[s])'
         /\ StaleChecked(db[s]) => StaleChecked(db[s])'
<1>1. /\ now \in Nat /\ db[s].created \in Nat
      /\ db[s].confirmed # Never => db[s].confirmed \in Nat
  BY DEF TypeOK, StoreTypeOK, Row, Time
<1>2. RefTime(db[s]) \in Nat
  BY <1>1 DEF RefTime
<1>3. RefTime(db[s])' = RefTime(db[s])
  BY DEF RefTime
<1>4. StaleArmed(db[s]) => StaleArmed(db[s])'
  BY <1>1, <1>2, <1>3, GateStoreAssumptions DEF StaleArmed
<1>5. StaleChecked(db[s]) => StaleChecked(db[s])'
  BY <1>1, GateStoreAssumptions DEF StaleChecked
<1> QED BY <1>4, <1>5

\* The clock ages sessions and moves none.
LEMMA TickSound ==
  ASSUME TypeOK, Alone, \A q \in Procs : TrueCopy(q), Tick
  PROVE  StepSound
<1>1. now' = now + 1 /\ UNCHANGED <<db, audits, archived, pc, job, mem>>
  BY DEF Tick
<1>2. Alone'
  BY <1>1 DEF Alone, Quiet
<1>3. ASSUME NEW q \in Procs PROVE TrueCopy(q)'
  <2>1. ASSUME NEW s \in Sids, TakenOut(q, s) PROVE TakenOut(q, s)'
    BY <1>1, <2>1, StaysStale DEF TakenOut
  <2> QED BY <1>1, <2>1 DEF TrueCopy
<1> QED BY <1>1, <1>2, <1>3, StoresNothing

\* Draining stale sessions of the store itself (Startup).
LEMMA DrainMoves ==
  ASSUME TypeOK, NEW S \in SUBSET Sids, db' = Drained(db, S),
         \A s \in S : db[s].status = "delivered" /\ Overdue(db[s])
  PROVE  \A s \in Sids : StoredMove(s)
<1>1. ASSUME NEW s \in Sids
      PROVE  IF s \in S THEN db'[s].status = "drained" ELSE db'[s] = db[s]
  BY DEF Drained, TypeOK, StoreTypeOK, Row
<1> QED BY <1>1 DEF StoredMove

\* The save after a purge drains what the purge took out.
LEMMA PurgeMoves ==
  ASSUME TypeOK, NEW p \in Procs, TrueCopy(p), pc[p] = "purged", Save(mem[p])
  PROVE  \A s \in Sids : StoredMove(s)
<1> SUFFICES ASSUME NEW s \in Sids PROVE StoredMove(s)
  OBVIOUS
<1>1. db[s] \in Row /\ db'[s] = Saved(mem[p])[s]
  BY DEF TypeOK, StoreTypeOK, Save
<1>2. CASE mem[p].rows[s] = db[s]
  BY <1>1, <1>2 DEF Saved, Present, StoredMove
<1>3. CASE TakenOut(p, s)
  <2>1. mem[p].rows[s].status = "none" /\ s \in archived
    BY <1>3 DEF TakenOut, NoRow
  <2>2. db[s].status \in {"armed", "checked"} /\ Overdue(db[s])
    BY <1>3 DEF TakenOut, StaleArmed, StaleChecked, Overdue
  <2>3. db'[s] = [db[s] EXCEPT !.status = "drained"]
    BY <1>1, <2>1, <2>2 DEF Saved, Present
  <2>4. db'[s].status = "drained"
    BY <1>1, <2>3 DEF Row
  <2> QED BY <2>1, <2>2, <2>4 DEF StoredMove
<1> QED BY <1>2, <1>3 DEF TrueCopy

\* A purge takes stale sessions out of its copy and stores nothing yet.
LEMMA PurgeSound ==
  ASSUME TypeOK, NEW p \in Procs, \A q \in Procs \ {p} : Quiet(q),
         mem[p].rows = db, NEW S \in SUBSET Sids, ArchiveStale(p, S),
         \A s \in S : StaleArmed(db[s]) \/ StaleChecked(db[s])
  PROVE  StepSound
<1>1. /\ pc' = [pc EXCEPT ![p] = "purged"]
      /\ UNCHANGED <<db, audits, now, job>> /\ archived' = archived \cup S
  BY DEF ArchiveStale
<1>2. /\ pc'[p] = "purged" /\ Alone'
      /\ \A q \in Procs \ {p} : TrueCopy(q)'
  BY <1>1, SameCall
<1>3. \A s \in Sids : mem'[p].rows[s] = IF s \in S THEN NoRow ELSE db[s]
  BY DEF ArchiveStale, TypeOK, CallTypeOK
<1>4. ASSUME NEW s \in Sids, s \in S PROVE TakenOut(p, s)'
  <2>1. mem'[p].rows[s] = NoRow /\ s \in archived'
    BY <1>1, <1>3, <1>4
  <2>2. StaleArmed(db[s])' \/ StaleChecked(db[s])'
    BY <1>1, <1>4 DEF StaleArmed, StaleChecked, RefTime
  <2> QED BY <2>1, <2>2 DEF TakenOut
<1>5. TrueCopy(p)'
  BY <1>1, <1>2, <1>3, <1>4 DEF TrueCopy
<1> QED BY <1>1, <1>2, <1>5, StoresNothing

\* The two completions: the session is over, its record is the first one, and
\* the other sessions stay.
LEMMA CompletionMoves ==
  ASSUME TypeOK, NEW p \in Procs, NEW s \in Sids, NEW r, NEW a,
         mem[p].rows = db, Commit(p, s, r, a), r.status = "completed",
         db[s].status \in {"armed", "delivered"},
         audits' = [audits EXCEPT ![s] = @ + 1]
  PROVE  /\ db'[s].status = "completed"
         /\ \A u \in Sids : StoredMove(u) /\ Counted(u)
<1>1. db'[s] = r /\ \A u \in Sids \ {s} : db'[u] = db[u]
  BY CommitChanges
<1>2. \A u \in Sids : StoredMove(u)
  BY <1>1 DEF StoredMove, Progress
<1>3. /\ audits'[s] = audits[s] + 1
      /\ \A u \in Sids \ {s} : audits'[u] = audits[u]
  BY DEF TypeOK, StoreTypeOK
<1>4. \A u \in Sids : Counted(u)
  BY <1>1, <1>3 DEF Counted, Over
<1> QED BY <1>1, <1>2, <1>4

\* Every handler moves a session as the lifecycle allows.
LEMMA HandlersSound ==
  ASSUME TypeOK, DecidedIsConsumed, NEW p \in Procs, TrueCopy(p),
         \A q \in Procs \ {p} : Quiet(q), Handler(p)
  PROVE  StepSound
<1>0. ASSUME NEW op, InCall(p, op) PROVE mem[p].rows = db
  BY <1>0 DEF InCall, TrueCopy
<1>a. \A s \in Sids : db[s] \in Row /\ DecidedRow(db[s])
  BY DEF TypeOK, StoreTypeOK, DecidedIsConsumed, EveryRow
<1>b. \A s \in Sids : CompleteAllowed(db[s]) => db[s].status = "armed"
  BY <1>a DEF CompleteAllowed, DecidedRow
<1>1. ASSUME NEW s \in Sids, NEW agent \in Agents, NEW t \in TaskArg,
             Confirm(p, s, agent, t)
      PROVE  StepSound
  <2> DEFINE row == [mem[p].rows[s] EXCEPT
                       !.status = "armed",
                       !.approval = agent \notin Exempt,
                       !.task = IF t = NoTask THEN mem[p].rows[s].task ELSE t,
                       !.confirmed = now]
  <2>1. mem[p].rows = db /\ db[s].status = "checked"
    BY <1>0, <1>1 DEF Confirm
  <2>2. row.status = "armed"
    BY <1>a, <2>1 DEF Row
  <2>3. Progress(db[s].status, row.status)
    BY <2>1, <2>2 DEF Progress
  <2>4. PICK a : Commit(p, s, row, a) /\ Finish(p) /\ UNCHANGED audits
    BY <1>1 DEF Confirm
  <2> HIDE DEF row
  <2> QED BY <2>1, <2>2, <2>3, <2>4, HandlerSound
<1>2. ASSUME NEW s \in Sids, NEW outcome \in {"delivered", "recoverable"},
             Submit(p, s, outcome)
      PROVE  StepSound
  <2> DEFINE row == [mem[p].rows[s] EXCEPT !.status = outcome,
                                           !.submitted = now]
  <2>1. mem[p].rows = db /\ db[s].status = "armed"
    BY <1>0, <1>2 DEF Submit
  <2>2. row.status = outcome
    BY <1>a, <2>1 DEF Row
  <2>3. Progress(db[s].status, row.status) /\ row.status # "none"
    BY <2>1, <2>2 DEF Progress
  <2>4. PICK a : Commit(p, s, row, a) /\ Finish(p) /\ UNCHANGED audits
    BY <1>2 DEF Submit
  <2> HIDE DEF row
  <2> QED BY <2>1, <2>3, <2>4, HandlerSound
<1>3. ASSUME NEW s \in Sids, Reject(p, s)
      PROVE  StepSound
  <2> DEFINE row == [mem[p].rows[s] EXCEPT !.status = "armed",
                                           !.submitted = Never]
  <2>1. mem[p].rows = db /\ db[s].status = "delivered"
    BY <1>0, <1>3 DEF Reject
  <2>2. row.status = "armed"
    BY <1>a, <2>1 DEF Row
  <2>3. Progress(db[s].status, row.status)
    BY <2>1, <2>2 DEF Progress
  <2>4. PICK a : Commit(p, s, row, a) /\ Finish(p) /\ UNCHANGED audits
    BY <1>3 DEF Reject
  <2> HIDE DEF row
  <2> QED BY <2>1, <2>2, <2>3, <2>4, HandlerSound
<1>4. ASSUME NEW s \in Sids, Approve(p, s)
      PROVE  StepSound
  <2> DEFINE row == Approved(mem[p].rows[s])
  <2>1. mem[p].rows = db /\ db[s].status = "delivered"
    BY <1>0, <1>4 DEF Approve
  <2>2. row.status = "approved"
    BY <1>a, <2>1 DEF Row, Approved
  <2>3. Progress(db[s].status, row.status)
    BY <2>1, <2>2 DEF Progress
  <2>4. PICK a : Commit(p, s, row, a) /\ Finish(p) /\ UNCHANGED audits
    BY <1>4 DEF Approve
  <2> HIDE DEF row
  <2> QED BY <2>1, <2>2, <2>3, <2>4, HandlerSound
<1>5. ASSUME NEW s \in Sids, ApproveComplete(p, s)
      PROVE  StepSound
  <2> DEFINE row == [Approved(mem[p].rows[s]) EXCEPT !.status = "completed"]
  <2>1. mem[p].rows = db /\ db[s].status = "delivered"
    BY <1>0, <1>5 DEF ApproveComplete
  <2>2. row.status = "completed"
    BY <1>a, <2>1 DEF Row, Approved
  <2>3. /\ Commit(p, s, row, mem[p].active \ {s}) /\ Finish(p)
        /\ audits' = [audits EXCEPT ![s] = @ + 1]
    BY <1>5 DEF ApproveComplete
  <2> HIDE DEF row
  <2>4. \A u \in Sids : StoredMove(u) /\ Counted(u)
    BY <2>1, <2>2, <2>3, CompletionMoves
  <2> QED BY <2>3, <2>4, NoCopyLeft DEF StepSound
<1>6. ASSUME NEW s \in Sids, NEW t \in TaskArg, Retry(p, s, t)
      PROVE  StepSound
  <2> DEFINE row == [mem[p].rows[s] EXCEPT
                       !.status = "armed", !.consumed = FALSE,
                       !.confirmed = now,
                       !.task = IF t = NoTask THEN mem[p].rows[s].task ELSE t]
  <2>1. mem[p].rows = db /\ db[s].status = "recoverable"
    BY <1>0, <1>6 DEF Retry
  <2>2. row.status = "armed"
    BY <1>a, <2>1 DEF Row
  <2>3. Progress(db[s].status, row.status)
    BY <2>1, <2>2 DEF Progress
  <2>4. PICK a : Commit(p, s, row, a) /\ Finish(p) /\ UNCHANGED audits
    BY <1>6 DEF Retry
  <2> HIDE DEF row
  <2> QED BY <2>1, <2>2, <2>3, <2>4, HandlerSound
<1>7. ASSUME NEW s \in Sids, CompleteFails(p, s)
      PROVE  StepSound
  <2> DEFINE row == [mem[p].rows[s] EXCEPT !.status = "failed",
                                           !.consumed = TRUE]
  <2>1. mem[p].rows = db /\ db[s].status = "armed"
    BY <1>0, <1>7, <1>b DEF CompleteFails
  <2>2. row.status = "failed"
    BY <1>a, <2>1 DEF Row
  <2>3. Progress(db[s].status, row.status)
    BY <2>1, <2>2 DEF Progress
  <2>4. PICK a : Commit(p, s, row, a) /\ Finish(p) /\ UNCHANGED audits
    BY <1>7 DEF CompleteFails
  <2> HIDE DEF row
  <2> QED BY <2>1, <2>2, <2>3, <2>4, HandlerSound
<1>8. ASSUME NEW s \in Sids, CompleteIncomplete(p, s)
      PROVE  StepSound
  <2> DEFINE exhausted == LoadedRetries + 1 > ArtifactRetryLimit
             row == [mem[p].rows[s] EXCEPT
                       !.status = IF exhausted THEN "failed"
                                               ELSE "recoverable",
                       !.consumed = exhausted]
  <2>1. mem[p].rows = db /\ db[s].status = "armed"
    BY <1>0, <1>8, <1>b DEF CompleteIncomplete
  <2>2. row.status \in {"failed", "recoverable"}
    BY <1>a, <2>1 DEF Row
  <2>3. Progress(db[s].status, row.status) /\ row.status # "none"
    BY <2>1, <2>2 DEF Progress
  <2>4. PICK a : Commit(p, s, row, a) /\ Finish(p) /\ UNCHANGED audits
    BY <1>8 DEF CompleteIncomplete
  <2> HIDE DEF row
  <2> QED BY <2>1, <2>3, <2>4, HandlerSound
<1>9. ASSUME NEW s \in Sids, Complete(p, s)
      PROVE  StepSound
  <2> DEFINE row == [mem[p].rows[s] EXCEPT !.status = "completed",
                                           !.consumed = TRUE]
             j == [kind |-> "compact", arg |-> s]
  <2>1. mem[p].rows = db /\ db[s].status = "armed"
    BY <1>0, <1>9, <1>b DEF Complete
  <2>2. row.status = "completed"
    BY <1>a, <2>1 DEF Row
  <2>3. /\ Commit(p, s, row, mem[p].active \ {s})
        /\ audits' = [audits EXCEPT ![s] = @ + 1]
        /\ pc' = [pc EXCEPT ![p] = "compact"] /\ job' = [job EXCEPT ![p] = j]
    BY <1>9 DEF Complete
  <2> HIDE DEF row
  <2>4. /\ db'[s].status = "completed"
        /\ \A u \in Sids : StoredMove(u) /\ Counted(u)
    BY <2>1, <2>2, <2>3, CompletionMoves
  <2>5. /\ pc'[p] = "compact" /\ job'[p] = j /\ Alone'
        /\ \A q \in Procs \ {p} : TrueCopy(q)'
    BY <2>3, OnlyOwn
  <2>6. TrueCopy(p)'
    BY <2>4, <2>5 DEF TrueCopy
  <2> QED BY <2>4, <2>5, <2>6 DEF StepSound
<1>10. ASSUME NEW t \in Tasks, CheckConflict(p, t)
       PROVE  StepSound
  BY <1>10, NoCopyLeft, StoresNothing DEF CheckConflict
<1>11. CASE PurgeTool(p)
  <2>1. mem[p].rows = db
    BY <1>0, <1>11 DEF PurgeTool
  <2>2. /\ StaleForTool(mem[p]) \in SUBSET Sids
        /\ \A s \in StaleForTool(mem[p]) :
             StaleArmed(db[s]) \/ StaleChecked(db[s])
    BY <2>1 DEF StaleForTool, StaleForCheck
  <2> QED BY <1>11, <2>1, <2>2, PurgeSound DEF PurgeTool
<1> QED BY <1>1, <1>2, <1>3, <1>4, <1>5, <1>6, <1>7, <1>8, <1>9, <1>10, <1>11
        DEF Handler

\* So does every later step of a call: the write-back stores what is stored
\* already, the compactor keeps every status but the one it archives, and a
\* drain that throws changes nothing.
LEMMA ContinueSound ==
  ASSUME TypeOK, NEW p \in Procs, TrueCopy(p),
         \A q \in Procs \ {p} : Quiet(q), Continue(p)
  PROVE  StepSound
<1>a. /\ db \in [Sids -> Row] /\ \A s \in Sids : db[s] \in Row
      /\ job[p] \in Jobs
  BY DEF TypeOK, StoreTypeOK, CallTypeOK
<1>b. pc[p] \in {"compact", "sync", "archive"} => job[p].arg \in Sids
  BY <1>a DEF TypeOK, CallTypeOK, Jobs
<1>1. CASE WriteBack(p)
  <2>1. /\ mem[p].rows = db /\ db' = Saved(mem[p]) /\ job' = job
        /\ pc' = [pc EXCEPT ![p] = "run"] /\ UNCHANGED <<audits, mem>>
    BY <1>1 DEF WriteBack, Save, TrueCopy
  <2>2. db' = db
    BY <1>a, <2>1 DEF Saved, Present
  <2>3. /\ pc'[p] = "run" /\ Alone'
        /\ \A q \in Procs \ {p} : TrueCopy(q)'
    BY <2>1, SameCall
  <2>4. TrueCopy(p)'
    BY <2>1, <2>2, <2>3 DEF TrueCopy
  <2> QED BY <2>1, <2>2, <2>3, <2>4, StoresNothing
<1>2. CASE CompactRead(p)
  <2>1. /\ db[job[p].arg].status = "completed"
        /\ pc' = [pc EXCEPT ![p] = "sync"] /\ UNCHANGED <<db, audits, job>>
    BY <1>2 DEF CompactRead, TrueCopy
  <2>2. mem'[p].rows = db
    BY <1>2 DEF CompactRead, TypeOK, CallTypeOK, Store
  <2>3. /\ pc'[p] = "sync" /\ Alone'
        /\ \A q \in Procs \ {p} : TrueCopy(q)'
    BY <2>1, SameCall
  <2>4. TrueCopy(p)'
    BY <2>1, <2>2, <2>3 DEF TrueCopy
  <2> QED BY <2>1, <2>3, <2>4, StoresNothing
<1>3. CASE CompactSync(p)
  <2>1. /\ mem[p].rows = db /\ db[job[p].arg].status = "completed"
        /\ pc' = [pc EXCEPT ![p] = "archive"] /\ UNCHANGED <<audits, job>>
    BY <1>3 DEF CompactSync, TrueCopy
  <2>2. ASSUME NEW s \in Sids PROVE db'[s].status = db[s].status
    <3>1. HotRow(db[s]).status = db[s].status
      BY DEF HotRow, NoRow
    <3>2. RecentRow(db[s]).status = db[s].status
      BY DEF RecentRow, NoRow
    <3>3. db'[s] \in {HotRow(db[s]), RecentRow(db[s]), db[s]}
      BY <1>3, <2>1 DEF CompactSync
    <3> QED BY <3>1, <3>2, <3>3
  <2>3. /\ pc'[p] = "archive" /\ Alone'
        /\ \A q \in Procs \ {p} : TrueCopy(q)'
    BY <2>1, SameCall
  <2>4. job[p].arg \in Sids
    BY <1>3, <1>b DEF CompactSync
  <2>5. TrueCopy(p)'
    BY <2>1, <2>2, <2>3, <2>4 DEF TrueCopy
  <2> QED BY <2>1, <2>2, <2>3, <2>5 DEF StepSound, StoredMove, Counted
<1>4. CASE CompactArchive(p)
  <2>1. db[job[p].arg].status = "completed" /\ job[p].arg \in Sids
    BY <1>4, <1>b DEF CompactArchive, TrueCopy
  <2>2. db'[job[p].arg].status = "archived"
    BY <1>4, <1>a, <2>1 DEF CompactArchive, Row
  <2>3. \A s \in Sids \ {job[p].arg} : db'[s] = db[s]
    BY <1>4, <1>a DEF CompactArchive
  <2>4. \A s \in Sids : StoredMove(s)
    BY <2>1, <2>2, <2>3 DEF StoredMove
  <2> QED BY <1>4, <2>4, NoCopyLeft DEF CompactArchive, StepSound, Counted
<1>5. CASE CheckPurge(p)
  <2>1. mem[p].rows = db
    BY <1>5 DEF CheckPurge, TrueCopy
  <2>2. CASE StaleForCheck(mem[p]) = {}
    BY <1>5, <2>2, NoCopyLeft, StoresNothing DEF CheckPurge
  <2>3. CASE StaleForCheck(mem[p]) # {}
    <3>1. /\ StaleForCheck(mem[p]) \in SUBSET Sids
          /\ \A s \in StaleForCheck(mem[p]) :
               StaleArmed(db[s]) \/ StaleChecked(db[s])
      BY <2>1 DEF StaleForCheck
    <3> QED BY <1>5, <2>1, <2>3, <3>1, PurgeSound DEF CheckPurge
  <2> QED BY <2>2, <2>3
<1>6. CASE PurgeSave(p)
  <2>1. \A s \in Sids : StoredMove(s)
    BY <1>6, PurgeMoves DEF PurgeSave
  <2> QED BY <1>6, <2>1, NoCopyLeft DEF PurgeSave, StepSound, Counted
<1>7. CASE Drain(p)
  <2>1. "task_desc" \notin AuditColumns /\ "task_desc" \in DrainColumns
    BY DEF AuditColumns, DrainColumns
  <2>2. db' = db /\ UNCHANGED audits
    BY <1>7, <2>1 DEF Drain, DrainTransaction
  <2> QED BY <1>7, <2>2, NoCopyLeft, StoresNothing DEF Drain
<1>8. ASSUME NEW s \in Sids, NEW passed \in BOOLEAN, Create(p, s, passed)
      PROVE  StepSound
  <2> DEFINE row == [NoRow EXCEPT !.status = "checked", !.passed = passed,
                                  !.task = job[p].arg, !.created = now]
  <2>1. mem[p].rows = db /\ db[s].status = "none"
    BY <1>8 DEF Create, TrueCopy, Present
  <2>2. row.status = "checked"
    BY DEF NoRow
  <2>3. Progress(db[s].status, row.status)
    BY <2>1, <2>2 DEF Progress
  <2>4. PICK a : Commit(p, s, row, a) /\ Finish(p) /\ UNCHANGED audits
    BY <1>8 DEF Create
  <2> HIDE DEF row
  <2> QED BY <2>1, <2>2, <2>3, <2>4, HandlerSound
<1>9. CASE CreateExhausted(p)
  BY <1>9, NoCopyLeft, StoresNothing DEF CreateExhausted
<1> QED BY <1>1, <1>2, <1>3, <1>4, <1>5, <1>6, <1>7, <1>8, <1>9 DEF Continue

\* ... and every step of the program.
LEMMA SerialStep ==
  ASSUME Serial, IInv, [Next]_vars
  PROVE  StepSound
<1>a. TypeOK /\ DecidedIsConsumed /\ Alone /\ \A q \in Procs : TrueCopy(q)
  BY DEF IInv, SerialInv
<1>1. CASE UNCHANGED vars
  <2>1. UNCHANGED <<db, audits, archived, now, pc, job, mem>>
    BY <1>1 DEF vars
  <2>2. Alone'
    BY <1>a, <2>1 DEF Alone, Quiet
  <2>3. \A q \in Procs : TrueCopy(q)'
    BY <1>a, <2>1 DEF TrueCopy, TakenOut, StaleArmed, StaleChecked, RefTime
  <2> QED BY <2>1, <2>2, <2>3, StoresNothing
<1>2. CASE Tick
  BY <1>a, <1>2, TickSound
<1> SUFFICES ASSUME NEW p \in Procs,
                    \/ Load(p) \/ LoadFails(p) \/ Return(p) \/ Crash(p)
                    \/ Handler(p) \/ Continue(p) \/ Begin(p)
             PROVE  StepSound
  BY <1>1, <1>2 DEF Next
<1>b. \A q \in Procs \ {p} : Quiet(q)
  BY <1>a, Turn
<1>3. CASE Load(p)
  <2>1. UNCHANGED <<db, audits, job>>
    BY <1>3 DEF Load
  <2>2. mem'[p].rows = db
    BY <1>3, <1>a DEF Load, Reconciled, TypeOK, CallTypeOK
  <2>3. PICK v \in {"reconcile", "run"} : pc' = [pc EXCEPT ![p] = v]
    BY <1>3 DEF Load
  <2>4. /\ pc'[p] = v /\ Alone'
        /\ \A q \in Procs \ {p} : TrueCopy(q)'
    BY <1>a, <1>b, <2>1, <2>3, SameCall
  <2>5. TrueCopy(p)'
    BY <2>1, <2>2, <2>3, <2>4 DEF TrueCopy
  <2> QED BY <2>1, <2>4, <2>5, StoresNothing
<1>4. ~LoadFails(p)
  BY DEF Serial, LoadFails
<1>5. CASE Return(p) \/ Crash(p)
  BY <1>a, <1>b, <1>5, NoCopyLeft, StoresNothing DEF Return, Crash
<1>6. CASE Handler(p)
  BY <1>a, <1>b, <1>6, HandlersSound
<1>7. CASE Continue(p)
  BY <1>a, <1>b, <1>7, ContinueSound
<1>8. CASE Begin(p)
  <2>1. CASE CheckNoTask(p)
    BY <1>a, <1>b, <2>1, NoCopyLeft, StoresNothing DEF CheckNoTask
  <2>2. \A s \in Sids, status \in {"armed", "approved", "completed"} :
          ~BulkReview(p, s, status)
    BY DEF Serial, NoBulk, BulkReview
  <2>3. CASE Startup(p)
    <3>1. /\ \A q \in Procs : Quiet(q)
          /\ UNCHANGED <<audits, pc, job, mem>>
      BY <1>b, <2>3 DEF Startup
    <3>2. Alone' /\ \A q \in Procs : TrueCopy(q)'
      BY <3>1 DEF Alone, Quiet, TrueCopy
    <3>3. StartupArmed = {}
      BY DEF StartupArmed, GateSessionColumns
    <3>4. /\ StartupDelivered \in SUBSET Sids
          /\ db' = Drained(db, StartupDelivered)
      BY <2>3, <3>3 DEF Startup, StartupDelivered
    <3>5. \A s \in StartupDelivered :
            db[s].status = "delivered" /\ Overdue(db[s])
      BY <1>a DEF StartupDelivered, Overdue, DecidedIsConsumed, EveryRow,
                  DecidedRow
    <3>6. \A s \in Sids : StoredMove(s)
      BY <1>a, <3>4, <3>5, DrainMoves
    <3> QED BY <3>1, <3>2, <3>6 DEF StepSound, Counted
  <2> QED BY <1>8, <2>1, <2>2, <2>3 DEF Begin
<1> QED BY <1>3, <1>4, <1>5, <1>6, <1>7, <1>8

-----------------------------------------------------------------------------
(* The theorems *)

\* The invariant holds of every run of the usual deployment.
LEMMA SerialInvariant == ASSUME Serial PROVE Spec => []IInv
<1>1. Init => SerialInv
  BY DEF Init, SerialInv, Alone, Quiet, TrueCopy, Once
<1>2. ASSUME IInv, [Next]_vars PROVE SerialInv'
  <2>1. StepSound
    BY <1>2, SerialStep
  <2>2. ASSUME NEW s \in Sids PROVE Once(s)'
    <3>1. audits[s] \in Nat /\ Once(s) /\ StoredMove(s) /\ Counted(s)
      BY <1>2, <2>1 DEF IInv, SerialInv, StepSound, TypeOK, StoreTypeOK
    <3>2. Over(db[s]) => Over(db'[s])
      BY <3>1 DEF StoredMove, Progress, Over
    <3> QED BY <3>1, <3>2 DEF Once, Counted, Over
  <2> QED BY <2>1, <2>2 DEF StepSound, SerialInv
<1> QED BY <1>1, <1>2, TypeInvariant, DecidedInvariant, PTL DEF Spec, IInv

\* A session is completed, and recorded as completed, at most once: however a
\* crash leaves the compactor, no later call completes it again.
THEOREM CompletedOnceInvariant == ASSUME Serial PROVE Spec => []CompletedOnce
<1>1. IInv => CompletedOnce
  BY DEF IInv, SerialInv, Once, CompletedOnce
<1> QED BY <1>1, SerialInvariant, PTL

\* A session is drained only past the threshold of its status, although a
\* purge decides from its copy and the save drains whatever that copy lacks.
THEOREM DrainsOnlyStale == ASSUME Serial PROVE Spec => OnlyStaleDrained
<1>1. ASSUME IInv, [Next]_vars
      PROVE  [\A s \in Sids : Drains(s) => Overdue(db[s])]_vars
  BY <1>1, SerialStep DEF StepSound, StoredMove, Progress, Drains
<1> QED BY <1>1, SerialInvariant, PTL DEF Spec, OnlyStaleDrained

\* A checked or armed session is drained only when its archive record is
\* written, wherever its purge crashed.
THEOREM DrainsArchived == ASSUME Serial PROVE Spec => DrainedIsArchived
<1>1. ASSUME IInv, [Next]_vars
      PROVE  [\A s \in Sids :
                Drains(s) /\ db[s].status \in {"checked", "armed"}
                  => s \in archived]_vars
  BY <1>1, SerialStep DEF StepSound, StoredMove, Progress, Drains
<1> QED BY <1>1, SerialInvariant, PTL DEF Spec, DrainedIsArchived

\* The transition map allows every move but the compactor's, which changes
\* nothing it speaks of.
LEMMA MovesAllowed ==
  ASSUME NEW s \in Sids, StoredMove(s)
  PROVE  LifecycleStatus[s]' # LifecycleStatus[s] =>
           Lifecycle!Allowed(LifecycleStatus[s], LifecycleStatus[s]')
<1>1. /\ LifecycleStatus[s] = IF db[s].status = "archived" THEN "completed"
                                                           ELSE db[s].status
      /\ LifecycleStatus[s]' = IF db'[s].status = "archived" THEN "completed"
                                                             ELSE db'[s].status
  BY DEF LifecycleStatus
<1>2. CASE db'[s].status = db[s].status
  BY <1>1, <1>2
<1>3. CASE Progress(db[s].status, db'[s].status)
  BY <1>1, <1>3 DEF Progress, Lifecycle!Allowed, Lifecycle!ValidTransitions,
       Lifecycle!GateStatus, Lifecycle!ActiveStatuses
<1>4. CASE db[s].status = "completed" /\ db'[s].status = "archived"
  BY <1>1, <1>4
<1>5. CASE db[s].status \in {"checked", "armed", "delivered"}
             /\ db'[s].status = "drained"
  BY <1>1, <1>5 DEF Lifecycle!Allowed, Lifecycle!ActiveStatuses
<1> QED BY <1>2, <1>3, <1>4, <1>5 DEF StoredMove

\* The store implements the transition map that no code consults: load,
\* reconciliation, purge, save, compactor and crashes together make no move
\* the map does not list.
THEOREM LifecycleRefinement == ASSUME Serial PROVE Spec => ImplementsLifecycle
<1>1. Init => Lifecycle!Init
  BY DEF Init, NoRow, LifecycleStatus, Lifecycle!Init
<1>2. ASSUME IInv, IInv', [Next]_vars
      PROVE  [Lifecycle!Next]_LifecycleStatus
  <2>1. \A s \in Sids : StoredMove(s)
    BY <1>2, SerialStep DEF StepSound
  <2>2. LifecycleStatus' \in [Sids -> Lifecycle!GateStatus \cup {"none"}]
    <3>1. \A s \in Sids : db'[s].status \in Status
      BY <1>2 DEF IInv, TypeOK, StoreTypeOK, Row
    <3> QED BY <3>1 DEF LifecycleStatus, Status, Live, Terminal,
              Lifecycle!GateStatus, Lifecycle!ActiveStatuses,
              Lifecycle!TerminalStatuses
  <2>3. \A s \in Sids :
          LifecycleStatus'[s] # LifecycleStatus[s] =>
            Lifecycle!Allowed(LifecycleStatus[s], LifecycleStatus'[s])
    BY <2>1, MovesAllowed
  <2> QED BY <2>2, <2>3 DEF Lifecycle!Next
<1> QED BY <1>1, <1>2, SerialInvariant, PTL
        DEF Spec, ImplementsLifecycle, Lifecycle!Spec
=============================================================================
