-------------------------- MODULE StateTransaction --------------------------
(***************************************************************************)
(* The two-phase writes of state files (scripts/state-transaction.ts): a   *)
(* transaction prepares a temporary file and a marker, checks the global   *)
(* revision, renames, records the revision in the database and the commit  *)
(* in the log.  Each transaction is a process of its own (the atomic-write *)
(* command, or a program with the module), which may die at every step;    *)
(* the recovery scan is another process, one at a time, and may run at any *)
(* time, also while transactions are under way.                            *)
(*                                                                         *)
(* A step is one file, log or database operation with the computation      *)
(* before it; those of commit may throw.  The temporary file and the       *)
(* marker may be left half written; a rename and the append of a log line  *)
(* are atomic.  The scan finds a marker from its first byte on.            *)
(***************************************************************************)
EXTENDS Naturals, FiniteSets

CONSTANTS
    Txns,           \* transactions (operation_id)
    NoTxn,          \* whoever wrote a file before them
    StateFiles,          \* state files
    MachineFile,    \* machine.json, whose content carries its own revision
    FileOf,         \* the file a transaction writes
    MaxRetries      \* MAX_RETRIES of commit

ASSUME StateTransactionAssumption ==
    /\ NoTxn \notin Txns
    /\ FileOf \in [Txns -> StateFiles]
    /\ MaxRetries \in Nat

\* A content is named by the transaction that brought it.
FileContent == [by : Txns \cup {NoTxn}, revision : Nat]
Absent == [by |-> "absent", revision |-> 0]
Torn == [by |-> "torn", revision |-> 0]

LogPhases == {"BEGIN", "PREPARE", "COMMIT", "ROLLBACK", "RECOVERY_ROLLBACK"}

VARIABLES
    pc,         \* the step each transaction is at
    tries,      \* commit's attempts
    newRev,     \* newRevision
    base,       \* the content prepare saw (_oldContent, old_hash)
    stateFile,       \* the state files
    tmp,        \* the temporary files
    marker,     \* the .prepared files: "none", "torn" or "whole"
    wal,        \* .transaction-log: its lines, whose order no reader uses
    revision,   \* meta.revision in the database, 0 when there is none
    scan,       \* the step the recovery scan is at with each marker
    renamed,    \* history: transactions that have replaced their file
    discarded   \* history: those whose marker a scan took for corrupted

histories == <<renamed, discarded>>
txnVars == <<pc, tries, newRev, base, stateFile, tmp, marker, wal, revision, scan, histories>>

Steps == {"new", "begun", "written", "marking", "marked", "prepared", "backoff", "checked",
          "renamed", "saved", "logged", "done", "failed", "undoing", "undoLogged", "undone",
          "dead"}

TxnTypeOK ==
    /\ pc \in [Txns -> Steps]
    /\ tries \in [Txns -> 0..MaxRetries]
    /\ newRev \in [Txns -> Nat]
    /\ base \in [Txns -> FileContent \cup {Absent}]
    /\ stateFile \in [StateFiles -> FileContent]
    /\ tmp \in [Txns -> FileContent \cup {Absent, Torn}]
    /\ marker \in [Txns -> {"none", "torn", "whole"}]
    /\ wal \in SUBSET [phase : LogPhases, txn : Txns]
    /\ revision \in Nat
    /\ scan \in [Txns -> {"idle", "corrupted", "ended", "unmarked",
                            "orphan", "cleared", "undone"}]
    /\ renamed \in SUBSET Txns /\ discarded \in SUBSET Txns

TxnInit ==
    /\ pc = [t \in Txns |-> "new"]
    /\ tries = [t \in Txns |-> 0]
    /\ newRev = [t \in Txns |-> 0]
    /\ base = [t \in Txns |-> Absent]
    /\ stateFile = [f \in StateFiles |-> [by |-> NoTxn, revision |-> 0]]
    /\ tmp = [t \in Txns |-> Absent]
    /\ marker = [t \in Txns |-> "none"]
    /\ wal = {}
    /\ revision = 0
    /\ scan = [t \in Txns |-> "idle"]
    /\ renamed = {} /\ discarded = {}

IsMachine(t) == FileOf[t] = MachineFile

Moves(t, from, to) == pc[t] = from /\ pc' = [pc EXCEPT ![t] = to]

\* appendTransactionLog, without the rotation of a log of 100 KB.
Log(t, phase) ==
    wal' = wal \cup {[phase |-> phase, txn |-> t]}

Logged(t, phase) == \E e \in wal : e.txn = t /\ e.phase = phase

-----------------------------------------------------------------------------
\* prepare.

\* The content of machine.json names a revision of its own, which the caller
\* took from the database at some time.
Begin(t) ==
    /\ Moves(t, "new", "begun")
    /\ base' = [base EXCEPT ![t] = stateFile[FileOf[t]]]
    /\ \E seen \in IF IsMachine(t) THEN 0..revision ELSE {revision} :
          newRev' = [newRev EXCEPT ![t] = seen + 1]
    /\ Log(t, "BEGIN")
    /\ UNCHANGED <<tries, stateFile, tmp, marker, revision, scan, histories>>

WriteTmp(t) ==
    /\ Moves(t, "begun", "written")
    /\ tmp' = [tmp EXCEPT ![t] = [by |-> t,
                                  revision |-> IF IsMachine(t) THEN newRev[t] ELSE 0]]
    /\ UNCHANGED <<tries, newRev, base, stateFile, marker, wal, revision, scan, histories>>

\* writeFileSync creates the marker and then fills it; what is filled after a
\* scan has unlinked it nobody sees.
CreateMarker(t) ==
    /\ Moves(t, "written", "marking")
    /\ marker' = [marker EXCEPT ![t] = "torn"]
    /\ UNCHANGED <<tries, newRev, base, stateFile, tmp, wal, revision, scan, histories>>

WriteMarker(t) ==
    /\ Moves(t, "marking", "marked")
    /\ marker' = [marker EXCEPT ![t] = IF @ = "torn" THEN "whole" ELSE @]
    /\ UNCHANGED <<tries, newRev, base, stateFile, tmp, wal, revision, scan, histories>>

LogPrepare(t) ==
    /\ Moves(t, "marked", "prepared")
    /\ Log(t, "PREPARE")
    /\ UNCHANGED <<tries, newRev, base, stateFile, tmp, marker, revision, scan, histories>>

-----------------------------------------------------------------------------
\* commit.

\* Mutant: no end to the retries.
CheckForEver(t) ==
    /\ pc[t] = "prepared"
    /\ pc' = [pc EXCEPT ![t] = IF newRev[t] = revision + 1 THEN "checked" ELSE "backoff"]
    /\ UNCHANGED <<tries, newRev, base, stateFile, tmp, marker, wal, revision, scan, histories>>

\* The comparison with the revision of the database; nothing holds it until the
\* rename.
CheckRevision(t) ==
    /\ pc[t] = "prepared"
    /\ pc' = [pc EXCEPT ![t] = IF newRev[t] = revision + 1 THEN "checked"
                               ELSE IF tries[t] = MaxRetries THEN "failed"
                               ELSE "backoff"]
    /\ UNCHANGED <<tries, newRev, base, stateFile, tmp, marker, wal, revision, scan, histories>>

\* Mutant: the temporary file becomes a copy of any file.
RetryCopies(t) ==
    /\ Moves(t, "backoff", "prepared")
    /\ tries' = [tries EXCEPT ![t] = @ + 1]
    /\ newRev' = [newRev EXCEPT ![t] = revision + 1]
    /\ tmp' = [tmp EXCEPT ![t] = stateFile[FileOf[t]]]
    /\ UNCHANGED <<base, stateFile, marker, wal, revision, scan, histories>>

\* After the backoff: another revision for the same content, but for
\* machine.json, where the temporary file becomes a copy of the file.
Retry(t) ==
    /\ Moves(t, "backoff", "prepared")
    /\ tries' = [tries EXCEPT ![t] = @ + 1]
    /\ LET next == IF IsMachine(t) THEN stateFile[MachineFile].revision + 1 ELSE revision + 1
       IN  /\ newRev' = [newRev EXCEPT ![t] = next]
           /\ tmp' = IF IsMachine(t)
                     THEN [tmp EXCEPT ![t] = [stateFile[MachineFile] EXCEPT !.revision = next]]
                     ELSE tmp
    /\ UNCHANGED <<base, stateFile, marker, wal, revision, scan, histories>>

\* Unless a recovery scan has removed the temporary file.
RenameTmp(t) ==
    /\ tmp[t] # Absent
    /\ Moves(t, "checked", "renamed")
    /\ stateFile' = [stateFile EXCEPT ![FileOf[t]] = tmp[t]]
    /\ tmp' = [tmp EXCEPT ![t] = Absent]
    /\ renamed' = renamed \cup {t}
    /\ UNCHANGED <<tries, newRev, base, marker, wal, revision, scan, discarded>>

\* The database is best effort; machine.json is read again for its revision.
SaveRevision(t) ==
    /\ Moves(t, "renamed", "saved")
    /\ revision' \in {revision, IF IsMachine(t) THEN stateFile[MachineFile].revision ELSE newRev[t]}
    /\ UNCHANGED <<tries, newRev, base, stateFile, tmp, marker, wal, scan, histories>>

\* Mutant: the log before the rename.
LogCommitFirst(t) ==
    /\ Moves(t, "checked", "logged")
    /\ Log(t, "COMMIT")
    /\ UNCHANGED <<tries, newRev, base, stateFile, tmp, marker, revision, scan, histories>>

LogCommit(t) ==
    /\ Moves(t, "saved", "logged")
    /\ Log(t, "COMMIT")
    /\ UNCHANGED <<tries, newRev, base, stateFile, tmp, marker, revision, scan, histories>>

\* The unlink of the marker is best effort.
RemoveMarker(t) ==
    /\ Moves(t, "logged", "done")
    /\ marker' \in {marker, [marker EXCEPT ![t] = "none"]}
    /\ UNCHANGED <<tries, newRev, base, stateFile, tmp, wal, revision, scan, histories>>

-----------------------------------------------------------------------------
\* rollback, by a program that uses the module: after prepare, or when commit
\* has thrown.

RollbackTmp(t) ==
    /\ Moves(t, "prepared", "undoing") \/ Moves(t, "failed", "undoing")
    /\ tmp' = [tmp EXCEPT ![t] = Absent]
    /\ UNCHANGED <<tries, newRev, base, stateFile, marker, wal, revision, scan, histories>>

LogRollback(t) ==
    /\ Moves(t, "undoing", "undoLogged")
    /\ Log(t, "ROLLBACK")
    /\ UNCHANGED <<tries, newRev, base, stateFile, tmp, marker, revision, scan, histories>>

RollbackMarker(t) ==
    /\ Moves(t, "undoLogged", "undone")
    /\ marker' = [marker EXCEPT ![t] = "none"]
    /\ UNCHANGED <<tries, newRev, base, stateFile, tmp, wal, revision, scan, histories>>

\* commit throws at its rename, or at the line in the log behind it.
CommitThrows(t) ==
    /\ Moves(t, "checked", "failed") \/ Moves(t, "saved", "failed")
    /\ UNCHANGED <<tries, newRev, base, stateFile, tmp, marker, wal, revision, scan, histories>>

\* The process dies and takes its memory with it, a temporary file it was writing
\* left half written; so does a program whose prepare throws.
TxnDies(t) ==
    /\ pc[t] \notin {"new", "done", "undone", "dead"}
    /\ pc' = [pc EXCEPT ![t] = "dead"]
    /\ tmp' \in IF pc[t] = "begun" THEN {tmp, [tmp EXCEPT ![t] = Torn]} ELSE {tmp}
    /\ tries' = [tries EXCEPT ![t] = 0]
    /\ newRev' = [newRev EXCEPT ![t] = 0]
    /\ base' = [base EXCEPT ![t] = Absent]
    /\ UNCHANGED <<stateFile, marker, wal, revision, scan, histories>>

-----------------------------------------------------------------------------
\* runRecoveryScan, marker by marker; the process may die between its steps,
\* and the next scan starts over.

\* What the log says of a marked transaction, if its marker can be parsed.
ScanMarker(t) ==
    /\ \A u \in Txns : scan[u] = "idle"
    /\ \/ marker[t] = "torn" /\ scan' = [scan EXCEPT ![t] = "corrupted"]
       \/ /\ marker[t] = "whole"
          /\ scan' = [scan EXCEPT ![t] = IF Logged(t, "COMMIT") \/ Logged(t, "ROLLBACK")
                                         THEN "ended" ELSE "orphan"]
    /\ UNCHANGED <<pc, tries, newRev, base, stateFile, tmp, marker, wal, revision, histories>>

\* A corrupted marker is removed, whether or not it has been filled since; the
\* scan ends when there is none any more.
DiscardMarker(t) ==
    /\ scan[t] = "corrupted" /\ marker[t] # "none"
    /\ scan' = [scan EXCEPT ![t] = "idle"]
    /\ marker' = [marker EXCEPT ![t] = "none"]
    /\ discarded' = discarded \cup {t}
    /\ UNCHANGED <<pc, tries, newRev, base, stateFile, tmp, wal, revision, renamed>>

\* A transaction whose end is in the log needs no more than cleaning up.
CleanUpMarker(t) ==
    /\ scan[t] = "ended"
    /\ scan' = [scan EXCEPT ![t] = "unmarked"]
    /\ marker' = [marker EXCEPT ![t] = "none"]
    /\ UNCHANGED <<pc, tries, newRev, base, stateFile, tmp, wal, revision, histories>>

CleanUpTmp(t) ==
    /\ scan[t] = "unmarked"
    /\ scan' = [scan EXCEPT ![t] = "idle"]
    /\ tmp' = [tmp EXCEPT ![t] = Absent]
    /\ UNCHANGED <<pc, tries, newRev, base, stateFile, marker, wal, revision, histories>>

\* Mutant: the marker goes with the temporary file.
UndoBoth(t) ==
    /\ scan[t] = "orphan"
    /\ scan' = [scan EXCEPT ![t] = "cleared"]
    /\ tmp' = [tmp EXCEPT ![t] = Absent]
    /\ marker' = [marker EXCEPT ![t] = "none"]
    /\ UNCHANGED <<pc, tries, newRev, base, stateFile, wal, revision, histories>>

\* An orphan loses its temporary file, gets its end in the log, and loses its
\* marker.
UndoTmp(t) ==
    /\ scan[t] = "orphan"
    /\ scan' = [scan EXCEPT ![t] = "cleared"]
    /\ tmp' = [tmp EXCEPT ![t] = Absent]
    /\ UNCHANGED <<pc, tries, newRev, base, stateFile, marker, wal, revision, histories>>

LogRecovery(t) ==
    /\ scan[t] = "cleared"
    /\ scan' = [scan EXCEPT ![t] = "undone"]
    /\ Log(t, "RECOVERY_ROLLBACK")
    /\ UNCHANGED <<pc, tries, newRev, base, stateFile, tmp, marker, revision, histories>>

UndoMarker(t) ==
    /\ scan[t] = "undone"
    /\ scan' = [scan EXCEPT ![t] = "idle"]
    /\ marker' = [marker EXCEPT ![t] = "none"]
    /\ UNCHANGED <<pc, tries, newRev, base, stateFile, tmp, wal, revision, histories>>

ScanDies ==
    /\ \E t \in Txns : scan[t] # "idle"
    /\ scan' = [t \in Txns |-> "idle"]
    /\ UNCHANGED <<pc, tries, newRev, base, stateFile, tmp, marker, wal, revision, histories>>

\* initializeTransactionSystem, after its scan: a database without a revision
\* gets one from the log.
InitializeRevision ==
    /\ revision = 0
    /\ revision' = 1 + Cardinality({e \in wal : e.phase = "COMMIT"})
    /\ UNCHANGED <<pc, tries, newRev, base, stateFile, tmp, marker, wal, scan, histories>>

-----------------------------------------------------------------------------

TxnStep(t) ==
    \/ Begin(t) \/ WriteTmp(t) \/ CreateMarker(t) \/ WriteMarker(t) \/ LogPrepare(t)
    \/ CheckRevision(t) \/ Retry(t) \/ RenameTmp(t) \/ SaveRevision(t) \/ LogCommit(t)
    \/ RemoveMarker(t)
    \/ RollbackTmp(t) \/ LogRollback(t) \/ RollbackMarker(t)
    \/ CommitThrows(t) \/ TxnDies(t)

ScanStep(t) ==
    \/ ScanMarker(t) \/ DiscardMarker(t) \/ CleanUpMarker(t) \/ CleanUpTmp(t)
    \/ UndoTmp(t) \/ LogRecovery(t) \/ UndoMarker(t)

TxnNext ==
    \/ \E t \in Txns : TxnStep(t) \/ ScanStep(t)
    \/ ScanDies
    \/ InitializeRevision

TxnSpec == TxnInit /\ [][TxnNext]_txnVars

-----------------------------------------------------------------------------
\* Properties.

\* The log says COMMIT only of a transaction that has replaced its file
\* (commit: rename first, then the line in the log).
CommitIsAfterRename == \A t \in Txns : Logged(t, "COMMIT") => t \in renamed

\* A transaction that got to PREPARE in the log has its end there as well once
\* its marker is gone, by which a scan would find it, wherever it and the scan
\* died and however they overlapped, unless a scan met the marker half written
\* and removed it (runRecoveryScan's order of steps, and its catch).
PreparedIsAccountedFor ==
    \A t \in Txns : Logged(t, "PREPARE") /\ marker[t] = "none" =>
        \/ t \in discarded
        \/ \E phase \in {"COMMIT", "ROLLBACK", "RECOVERY_ROLLBACK"} : Logged(t, phase)

\* "Scan for orphaned .prepared markers (prepared but never committed or rolled
\* back)": what a scan has looked at and left behind was no such transaction.
NoOrphanIsMissed ==
    \A t \in discarded : pc[t] = "dead" /\ Logged(t, "PREPARE") =>
        \E phase \in {"COMMIT", "ROLLBACK", "RECOVERY_ROLLBACK"} : Logged(t, phase)

\* The log does not call a transaction both committed and rolled back by its own
\* program (rollback refuses a committed one; commit says so after the line).
OneEnd == \A t \in Txns : ~(Logged(t, "COMMIT") /\ Logged(t, "ROLLBACK"))

\* No transaction that its own program rolled back has replaced its file.
RollbackIsClean == \A t \in Txns : Logged(t, "ROLLBACK") => t \notin renamed

\* What the scan rolls back has left nothing behind: the log does not say of a
\* transaction that replaced its file that it was rolled back (runRecoveryScan).
RecoveryIsClean == \A t \in Txns : Logged(t, "RECOVERY_ROLLBACK") => t \notin renamed

\* A transaction replaces the content that its prepare saw ("Verify current
\* revision hasn't changed since prepare").
NoLostUpdate ==
    [][\A t \in renamed' \ renamed : stateFile[FileOf[t]] = base[t]]_txnVars

\* Each transaction on a file other than machine.json is all or nothing
\* (AtomicFiles), whatever processes die and whenever the scan runs.
PlainFiles == StateFiles \ {MachineFile}
PlainTxns == {t \in Txns : FileOf[t] # MachineFile}

Abstract == INSTANCE AtomicFiles WITH
    Txns <- PlainTxns,
    Files <- PlainFiles,
    FileOf <- [t \in PlainTxns |-> FileOf[t]],
    Old <- NoTxn,
    value <- [f \in PlainFiles |-> stateFile[f].by],
    outcome <- [t \in PlainTxns |->
                  IF t \in renamed THEN "committed"
                  ELSE IF pc[t] \in {"dead", "undone"} THEN "aborted" ELSE "pending"]

AllOrNothing == Abstract!AtomicSpec
=============================================================================
