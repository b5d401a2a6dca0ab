----------------------------- MODULE FileGuard -----------------------------
(***************************************************************************)
(* The guarded file operations (service/file-guard: execute.ts, backup.ts, *)
(* lock.ts; the tools safe_edit, safe_delete and safe_restore).  Each      *)
(* operation is on one file and runs in a process of its own, without an   *)
(* await: a step is a file, git or database operation with the computation *)
(* before it.  Processes may die at every step and leave their lock behind.*)
(*                                                                         *)
(* An edit is a patch that adds itself to what its tool has read.  The     *)
(* backups of all files share one git repository, hence one index: git     *)
(* commands exclude each other, a command that finds the index locked      *)
(* fails.  The stats kept in the database (baseline.ts) are written and    *)
(* never compared, so they are left out.                                   *)
(***************************************************************************)
EXTENDS Naturals, FiniteSets

CONSTANTS
    Editors, Deleters,  \* operations that take the lock and a backup
    Restorers,          \* operations of safe_restore
    BackupOf,           \* the backup a restorer is asked for
    Files,
    On,                 \* the file each of them is about
    Nobody

Lockers == Editors \cup Deleters

ASSUME FileGuardAssumption ==
    /\ Nobody \notin Lockers
    /\ Editors \cap Deleters = {} /\ Lockers \cap Restorers = {}
    /\ BackupOf \in [Restorers -> Lockers]
    /\ On \in [Lockers \cup Restorers -> Files]
    /\ \A r \in Restorers : On[r] = On[BackupOf[r]]

VARIABLES
    at,         \* the step each operation is at
    file,       \* the edits in each file, or Missing
    lock,       \* the lock directories, by who made them
    want,       \* the content an editor computed
    fresh,      \* nothing has replaced the file since the operation's stat
    backup,     \* the copies backups hold
    onDisk,     \* the backups whose copy is in the work tree
    index, head,    \* the backups in git's index and in the last commit
    record,     \* backup_log
    window      \* history: the file was replaced since the operation last looked

fileGuardVars ==
    <<at, file, lock, want, fresh, backup, onDisk, index, head, record, window>>

Edits == SUBSET Editors
Gone == {Nobody}     \* no content has it

\* A row of backup_log: its status, and the backups its git_commit contains.
NoBackup == [status |-> "none", commit |-> {}]

GuardedSteps == {"new", "read", "locked", "stat", "copied", "added", "committed",
                 "backedUp", "checked", "renamed", "leaving", "over", "dead"}
Inside == GuardedSteps \ {"new", "read", "over", "dead"}

FileGuardTypeOK ==
    /\ at \in [Lockers \cup Restorers ->
                 GuardedSteps \cup {"found", "checkedOut", "restored"}]
    /\ file \in [Files -> Edits \cup {Gone}]
    /\ lock \in [Files -> Lockers \cup {Nobody}]
    /\ want \in [Editors -> Edits]
    /\ fresh \in [Lockers -> BOOLEAN] /\ window \in [Lockers -> BOOLEAN]
    /\ backup \in [Lockers -> Edits]
    /\ onDisk \subseteq Lockers /\ index \subseteq Lockers /\ head \subseteq Lockers
    /\ record \in [Lockers -> [status : {"none", "active", "cleaned", "restored"},
                               commit : SUBSET Lockers]]

FileGuardInit ==
    /\ at = [p \in Lockers \cup Restorers |-> "new"]
    /\ file = [f \in Files |-> {}]
    /\ lock = [f \in Files |-> Nobody]
    /\ want = [e \in Editors |-> {}]
    /\ fresh = [p \in Lockers |-> FALSE] /\ window = [p \in Lockers |-> FALSE]
    /\ backup = [p \in Lockers |-> {}]
    /\ onDisk = {} /\ index = {} /\ head = {}
    /\ record = [p \in Lockers |-> NoBackup]

gitVars == <<onDisk, index, head, record>>

-----------------------------------------------------------------------------
Step(p, from, to) == at[p] = from /\ at' = [at EXCEPT ![p] = to]

\* A failing backup ends in the catch, which leaves the rest as it is and
\* releases the lock.
GiveUp(p, from) ==
    /\ Step(p, from, "leaving")
    /\ UNCHANGED <<file, lock, want, fresh, backup, window, gitVars>>

\* A replacement of the file, by rename, copy or unlink.
Replace(f, content) ==
    /\ file' = [file EXCEPT ![f] = content]
    /\ fresh' = [p \in Lockers |-> fresh[p] /\ On[p] # f]
    /\ window' = [p \in Lockers |-> window[p] \/ (On[p] = f /\ at[p] \in Inside)]

\* safe_edit reads the file and patches what it has read; safe_delete looks
\* whether the file is there.
ReadTarget(p) ==
    /\ Step(p, "new", IF file[On[p]] = Gone THEN "over" ELSE "read")
    /\ want' = IF p \in Editors /\ file[On[p]] # Gone
               THEN [want EXCEPT ![p] = file[On[p]] \cup {p}] ELSE want
    /\ UNCHANGED <<file, lock, fresh, backup, window, gitVars>>

\* Mutant: after the retries the operation goes on without the lock.
AcquireAnyway(p) ==
    /\ Step(p, "read", "locked")
    /\ lock' = IF lock[On[p]] = Nobody THEN [lock EXCEPT ![On[p]] = p] ELSE lock
    /\ UNCHANGED <<file, want, fresh, backup, window, gitVars>>

\* acquireLock makes the directory or, after its retries, gives up.
AcquireLock(p) ==
    /\ IF lock[On[p]] = Nobody
       THEN Step(p, "read", "locked") /\ lock' = [lock EXCEPT ![On[p]] = p]
       ELSE Step(p, "read", "over") /\ UNCHANGED lock
    /\ UNCHANGED <<file, want, fresh, backup, window, gitVars>>

Stat(p) ==
    /\ Step(p, "locked", IF file[On[p]] = Gone THEN "leaving" ELSE "stat")
    /\ fresh' = [fresh EXCEPT ![p] = TRUE]
    /\ UNCHANGED <<file, lock, want, backup, window, gitVars>>

-----------------------------------------------------------------------------
\* createBackup: copy, git add, git commit, rev-parse and the record.

\* The file may be gone: a skipped backup, and the operation goes on.
CopyBackup(p, from) ==
    /\ Step(p, from, IF file[On[p]] = Gone THEN "backedUp" ELSE "copied")
    /\ IF file[On[p]] = Gone THEN UNCHANGED <<backup, onDisk>>
       ELSE /\ backup' = [backup EXCEPT ![p] = file[On[p]]]
            /\ onDisk' = onDisk \cup {p}
    /\ window' = [window EXCEPT ![p] = FALSE]
    /\ UNCHANGED <<file, lock, want, fresh, index, head, record>>

GitAdd(p) ==
    /\ Step(p, "copied", "added")
    /\ index' = index \cup {p}
    /\ UNCHANGED <<file, lock, want, fresh, backup, window, onDisk, head, record>>

\* git commit commits the whole index, and fails when that is the last commit.
GitCommit(p) ==
    /\ Step(p, "added", IF index = head THEN "leaving" ELSE "committed")
    /\ head' = index
    /\ UNCHANGED <<file, lock, want, fresh, backup, window, onDisk, index, record>>

\* Mutant: the record before the commit.
RecordFirst(p) ==
    /\ Step(p, "added", "backedUp")
    /\ record' = [record EXCEPT ![p] = [status |-> "active", commit |-> head]]
    /\ UNCHANGED <<file, lock, want, fresh, backup, window, onDisk, index, head>>

RecordBackup(p) ==
    /\ Step(p, "committed", "backedUp")
    /\ record' = [record EXCEPT ![p] = [status |-> "active", commit |-> head]]
    /\ UNCHANGED <<file, lock, want, fresh, backup, window, onDisk, index, head>>

-----------------------------------------------------------------------------
\* An editor copies after its stat and checks after the backup; a deleter
\* checks at once and copies then.
BeforeCopy(p) == IF p \in Editors THEN "stat" ELSE "checked"
BeforeCheck(p) == IF p \in Editors THEN "backedUp" ELSE "stat"
BeforeReplacing(p) == IF p \in Editors THEN "checked" ELSE "backedUp"

\* Mutant: no second stat.
CheckNothing(p) ==
    /\ Step(p, BeforeCheck(p), "checked")
    /\ window' = IF p \in Editors THEN [window EXCEPT ![p] = FALSE] ELSE window
    /\ UNCHANGED <<file, lock, want, fresh, backup, onDisk, index, head, record>>

\* The second stat.  An editor that finds another file drops its copy and not
\* the record.
CheckAgain(p) ==
    /\ Step(p, BeforeCheck(p), IF fresh[p] THEN "checked" ELSE "leaving")
    /\ onDisk' = IF fresh[p] THEN onDisk ELSE onDisk \ {p}
    /\ window' = IF p \in Editors THEN [window EXCEPT ![p] = FALSE] ELSE window
    /\ UNCHANGED <<file, lock, want, fresh, backup, index, head, record>>

Rename(e) ==
    /\ Step(e, "checked", "renamed")
    /\ Replace(On[e], want[e])
    /\ UNCHANGED <<lock, want, backup, gitVars>>

\* The write or the rename throws: the backup replaces the file, if it can be
\* copied, and is removed.
WriteFails(e) ==
    /\ Step(e, "checked", "leaving")
    /\ Replace(On[e], backup[e]) \/ UNCHANGED <<file, fresh, window>>
    /\ onDisk' = onDisk \ {e}
    /\ UNCHANGED <<lock, want, backup, index, head, record>>

\* The mode is set and the content read back; when one of them fails or the
\* content is another one, the backup replaces it.
Verify(e) ==
    /\ Step(e, "renamed", "leaving")
    /\ \/ file[On[e]] = want[e] /\ UNCHANGED <<file, fresh, window, onDisk>>
       \/ Replace(On[e], backup[e]) /\ onDisk' = onDisk \ {e}
    /\ UNCHANGED <<lock, want, backup, index, head, record>>

Unlink(d) ==
    /\ IF file[On[d]] = Gone
       THEN Step(d, "backedUp", "leaving") /\ UNCHANGED <<file, fresh, window>>
       ELSE Step(d, "backedUp", "leaving") /\ Replace(On[d], Gone)
    /\ UNCHANGED <<lock, want, backup, gitVars>>

\* cleanupStaleBackups, at the end of an operation and nightly: a record of
\* seven days; each git command may fail, and the record is cleaned all the same.
CleanUpBackup(p) ==
    /\ record[p].status = "active" /\ at[p] \in {"over", "dead"}
    /\ record' = [record EXCEPT ![p].status = "cleaned"]
    /\ \E removed, committed \in BOOLEAN :
          /\ index' = IF removed THEN index \ {p} ELSE index
          /\ onDisk' = IF removed THEN onDisk \ {p} ELSE onDisk
          /\ head' = IF committed THEN index' ELSE head
    /\ UNCHANGED <<at, file, lock, want, fresh, backup, window>>

\* An operation ends: what it knew is gone.
Forget(p) ==
    /\ want' = [e \in Editors |-> IF e = p THEN {} ELSE want[e]]
    /\ fresh' = [q \in Lockers |-> fresh[q] /\ q # p]
    /\ window' = [q \in Lockers |-> window[q] /\ q # p]

\* finally: the lock directory is removed.
Release(p) ==
    /\ Step(p, "leaving", "over")
    /\ lock' = [lock EXCEPT ![On[p]] = Nobody]
    /\ Forget(p)
    /\ UNCHANGED <<file, backup, gitVars>>

Killed(p) ==
    /\ at[p] \notin {"new", "over", "dead"}
    /\ at' = [at EXCEPT ![p] = "dead"]
    /\ Forget(p)
    /\ UNCHANGED <<file, lock, backup, gitVars>>

-----------------------------------------------------------------------------
\* restoreBackup takes no lock: it looks the record up, checks the copy out of
\* its commit, renames it over the file and updates the record.
FindRecord(r) ==
    /\ record[BackupOf[r]].status = "active"
    /\ Step(r, "new", "found")
    /\ UNCHANGED <<file, lock, want, fresh, backup, window, gitVars>>

CheckOut(r) ==
    LET b == BackupOf[r]
    IN  /\ Step(r, "found", IF b \in record[b].commit THEN "checkedOut" ELSE "over")
        /\ IF b \in record[b].commit
           THEN onDisk' = onDisk \cup {b} /\ index' = index \cup {b}
           ELSE UNCHANGED <<onDisk, index>>
        /\ UNCHANGED <<file, lock, want, fresh, backup, window, head, record>>

\* The copy may have been cleaned up again.
PutBack(r) ==
    /\ IF BackupOf[r] \in onDisk
       THEN Step(r, "checkedOut", "restored") /\ Replace(On[r], backup[BackupOf[r]])
       ELSE Step(r, "checkedOut", "over") /\ UNCHANGED <<file, fresh, window>>
    /\ UNCHANGED <<lock, want, backup, gitVars>>

MarkRestored(r) ==
    /\ Step(r, "restored", "over")
    /\ record' = [record EXCEPT ![BackupOf[r]].status = "restored"]
    /\ UNCHANGED <<file, lock, want, fresh, backup, window, onDisk, index, head>>

FileGuardNext ==
    \/ \E p \in Lockers :
          \/ ReadTarget(p) \/ AcquireLock(p) \/ Stat(p)
          \/ CopyBackup(p, BeforeCopy(p)) \/ GitAdd(p) \/ GitCommit(p) \/ RecordBackup(p)
          \/ \E from \in {"copied", "added", "committed"} : GiveUp(p, from)
          \/ CheckAgain(p) \/ CleanUpBackup(p) \/ Release(p)
    \/ \E e \in Editors : Rename(e) \/ Verify(e) \/ WriteFails(e)
    \/ \E d \in Deleters : Unlink(d)
    \/ \E r \in Restorers : FindRecord(r) \/ CheckOut(r) \/ PutBack(r) \/ MarkRestored(r)
    \/ \E p \in Lockers \cup Restorers : Killed(p)

FileGuardSpec == FileGuardInit /\ [][FileGuardNext]_fileGuardVars

-----------------------------------------------------------------------------
\* Properties.

\* Only the process that made the lock directory is inside, and only it removes
\* the directory: also an operation that gave up waiting leaves it alone.
OneInside == \A p \in Lockers : at[p] \in Inside => lock[On[p]] = p

\* A backup on record can be checked out of its commit, whatever other backups,
\* clean-ups and restores did to the shared index in between.
Restorable ==
    \A p \in Lockers : record[p].status = "active" => p \in record[p].commit

\* What an operation replaces is what its backup holds, unless a restore,
\* which takes no lock, came in after the operation's last look at the file.
ReplacedIsBackedUp ==
    [][\A p \in Lockers :
         at[p] = BeforeReplacing(p) /\ at'[p] # at[p] /\ file' # file
             => backup[p] = file[On[p]] \/ window[p]]_fileGuardVars

\* "Used by writeSafe() / safeDelete() for cross-process TOCTOU detection": an
\* edit loses nothing that was in the file when it was renamed into place.
EditKeepsOthers ==
    [][\A e \in Editors :
         at[e] = "checked" /\ at'[e] = "renamed" => file[On[e]] \subseteq file'[On[e]]]_fileGuardVars
=============================================================================
