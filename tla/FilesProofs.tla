----------------------------- MODULE FilesProofs -----------------------------
(***************************************************************************)
(* Theorems about the services that own files: guarded file operations,    *)
(* for every failure of a step and every death, and the knowledge index    *)
(* and the archival of the task DAG, in which several processes read a     *)
(* file and write back later what they made of it.  They hold for every    *)
(* set of processes, files, documents, tasks and versions.  At the end,    *)
(* what is proved of each service holds in their composition.              *)
(***************************************************************************)
EXTENDS MCFiles, StateTransactionProofs, MigrationProofs


-----------------------------------------------------------------------------
(* The invariants the properties rest on *)

\* Between its copy and its record a backup is in git's index, and from its
\* commit on in the last commit.
GitSound ==
    \A p \in Lockers :
        /\ at[p] \in {"added", "committed"} => p \in index
        /\ at[p] = "committed" => p \in head
        /\ record[p].status = "active" => p \in record[p].commit

Copied == {"copied", "added", "committed", "backedUp"}

\* Until an editor looks again its copy is the file unless the file was replaced
\* since its first look; then, unless it was replaced since the second.
EditorSound(p) ==
    /\ at[p] \in Copied \cup {"stat"} /\ fresh[p] => file[On[p]] # Gone
    /\ at[p] \in Copied /\ fresh[p] => backup[p] = file[On[p]]
    /\ at[p] = "checked" /\ ~window[p] => backup[p] = file[On[p]]

\* A deleter's copy is the file, or there is no file, unless it was replaced
\* since the copy.
DeleterSound(p) ==
    at[p] \in Copied /\ ~window[p] => backup[p] = file[On[p]] \/ file[On[p]] = Gone

CopySound == /\ \A p \in Editors : EditorSound(p)
             /\ \A p \in Deleters : DeleterSound(p)

GuardInv == FileGuardTypeOK /\ OneInside /\ GitSound /\ CopySound

\* The next-state relation by the kind of operation.
LockerStep(q) ==
    \/ ReadTarget(q) \/ AcquireLock(q) \/ Stat(q)
    \/ CopyBackup(q, BeforeCopy(q)) \/ GitAdd(q) \/ GitCommit(q) \/ RecordBackup(q)
    \/ \E from \in {"copied", "added", "committed"} : GiveUp(q, from)
    \/ CheckAgain(q) \/ CleanUpBackup(q) \/ Release(q)
RestorerStep(q) == FindRecord(q) \/ CheckOut(q) \/ PutBack(q) \/ MarkRestored(q)

-----------------------------------------------------------------------------
(* The invariant *)

\* A replacement tells every operation on that file that is inside, and no
\* operation on another one.
LEMMA ReplaceTells ==
  ASSUME FileGuardTypeOK, NEW f \in Files, NEW content \in Edits \cup {Gone},
         Replace(f, content)
  PROVE  /\ file' \in [Files -> Edits \cup {Gone}]
         /\ fresh' \in [Lockers -> BOOLEAN] /\ window' \in [Lockers -> BOOLEAN]
         /\ file'[f] = content
         /\ \A p \in Lockers :
              IF On[p] = f THEN ~fresh'[p] /\ (at[p] \in Inside => window'[p])
              ELSE /\ file'[On[p]] = file[On[p]]
                   /\ fresh'[p] = fresh[p] /\ window'[p] = window[p]
BY FileGuardAssumption DEF FileGuardTypeOK, Replace

\* Every variable keeps its shape.
LEMMA GuardTypeStep == GuardInv /\ [FileGuardNext]_fileGuardVars => FileGuardTypeOK'
<1> SUFFICES ASSUME GuardInv, [FileGuardNext]_fileGuardVars PROVE FileGuardTypeOK'
  OBVIOUS
<1> USE FileGuardAssumption DEF GuardInv, FileGuardTypeOK, Step, GuardedSteps, Lockers, Edits
<1>1. CASE UNCHANGED fileGuardVars
  BY <1>1 DEF fileGuardVars, gitVars
<1>2. ASSUME NEW q \in Lockers, LockerStep(q) PROVE FileGuardTypeOK'
  <2>1. CASE ReadTarget(q)
    BY <2>1 DEF ReadTarget, gitVars
  <2>2. CASE AcquireLock(q)
    BY <2>2 DEF AcquireLock, gitVars
  <2>3. CASE Stat(q)
    BY <2>3 DEF Stat, gitVars
  <2>4. CASE CopyBackup(q, BeforeCopy(q))
    BY <2>4 DEF CopyBackup, gitVars
  <2>5. CASE GitAdd(q)
    BY <2>5 DEF GitAdd, gitVars
  <2>6. CASE GitCommit(q)
    BY <2>6 DEF GitCommit, gitVars
  <2>7. CASE RecordBackup(q)
    BY <2>7 DEF RecordBackup, gitVars
  <2>8. CASE (\E from \in {"copied", "added", "committed"} : GiveUp(q, from))
    BY <2>8 DEF GiveUp, gitVars
  <2>9. CASE CheckAgain(q)
    BY <2>9 DEF CheckAgain, gitVars
  <2>10. CASE CleanUpBackup(q)
    BY <2>10 DEF CleanUpBackup, gitVars
  <2>11. CASE Release(q)
    BY <2>11 DEF Release, Forget, gitVars
  <2> QED BY <1>2, <2>1, <2>2, <2>3, <2>4, <2>5, <2>6, <2>7, <2>8, <2>9, <2>10, <2>11 DEF LockerStep
<1>3. ASSUME NEW q \in Editors, Rename(q) \/ Verify(q) \/ WriteFails(q) PROVE FileGuardTypeOK'
  <2>1. CASE Rename(q)
    BY <2>1 DEF Rename, gitVars, Replace
  <2>2. CASE Verify(q)
    BY <2>2 DEF Verify, gitVars, Replace
  <2>3. CASE WriteFails(q)
    BY <2>3 DEF WriteFails, gitVars, Replace
  <2> QED BY <1>3, <2>1, <2>2, <2>3
<1>4. ASSUME NEW q \in Deleters, Unlink(q) PROVE FileGuardTypeOK'
  <2>1. CASE file[On[q]] = Gone
    BY <1>4, <2>1 DEF Unlink, gitVars
  <2>2. CASE file[On[q]] # Gone
    <3>1. Replace(On[q], Gone) /\ On[q] \in Files
      BY <1>4, <2>2 DEF Unlink
    <3>2. /\ file' \in [Files -> Edits \cup {Gone}] /\ fresh' \in [Lockers -> BOOLEAN]
          /\ window' \in [Lockers -> BOOLEAN]
      BY <3>1, ReplaceTells
    <3> QED BY <1>4, <2>2, <3>2 DEF Unlink, gitVars
  <2> QED BY <2>1, <2>2
<1>5. ASSUME NEW q \in Restorers, RestorerStep(q) PROVE FileGuardTypeOK'
  <2>1. CASE FindRecord(q)
    BY <2>1 DEF FindRecord, gitVars
  <2>2. CASE CheckOut(q)
    BY <2>2 DEF CheckOut, gitVars
  <2>3. CASE PutBack(q)
    <3>1. BackupOf[q] \in Lockers /\ On[q] \in Files
      OBVIOUS
    <3>2. CASE BackupOf[q] \in onDisk
      <4>1. Replace(On[q], backup[BackupOf[q]]) /\ backup[BackupOf[q]] \in Edits
        BY <2>3, <3>1, <3>2 DEF PutBack
      <4>2. /\ file' \in [Files -> Edits \cup {Gone}] /\ fresh' \in [Lockers -> BOOLEAN]
          /\ window' \in [Lockers -> BOOLEAN]
        BY <3>1, <4>1, ReplaceTells
      <4> QED BY <2>3, <3>1, <3>2, <4>2 DEF PutBack, gitVars
    <3>3. CASE BackupOf[q] \notin onDisk
      BY <2>3, <3>3 DEF PutBack, gitVars
    <3> QED BY <3>2, <3>3
  <2>4. CASE MarkRestored(q)
    <3> DEFINE BackupRecord == [status : {"none", "active", "cleaned", "restored"},
                                commit : SUBSET Lockers]
    <3>1. record[BackupOf[q]] \in BackupRecord
      OBVIOUS
    <3>2. [record[BackupOf[q]] EXCEPT !.status = "restored"] \in BackupRecord
      BY <3>1
    <3>3. record' \in [Lockers -> BackupRecord]
      <4> HIDE DEF BackupRecord
      <4>1. record \in [Lockers -> BackupRecord]
        BY DEF BackupRecord
      <4> QED BY <2>4, <3>2, <4>1 DEF MarkRestored
    <3> QED BY <2>4, <3>3 DEF MarkRestored
  <2> QED BY <1>5, <2>1, <2>2, <2>3, <2>4 DEF RestorerStep
<1>6. ASSUME NEW q \in Lockers \cup Restorers, Killed(q) PROVE FileGuardTypeOK'
  <2>1. at' = [at EXCEPT ![q] = "dead"] /\ "dead" \in GuardedSteps
    BY <1>6 DEF Killed, GuardedSteps
  <2>2. at' \in [Lockers \cup Restorers ->
                   GuardedSteps \cup {"found", "checkedOut", "restored"}]
    BY <2>1
  <2> QED BY <1>6, <2>2 DEF Killed, Forget, gitVars
<1> QED
  BY <1>1, <1>2, <1>3, <1>4, <1>5, <1>6 DEF FileGuardNext, LockerStep, RestorerStep

\* The lock stays with the operation that made it.
LEMMA InsideStep == GuardInv /\ [FileGuardNext]_fileGuardVars => OneInside'
<1> SUFFICES ASSUME GuardInv, [FileGuardNext]_fileGuardVars PROVE OneInside'
  OBVIOUS
<1> USE FileGuardAssumption DEF GuardInv, FileGuardTypeOK, OneInside, Inside, GuardedSteps, Step, Lockers
<1>1. CASE UNCHANGED fileGuardVars
  BY <1>1 DEF fileGuardVars, gitVars
<1>2. ASSUME NEW q \in Lockers, LockerStep(q) PROVE OneInside'
  <2>1. CASE ReadTarget(q)
    BY <2>1 DEF ReadTarget, gitVars
  <2>2. CASE AcquireLock(q)
    BY <2>2 DEF AcquireLock, gitVars
  <2>3. CASE Stat(q)
    BY <2>3 DEF Stat, gitVars
  <2>4. CASE CopyBackup(q, BeforeCopy(q))
    BY <2>4 DEF CopyBackup, gitVars, BeforeCopy, BeforeCheck
  <2>5. CASE GitAdd(q)
    BY <2>5 DEF GitAdd, gitVars
  <2>6. CASE GitCommit(q)
    BY <2>6 DEF GitCommit, gitVars
  <2>7. CASE RecordBackup(q)
    BY <2>7 DEF RecordBackup, gitVars
  <2>8. CASE (\E from \in {"copied", "added", "committed"} : GiveUp(q, from))
    BY <2>8 DEF GiveUp, gitVars
  <2>9. CASE CheckAgain(q)
    BY <2>9 DEF CheckAgain, gitVars, BeforeCopy, BeforeCheck
  <2>10. CASE CleanUpBackup(q)
    BY <2>10 DEF CleanUpBackup, gitVars
  <2>11. CASE Release(q)
    BY <2>11 DEF Release, Forget, gitVars
  <2> QED BY <1>2, <2>1, <2>2, <2>3, <2>4, <2>5, <2>6, <2>7, <2>8, <2>9, <2>10, <2>11 DEF LockerStep
<1>3. ASSUME NEW q \in Editors, Rename(q) \/ Verify(q) \/ WriteFails(q) PROVE OneInside'
  <2>1. CASE Rename(q)
    BY <2>1 DEF Rename, gitVars
  <2>2. CASE Verify(q)
    BY <2>2 DEF Verify, gitVars
  <2>3. CASE WriteFails(q)
    BY <2>3 DEF WriteFails, gitVars
  <2> QED BY <1>3, <2>1, <2>2, <2>3
<1>4. ASSUME NEW q \in Deleters, Unlink(q) PROVE OneInside'
  BY <1>4 DEF Unlink, gitVars
<1>5. ASSUME NEW q \in Restorers, RestorerStep(q) PROVE OneInside'
  <2>1. CASE FindRecord(q)
    BY <2>1 DEF FindRecord, gitVars
  <2>2. CASE CheckOut(q)
    BY <2>2 DEF CheckOut, gitVars
  <2>3. CASE PutBack(q)
    BY <2>3 DEF PutBack, gitVars
  <2>4. CASE MarkRestored(q)
    BY <2>4 DEF MarkRestored, gitVars
  <2> QED BY <1>5, <2>1, <2>2, <2>3, <2>4 DEF RestorerStep
<1>6. ASSUME NEW q \in Lockers \cup Restorers, Killed(q) PROVE OneInside'
  BY <1>6 DEF Killed, gitVars
<1> QED
  BY <1>1, <1>2, <1>3, <1>4, <1>5, <1>6 DEF FileGuardNext, LockerStep, RestorerStep

\* No clean-up and no other operation takes a backup under way out of git.
LEMMA GitStep == GuardInv /\ [FileGuardNext]_fileGuardVars => GitSound'
<1> SUFFICES ASSUME GuardInv, [FileGuardNext]_fileGuardVars PROVE GitSound'
  OBVIOUS
<1> USE FileGuardAssumption DEF GuardInv, FileGuardTypeOK, GitSound, Step, Lockers
<1>1. CASE UNCHANGED fileGuardVars
  BY <1>1 DEF fileGuardVars, gitVars
<1>2. ASSUME NEW q \in Lockers, LockerStep(q) PROVE GitSound'
  <2>1. CASE ReadTarget(q)
    BY <2>1 DEF ReadTarget, gitVars
  <2>2. CASE AcquireLock(q)
    BY <2>2 DEF AcquireLock, gitVars
  <2>3. CASE Stat(q)
    BY <2>3 DEF Stat, gitVars
  <2>4. CASE CopyBackup(q, BeforeCopy(q))
    BY <2>4 DEF CopyBackup, gitVars
  <2>5. CASE GitAdd(q)
    BY <2>5 DEF GitAdd, gitVars
  <2>6. CASE GitCommit(q)
    BY <2>6 DEF GitCommit, gitVars
  <2>7. CASE RecordBackup(q)
    BY <2>7 DEF RecordBackup, gitVars
  <2>8. CASE (\E from \in {"copied", "added", "committed"} : GiveUp(q, from))
    BY <2>8 DEF GiveUp, gitVars
  <2>9. CASE CheckAgain(q)
    BY <2>9 DEF CheckAgain, gitVars
  <2>10. CASE CleanUpBackup(q)
    BY <2>10 DEF CleanUpBackup, gitVars
  <2>11. CASE Release(q)
    BY <2>11 DEF Release, Forget, gitVars
  <2> QED BY <1>2, <2>1, <2>2, <2>3, <2>4, <2>5, <2>6, <2>7, <2>8, <2>9, <2>10, <2>11 DEF LockerStep
<1>3. ASSUME NEW q \in Editors, Rename(q) \/ Verify(q) \/ WriteFails(q) PROVE GitSound'
  <2>1. CASE Rename(q)
    BY <2>1 DEF Rename, gitVars
  <2>2. CASE Verify(q)
    BY <2>2 DEF Verify, gitVars
  <2>3. CASE WriteFails(q)
    BY <2>3 DEF WriteFails, gitVars
  <2> QED BY <1>3, <2>1, <2>2, <2>3
<1>4. ASSUME NEW q \in Deleters, Unlink(q) PROVE GitSound'
  BY <1>4 DEF Unlink, gitVars
<1>5. ASSUME NEW q \in Restorers, RestorerStep(q) PROVE GitSound'
  <2>1. CASE FindRecord(q)
    BY <2>1 DEF FindRecord, gitVars
  <2>2. CASE CheckOut(q)
    BY <2>2 DEF CheckOut, gitVars
  <2>3. CASE PutBack(q)
    BY <2>3 DEF PutBack, gitVars
  <2>4. CASE MarkRestored(q)
    BY <2>4 DEF MarkRestored, gitVars
  <2> QED BY <1>5, <2>1, <2>2, <2>3, <2>4 DEF RestorerStep
<1>6. ASSUME NEW q \in Lockers \cup Restorers, Killed(q) PROVE GitSound'
  BY <1>6 DEF Killed, gitVars
<1> QED
  BY <1>1, <1>2, <1>3, <1>4, <1>5, <1>6 DEF FileGuardNext, LockerStep, RestorerStep

\* A replacement by somebody leaves every copy true or its operation told.
LEMMA ReplacedSound ==
  ASSUME FileGuardTypeOK, CopySound, NEW f \in Files, NEW content \in Edits \cup {Gone},
         Replace(f, content), UNCHANGED backup,
         \A p \in Lockers : at'[p] = at[p] \/ at'[p] = "leaving"
  PROVE  CopySound'
<1> Copied \cup {"checked"} \subseteq Inside /\ "leaving" \notin Copied \cup {"stat", "checked"}
  BY DEF Copied, Inside, GuardedSteps
<1>1. ASSUME NEW p \in Editors PROVE EditorSound(p)'
  <2>1. CASE On[p] = f
    BY <2>1, ReplaceTells DEF EditorSound, Lockers
  <2>2. CASE On[p] # f
    <3>1. /\ file'[On[p]] = file[On[p]] /\ fresh'[p] = fresh[p] /\ window'[p] = window[p]
          /\ at'[p] = at[p] \/ at'[p] = "leaving"
      BY <2>2, ReplaceTells DEF Lockers
    <3> QED BY <3>1 DEF CopySound, EditorSound
  <2> QED BY <2>1, <2>2
<1>2. ASSUME NEW p \in Deleters PROVE DeleterSound(p)'
  <2>1. CASE On[p] = f
    BY <2>1, ReplaceTells DEF DeleterSound, Lockers
  <2>2. CASE On[p] # f
    <3>1. /\ file'[On[p]] = file[On[p]] /\ window'[p] = window[p]
          /\ at'[p] = at[p] \/ at'[p] = "leaving"
      BY <2>2, ReplaceTells DEF Lockers
    <3> QED BY <3>1 DEF CopySound, DeleterSound
  <2> QED BY <2>1, <2>2
<1> QED BY <1>1, <1>2 DEF CopySound

\* A copy stays true for as long as the operation has not been told.
LEMMA CopyStep == GuardInv /\ [FileGuardNext]_fileGuardVars => CopySound'
<1> SUFFICES ASSUME GuardInv, [FileGuardNext]_fileGuardVars PROVE CopySound'
  OBVIOUS
<1> Copied \cup {"checked"} \subseteq Inside
  BY DEF Copied, Inside, GuardedSteps
<1> USE FileGuardAssumption DEF GuardInv, FileGuardTypeOK, CopySound, EditorSound, DeleterSound, Copied, Step, Lockers
<1>1. CASE UNCHANGED fileGuardVars
  BY <1>1 DEF fileGuardVars, gitVars
<1>2. ASSUME NEW q \in Lockers, LockerStep(q) PROVE CopySound'
  <2>1. CASE ReadTarget(q)
    BY <2>1 DEF ReadTarget, gitVars
  <2>2. CASE AcquireLock(q)
    BY <2>2 DEF AcquireLock, gitVars
  <2>3. CASE Stat(q)
    BY <2>3 DEF Stat, gitVars
  <2>4. CASE CopyBackup(q, BeforeCopy(q))
    BY <2>4 DEF CopyBackup, gitVars, BeforeCopy, BeforeCheck
  <2>5. CASE GitAdd(q)
    BY <2>5 DEF GitAdd, gitVars
  <2>6. CASE GitCommit(q)
    BY <2>6 DEF GitCommit, gitVars
  <2>7. CASE RecordBackup(q)
    BY <2>7 DEF RecordBackup, gitVars
  <2>8. CASE (\E from \in {"copied", "added", "committed"} : GiveUp(q, from))
    BY <2>8 DEF GiveUp, gitVars
  <2>9. CASE CheckAgain(q)
    BY <2>9 DEF CheckAgain, gitVars, BeforeCopy, BeforeCheck
  <2>10. CASE CleanUpBackup(q)
    BY <2>10 DEF CleanUpBackup, gitVars
  <2>11. CASE Release(q)
    BY <2>11 DEF Release, Forget, gitVars
  <2> QED BY <1>2, <2>1, <2>2, <2>3, <2>4, <2>5, <2>6, <2>7, <2>8, <2>9, <2>10, <2>11 DEF LockerStep
<1>3. ASSUME NEW q \in Editors, Rename(q) \/ Verify(q) \/ WriteFails(q) PROVE CopySound'
  <2>1. CASE Rename(q)
    BY <2>1 DEF Rename, gitVars, Replace
  <2>2. CASE Verify(q)
    <3>1. CASE Replace(On[q], backup[q])
      BY <2>2, <3>1, ReplaceTells DEF Verify, gitVars
    <3>2. CASE UNCHANGED <<file, fresh, window>>
      BY <2>2, <3>2 DEF Verify, gitVars
    <3> QED BY <2>2, <3>1, <3>2 DEF Verify
  <2>3. CASE WriteFails(q)
    <3>1. CASE Replace(On[q], backup[q])
      BY <2>3, <3>1, ReplaceTells DEF WriteFails, gitVars
    <3>2. CASE UNCHANGED <<file, fresh, window>>
      BY <2>3, <3>2 DEF WriteFails, gitVars
    <3> QED BY <2>3, <3>1, <3>2 DEF WriteFails
  <2> QED BY <1>3, <2>1, <2>2, <2>3
<1>4. ASSUME NEW q \in Deleters, Unlink(q) PROVE CopySound'
  <2>1. CASE file[On[q]] = Gone
    BY <1>4, <2>1 DEF Unlink, gitVars
  <2>2. CASE file[On[q]] # Gone
    <3>1. /\ Replace(On[q], Gone) /\ On[q] \in Files /\ UNCHANGED backup
          /\ at' = [at EXCEPT ![q] = "leaving"]
      BY <1>4, <2>2 DEF Unlink
    <3>2. \A p \in Lockers : at'[p] = at[p] \/ at'[p] = "leaving"
      BY <3>1
    <3> HIDE DEF CopySound, EditorSound, DeleterSound
    <3> QED BY <3>1, <3>2, ReplacedSound
  <2> QED BY <2>1, <2>2
<1>5. ASSUME NEW q \in Restorers, RestorerStep(q) PROVE CopySound'
  <2>1. CASE FindRecord(q)
    BY <2>1 DEF FindRecord, gitVars
  <2>2. CASE CheckOut(q)
    BY <2>2 DEF CheckOut, gitVars
  <2>3. CASE PutBack(q)
    <3>1. BackupOf[q] \in Lockers /\ On[q] \in Files
      OBVIOUS
    <3>2. CASE BackupOf[q] \in onDisk
      <4>1. /\ Replace(On[q], backup[BackupOf[q]]) /\ backup[BackupOf[q]] \in Edits
            /\ UNCHANGED backup /\ at' = [at EXCEPT ![q] = "restored"]
        BY <2>3, <3>1, <3>2 DEF PutBack
      <4>2. \A p \in Lockers : at'[p] = at[p]
        BY <4>1
      <4> HIDE DEF CopySound, EditorSound, DeleterSound
      <4> QED BY <3>1, <4>1, <4>2, ReplacedSound
    <3>3. CASE BackupOf[q] \notin onDisk
      BY <2>3, <3>3 DEF PutBack, gitVars
    <3> QED BY <3>2, <3>3
  <2>4. CASE MarkRestored(q)
    BY <2>4 DEF MarkRestored, gitVars
  <2> QED BY <1>5, <2>1, <2>2, <2>3, <2>4 DEF RestorerStep
<1>6. ASSUME NEW q \in Lockers \cup Restorers, Killed(q) PROVE CopySound'
  BY <1>6 DEF Killed, Forget, gitVars
<1> QED
  BY <1>1, <1>2, <1>3, <1>4, <1>5, <1>6 DEF FileGuardNext, LockerStep, RestorerStep

LEMMA GuardInvInit == FileGuardInit => GuardInv
BY FileGuardAssumption
   DEF FileGuardInit, GuardInv, FileGuardTypeOK, GuardedSteps, Edits, NoBackup, OneInside, Inside,
       GitSound, CopySound, EditorSound, DeleterSound, Copied, Lockers

LEMMA GuardInvStep == GuardInv /\ [FileGuardNext]_fileGuardVars => GuardInv'
BY GuardTypeStep, InsideStep, GitStep, CopyStep DEF GuardInv

LEMMA GuardInvariant == FileGuardSpec => []GuardInv
BY GuardInvInit, GuardInvStep, PTL DEF FileGuardSpec

-----------------------------------------------------------------------------
(* The theorems *)

\* Files, locks, git and records keep their shape.
THEOREM FileGuardTypeInvariant == FileGuardSpec => []FileGuardTypeOK
BY GuardInvariant, PTL DEF GuardInv

\* However operations wait, fail and die, nobody is inside but the owner of the
\* lock (acquireLock, releaseLock).
THEOREM InsideInvariant == FileGuardSpec => []OneInside
BY GuardInvariant, PTL DEF GuardInv

\* A backup on record is in the commit that its record names, although all
\* backups share one index (createBackup, cleanupStaleBackups).
THEOREM RestorableInvariant == FileGuardSpec => []Restorable
<1>1. GuardInv => Restorable
  BY DEF GuardInv, GitSound, Restorable
<1> QED BY <1>1, GuardInvariant, PTL

\* No edit and no deletion replaces what its backup does not hold, but for a
\* restore that comes in after the last look at the file.
THEOREM ReplacedInvariant == FileGuardSpec => ReplacedIsBackedUp
<1>1. ASSUME GuardInv, [FileGuardNext]_fileGuardVars, NEW p \in Lockers,
             at[p] = BeforeReplacing(p), at'[p] # at[p], file' # file
      PROVE  backup[p] = file[On[p]] \/ window[p]
  <2>1. p \in Editors \/ p \in Deleters
    BY DEF Lockers
  <2>2. p \in Editors => at[p] = "checked"
    BY <1>1 DEF BeforeReplacing
  <2>3. p \in Editors => (backup[p] = file[On[p]] \/ window[p])
    BY <1>1, <2>2 DEF GuardInv, CopySound, EditorSound
  <2>4. CASE p \notin Editors
    <3>1. at[p] = "backedUp"
      BY <1>1, <2>4 DEF BeforeReplacing
    <3>2. window[p] \/ backup[p] = file[On[p]] \/ file[On[p]] = Gone
      <4>1. DeleterSound(p)
        <5>1. \A d \in Deleters : DeleterSound(d)
          BY <1>1 DEF GuardInv, CopySound
        <5> QED BY <2>1, <2>4, <5>1
      <4>2. at[p] \in Copied
        BY <3>1 DEF Copied
      <4> QED BY <4>1, <4>2 DEF DeleterSound
    <3>3. file[On[p]] # Gone
      <4>1. ASSUME NEW q \in Lockers \cup Restorers, NEW from, NEW to, Step(q, from, to)
            PROVE  q = p
        BY <1>1, <4>1 DEF GuardInv, FileGuardTypeOK, Step, Lockers
      <4>2. ASSUME NEW e \in Editors, Rename(e) \/ Verify(e) \/ WriteFails(e) PROVE FALSE
        BY <2>4, <4>1, <4>2 DEF Rename, Verify, WriteFails, Lockers
      <4>3. ASSUME NEW r \in Restorers, PutBack(r) PROVE FALSE
        BY <4>1, <4>3, FileGuardAssumption DEF PutBack
      <4>4. ASSUME NEW d \in Deleters, Unlink(d), file[On[p]] = Gone PROVE FALSE
        BY <1>1, <4>1, <4>4 DEF Unlink, Lockers
      <4>5. \/ \E e \in Editors : Rename(e) \/ Verify(e) \/ WriteFails(e)
            \/ \E r \in Restorers : PutBack(r)
            \/ \E d \in Deleters : Unlink(d)
        BY <1>1
           DEF FileGuardNext, fileGuardVars, gitVars, ReadTarget, AcquireLock, Stat,
               CopyBackup, GitAdd, GitCommit, RecordBackup, GiveUp, CheckAgain,
               CleanUpBackup, Release, FindRecord, CheckOut, MarkRestored, Killed
      <4> QED BY <4>2, <4>3, <4>4, <4>5
    <3> QED BY <3>2, <3>3
  <2> QED BY <2>3, <2>4
<1>2. GuardInv /\ [FileGuardNext]_fileGuardVars =>
        [\A p \in Lockers :
            at[p] = BeforeReplacing(p) /\ at'[p] # at[p] /\ file' # file
                => backup[p] = file[On[p]] \/ window[p]]_fileGuardVars
  BY <1>1
<1> QED BY <1>2, GuardInvariant, PTL DEF FileGuardSpec, ReplacedIsBackedUp


-----------------------------------------------------------------------------
(* The index: as long as no lock has been written over, the lock file that   *)
(* nobody owns works as a lock: one process is inside at a time, and what it *)
(* publishes it has read from the database since it went in.                 *)

\* Inside the lock: between the write of the lock file and its removal.
LockSteps == {"read", "write", "rename", "sweep", "log failure", "release", "release failed"}
Within(p) == retrying[p] = "inside" \/ step[p] \in LockSteps

\* A retry that has its lock never gets through to a materialization.
Outside(p) ==
    /\ retrying[p] = "inside" => step[p] \in {"look", "take", "end"}
    /\ step[p] = "end" => retrying[p] = "inside"

\* What is about to be published holds all that has been, and is on record.
Newer(docs) == published \subseteq docs /\ docs \subseteq entries
Current(p) ==
    /\ step[p] = "write" => Newer(copy[p])
    /\ step[p] = "rename" => copyFile[p] = NoTmp \/ Newer(copyFile[p])

\* As long as no lock has been written over.
Orderly ==
    /\ \A p \in Curators : Outside(p) /\ Current(p)
    /\ \A p \in Curators : Within(p) => indexLock # "none"
    /\ \A p, q \in Curators : Within(p) /\ Within(q) => p = q
    /\ published \subseteq entries

IndexInv == IndexTypeOK /\ (overwritten \/ Orderly)

-----------------------------------------------------------------------------
LEMMA IndexInvInit == IndexInit => IndexInv
BY DEF IndexInit, IndexInv, IndexTypeOK, Orderly, Outside, Current, Within, LockSteps,
       Accesses, TmpNames

\* Every action keeps the shape of the variables.
LEMMA IndexTypeStep == IndexTypeOK /\ [IndexNext]_indexVars => IndexTypeOK'
<1> SUFFICES ASSUME IndexTypeOK, [IndexNext]_indexVars PROVE IndexTypeOK'
  OBVIOUS
<1> USE DEF IndexTypeOK, Accesses, TmpNames, Due, Goto, Hold, SetFile, seenBefore
<1>1. CASE UNCHANGED indexVars
  BY <1>1 DEF indexVars
<1>2. CASE LockAges
  BY <1>2 DEF LockAges
<1>3. ASSUME NEW p \in Curators, NEW d \in Docs, AddEntry(p, d) PROVE IndexTypeOK'
  BY <1>3 DEF AddEntry, Enter
<1>4. ASSUME NEW p \in Curators, NEW docs \in SUBSET manifest,
             WriteManifest(p, docs) PROVE IndexTypeOK'
  BY <1>4 DEF WriteManifest, Enter
<1>19. ASSUME NEW p \in Curators, Materialize(p) PROVE IndexTypeOK'
  BY <1>19 DEF Materialize, Enter
<1>5. ASSUME NEW p \in Curators, NEW d \in Docs, EnterInFile(p, d) PROVE IndexTypeOK'
  <2>1. entries \cup {d} \in SUBSET Docs /\ manifest \cup {d} \in SUBSET Docs
    OBVIOUS
  <2>2. copy' \in [Curators -> SUBSET Docs]
    BY <1>5, <2>1 DEF EnterInFile, Manifests
  <2> QED
    BY <1>5, <2>2 DEF EnterInFile
<1>6. ASSUME NEW p \in Curators, RetryJobs(p) PROVE IndexTypeOK'
  BY <1>6 DEF RetryJobs
<1>7. ASSUME NEW p \in Curators, NEW kept \in SUBSET manifest, Clean(p, kept) PROVE IndexTypeOK'
  BY <1>7 DEF Clean
<1>8. ASSUME NEW p \in Curators, Look(p) PROVE IndexTypeOK'
  BY <1>8 DEF Look, Refuse
<1>9. ASSUME NEW p \in Curators, Take(p) PROVE IndexTypeOK'
  BY <1>9 DEF Take
<1>10. ASSUME NEW p \in Curators, ReadEntries(p) PROVE IndexTypeOK'
  BY <1>10 DEF ReadEntries
<1>11. ASSUME NEW p \in Curators, WriteCopy(p) PROVE IndexTypeOK'
  BY <1>11 DEF WriteCopy
<1>20. ASSUME NEW p \in Curators, WriteThrows(p) PROVE IndexTypeOK'
  BY <1>20 DEF WriteThrows
<1>12. ASSUME NEW p \in Curators, Publish(p) PROVE IndexTypeOK'
  <2>1. CASE copyFile[p] = NoTmp
    BY <1>12, <2>1 DEF Publish
  <2>2. CASE copyFile[p] # NoTmp
    <3>1. copyFile[p] \in SUBSET Docs
      BY <2>2
    <3> QED
      BY <1>12, <2>2, <3>1 DEF Publish
  <2> QED
    BY <2>1, <2>2
<1>13. ASSUME NEW p \in Curators, Sweep(p) PROVE IndexTypeOK'
  BY <1>13 DEF Sweep
<1>14. ASSUME NEW p \in Curators, LogFailure(p) PROVE IndexTypeOK'
  BY <1>14 DEF LogFailure
<1>15. ASSUME NEW p \in Curators, ReleaseIndexLock(p) PROVE IndexTypeOK'
  BY <1>15 DEF ReleaseIndexLock
<1>16. ASSUME NEW p \in Curators, EndRetry(p) PROVE IndexTypeOK'
  BY <1>16 DEF EndRetry
<1>17. ASSUME NEW p \in Curators, LoosePublish(p) PROVE IndexTypeOK'
  <2> DEFINE n == IF Due(p, "clean rename") THEN Cleaner ELSE p
  <2>1. n \in TmpNames
    OBVIOUS
  <2>2. CASE copyFile[n] = NoTmp
    BY <1>17, <2>2 DEF LoosePublish
  <2>3. CASE copyFile[n] # NoTmp
    <3>1. copyFile[n] \in SUBSET Docs
      BY <2>1, <2>3
    <3> HIDE DEF n
    <3>2. manifest' = copyFile[n] /\ copyFile' = [copyFile EXCEPT ![n] = NoTmp]
      BY <1>17, <2>3 DEF LoosePublish, n
    <3> QED
      BY <1>17, <3>1, <3>2 DEF LoosePublish
  <2> QED
    BY <2>2, <2>3
<1>18. ASSUME NEW p \in Curators, Die(p) PROVE IndexTypeOK'
  BY <1>18 DEF Die
<1> QED
  BY <1>1, <1>2, <1>3, <1>4, <1>5, <1>6, <1>7, <1>8, <1>9, <1>10, <1>11, <1>12, <1>13,
       <1>14, <1>15, <1>16, <1>17, <1>18, <1>19, <1>20 DEF IndexNext

-----------------------------------------------------------------------------
\* Every action leaves things in order, or a lock has been written over.
LEMMA OrderlyStep ==
    ASSUME IndexTypeOK, Orderly, [IndexNext]_indexVars, ~overwritten, ~overwritten'
    PROVE  Orderly'
<1> USE DEF Orderly, Outside, Current, Newer, Within, LockSteps, Due, Goto, Hold, SetFile, seenBefore
<1> /\ step \in [Curators -> Accesses] /\ retrying \in [Curators -> {"no", "before", "inside"}]
    /\ copy \in [Curators -> SUBSET Docs]
    /\ copyFile \in [TmpNames -> {NoTmp} \cup SUBSET Docs]
    /\ Curators \subseteq TmpNames
  BY DEF IndexTypeOK, TmpNames
<1>1. CASE UNCHANGED indexVars
  BY <1>1 DEF indexVars
<1>2. CASE LockAges
  BY <1>2 DEF LockAges
<1>3. ASSUME NEW p \in Curators, NEW d \in Docs, AddEntry(p, d) PROVE Orderly'
  BY <1>3 DEF AddEntry, Enter
<1>4. ASSUME NEW p \in Curators, NEW docs \in SUBSET manifest, WriteManifest(p, docs) PROVE Orderly'
  BY <1>4 DEF WriteManifest, Enter
<1>19. ASSUME NEW p \in Curators, Materialize(p) PROVE Orderly'
  BY <1>19 DEF Materialize, Enter
<1>5. ASSUME NEW p \in Curators, NEW d \in Docs, EnterInFile(p, d) PROVE Orderly'
  BY <1>5 DEF EnterInFile, Manifests
<1>6. ASSUME NEW p \in Curators, RetryJobs(p) PROVE Orderly'
  BY <1>6 DEF RetryJobs
<1>7. ASSUME NEW p \in Curators, NEW kept \in SUBSET manifest, Clean(p, kept) PROVE Orderly'
  BY <1>7 DEF Clean
<1>8. ASSUME NEW p \in Curators, Look(p) PROVE Orderly'
  <2>1. CASE indexLock = "fresh" /\ Refuse(p)
    <3>1. indexLock' = indexLock
      BY <2>1 DEF Refuse
    <3>2. CASE retrying[p] = "inside" /\ (Goto(p, "end") \/ Goto(p, "look"))
      <4>1. retrying' = retrying
        BY <2>1, <3>2 DEF Refuse
      <4>2. CASE Goto(p, "end")
        BY <1>8, <3>1, <3>2, <4>1, <4>2 DEF Look
      <4>3. CASE Goto(p, "look")
        BY <1>8, <3>1, <3>2, <4>1, <4>3 DEF Look
      <4> QED
        BY <3>2, <4>2, <4>3
    <3>3. CASE retrying[p] # "inside" /\ Goto(p, "idle")
      BY <1>8, <2>1, <3>1, <3>3 DEF Look, Refuse
    <3> QED
      BY <2>1, <3>2, <3>3 DEF Refuse
  <2>2. CASE Goto(p, "take") /\ UNCHANGED <<indexLock, retrying>>
    BY <1>8, <2>2 DEF Look
  <2> QED
    BY <1>8, <2>1, <2>2 DEF Look
<1>9. ASSUME NEW p \in Curators, Take(p) PROVE Orderly'
  <2>1. indexLock = "none" /\ \A q \in Curators : ~Within(q)
    BY <1>9 DEF Take
  <2>2. CASE retrying[p] = "before"
    <3>1. retrying' = [retrying EXCEPT ![p] = "inside"]
      BY <1>9, <2>2 DEF Take
    <3>2. indexLock' = "fresh" /\ UNCHANGED <<entries, copyFile, copy, published>>
      BY <1>9 DEF Take
    <3>3. /\ retrying'[p] = "inside"
          /\ \A q \in Curators \ {p} : retrying'[q] = retrying[q]
      <4>1. retrying'[p] = "inside"
        BY <3>1
      <4>2. ASSUME NEW q \in Curators \ {p} PROVE retrying'[q] = retrying[q]
        BY <3>1, <4>2
      <4> QED
        BY <4>1, <4>2
    <3>4. CASE Goto(p, "look")
      BY <2>1, <3>2, <3>3, <3>4
    <3>5. CASE Goto(p, "end")
      BY <2>1, <3>2, <3>3, <3>5
    <3> QED
      BY <1>9, <2>2, <3>4, <3>5 DEF Take
  <2>3. CASE retrying[p] # "before"
    <3>1. retrying' = retrying /\ Goto(p, "read")
      BY <1>9, <2>3 DEF Take
    <3> QED
      BY <1>9, <2>1, <3>1 DEF Take
  <2> QED
    BY <2>2, <2>3
<1>10. ASSUME NEW p \in Curators, ReadEntries(p) PROVE Orderly'
  <2>1. CASE Hold(p, entries) /\ Goto(p, "write")
    BY <1>10, <2>1 DEF ReadEntries
  <2>2. CASE Goto(p, "log failure") /\ UNCHANGED copy
    BY <1>10, <2>2 DEF ReadEntries
  <2> QED
    BY <1>10, <2>1, <2>2 DEF ReadEntries
<1>11. ASSUME NEW p \in Curators, WriteCopy(p) PROVE Orderly'
  <2>1. CASE Due(p, "write") /\ Goto(p, "rename") /\ SetFile(p, copy[p])
    BY <1>11, <2>1 DEF WriteCopy
  <2>2. CASE Due(p, "loose write") /\ Goto(p, "loose rename") /\ SetFile(p, copy[p])
    BY <1>11, <2>2 DEF WriteCopy
  <2>3. CASE Due(p, "clean write") /\ Goto(p, "clean rename") /\ SetFile(Cleaner, copy[p])
    BY <1>11, <2>3, IndexAssumption DEF WriteCopy
  <2> QED
    BY <1>11, <2>1, <2>2, <2>3 DEF WriteCopy
<1>20. ASSUME NEW p \in Curators, WriteThrows(p) PROVE Orderly'
  BY <1>20 DEF WriteThrows
<1>12. ASSUME NEW p \in Curators, Publish(p) PROVE Orderly'
  <2>1. CASE copyFile[p] = NoTmp
    <3>1. Goto(p, "log failure") /\ Within(p) /\ \A q \in Curators \ {p} : ~Within(q)
      BY <1>12, <2>1 DEF Publish
    <3>2. UNCHANGED <<entries, indexLock, copyFile, copy, retrying, published>>
      BY <1>12, <2>1 DEF Publish
    <3>3. \A q \in Curators \ {p} : step'[q] = step[q]
      BY <3>1
    <3>4. step'[p] = "log failure"
      BY <3>1
    <3>5. \A q \in Curators : Outside(q)' /\ Current(q)'
      BY <1>12, <3>1, <3>2, <3>3, <3>4 DEF Publish
    <3> HIDE DEF Outside, Current, Goto
    <3> QED
      BY <3>1, <3>2, <3>3, <3>4, <3>5
  <2>2. CASE copyFile[p] # NoTmp
    <3>1. Newer(copyFile[p]) /\ published' = copyFile[p] /\ Goto(p, "sweep")
      <4>1. step[p] = "rename" /\ Newer(copyFile[p])
        BY <1>12, <2>2 DEF Publish
      <4> QED
        BY <1>12, <2>2, <4>1 DEF Publish
    <3>2. \A q \in Curators \ {p} : ~Within(q)
      BY <1>12 DEF Publish
    <3>3. /\ ~Within(p)' \/ (step'[p] = "sweep" /\ retrying'[p] # "inside")
          /\ indexLock' = indexLock /\ indexLock # "none" /\ entries' = entries
      BY <1>12, <2>2, <3>1 DEF Publish
    <3>4. \A q \in Curators \ {p} : /\ step'[q] = step[q] /\ retrying'[q] = retrying[q]
                                    /\ step'[q] \notin {"write", "rename"}
      BY <1>12, <2>2, <3>1, <3>2 DEF Publish
    <3>5. published' \subseteq entries'
      BY <1>12, <3>1, <3>3
    <3>6. \A q \in Curators : Outside(q)' /\ Current(q)'
      BY <1>12, <3>2, <3>3, <3>4, <3>1 DEF Publish
    <3>7. \A q \in Curators \ {p} : ~Within(q)'
      BY <3>2, <3>4
    <3> QED
      BY <3>3, <3>5, <3>6, <3>7
  <2> QED
    BY <2>1, <2>2
<1>13. ASSUME NEW p \in Curators, Sweep(p) PROVE Orderly'
  BY <1>13 DEF Sweep
<1>14. ASSUME NEW p \in Curators, LogFailure(p) PROVE Orderly'
  BY <1>14 DEF LogFailure
<1>15. ASSUME NEW p \in Curators, ReleaseIndexLock(p) PROVE Orderly'
  <2>1. Within(p) /\ \A q \in Curators \ {p} : ~Within(q)
    BY <1>15 DEF ReleaseIndexLock
  <2>2. UNCHANGED <<entries, copyFile, copy, retrying, published>>
    BY <1>15 DEF ReleaseIndexLock, seenBefore
  <2>3. CASE retrying[p] # "inside"
    <3>1. Goto(p, "idle")
      BY <1>15, <2>3 DEF ReleaseIndexLock
    <3>2. step'[p] = "idle" /\ \A q \in Curators \ {p} : step'[q] = step[q]
      <4>1. step'[p] = "idle"
        BY <3>1
      <4>2. ASSUME NEW q \in Curators \ {p} PROVE step'[q] = step[q]
        BY <3>1, <4>2
      <4> QED
        BY <4>1, <4>2
    <3>3. \A q \in Curators : ~Within(q)'
      BY <2>1, <2>2, <2>3, <3>2
    <3>4. \A q \in Curators : Outside(q)' /\ Current(q)'
      BY <2>1, <2>2, <2>3, <3>2
    <3> HIDE DEF Outside, Current, Goto, Within
    <3> QED
      BY <2>2, <3>3, <3>4
  <2>4. CASE retrying[p] = "inside"
    <3>1. step[p] \in {"release", "release failed"}
      BY <1>15 DEF ReleaseIndexLock
    <3> QED
      BY <2>4, <3>1
  <2> QED
    BY <2>3, <2>4
<1>16. ASSUME NEW p \in Curators, EndRetry(p) PROVE Orderly'
  BY <1>16 DEF EndRetry
<1>17. ASSUME NEW p \in Curators, LoosePublish(p) PROVE Orderly'
  BY <1>17 DEF LoosePublish
<1>18. ASSUME NEW p \in Curators, Die(p) PROVE Orderly'
  BY <1>18 DEF Die
<1> QED
  BY <1>1, <1>2, <1>3, <1>4, <1>5, <1>6, <1>7, <1>8, <1>9, <1>10, <1>11, <1>12, <1>13,
       <1>14, <1>15, <1>16, <1>17, <1>18, <1>19, <1>20 DEF IndexNext

-----------------------------------------------------------------------------
LEMMA IndexInvStep == IndexInv /\ [IndexNext]_indexVars => IndexInv'
<1> SUFFICES ASSUME IndexInv, [IndexNext]_indexVars PROVE IndexInv'
  OBVIOUS
<1>1. IndexTypeOK'
  BY IndexTypeStep DEF IndexInv
<1>2. overwritten => overwritten'
  BY DEF IndexNext, indexVars, seenBefore, AddEntry, Clean, Die, EndRetry, Enter,
       EnterInFile, LogFailure, Look, LoosePublish, Publish, ReadEntries, Refuse,
       ReleaseIndexLock, RetryJobs, Sweep, Take, WriteThrows, WriteCopy, Materialize, WriteManifest, LockAges
<1> QED
  BY <1>1, <1>2, OrderlyStep DEF IndexInv

LEMMA IndexInvariant == IndexSpec => []IndexInv
BY IndexInvInit, IndexInvStep, PTL DEF IndexSpec

\* Every process, wherever it dies, leaves files and locks in their shape.
THEOREM IndexTypeInvariant == IndexSpec => []IndexTypeOK
<1>1. IndexInv => IndexTypeOK
  BY DEF IndexInv
<1> QED
  BY <1>1, IndexInvariant, PTL

\* As long as no lock has been written over, no materialization of the index
\* takes back what another one published.
THEOREM NeverOlderStays == IndexSpec => NeverOlder
<1>1. ASSUME IndexInv, [IndexNext]_indexVars, ~overwritten
      PROVE  published \subseteq published'
  <2>1. ASSUME NEW p \in Curators, Publish(p) PROVE published \subseteq published'
    BY <1>1, <2>1 DEF Publish, Due, SetFile, IndexInv, Orderly, Current, Newer
  <2>2. ~(\E p \in Curators : Publish(p)) => published' = published
    BY <1>1 DEF IndexNext, indexVars, seenBefore, LockAges,
       AddEntry, Enter, Materialize, WriteManifest, EnterInFile, RetryJobs, Clean, Look,
       Refuse, Take, ReadEntries,
       WriteCopy, WriteThrows, Sweep, LogFailure, ReleaseIndexLock, EndRetry, LoosePublish, Die
  <2> QED
    BY <2>1, <2>2
<1>2. IndexInv /\ [IndexNext]_indexVars
        => [~overwritten => published \subseteq published']_indexVars
  BY <1>1
<1> QED
  BY <1>2, IndexInvariant, PTL DEF NeverOlder, IndexSpec

\* A retry never gets a failed job through by the lock it holds itself.
THEOREM RetryStays == IndexSpec => RetryMeetsItself
<1>1. ASSUME IndexInv, [IndexNext]_indexVars, failedJobs, ~failedJobs'
      PROVE  overwritten
  <2>1. PICK p \in Curators : ReleaseIndexLock(p)
    BY <1>1 DEF IndexNext, indexVars, seenBefore, LockAges,
       AddEntry, Enter, Materialize, WriteManifest, EnterInFile, RetryJobs, Clean, Look,
       Refuse, Take, ReadEntries,
       WriteCopy, Publish, WriteThrows, Sweep, LogFailure, EndRetry, LoosePublish, Die
  <2>2. retrying[p] = "inside" /\ step[p] \in {"release", "release failed"}
    BY <1>1, <2>1 DEF ReleaseIndexLock, Due
  <2> QED
    BY <1>1, <2>2 DEF IndexInv, Orderly, Outside
<1>2. IndexInv /\ [IndexNext]_indexVars
        => [failedJobs /\ ~failedJobs' => overwritten]_indexVars
  BY <1>1
<1> QED
  BY <1>2, IndexInvariant, PTL DEF RetryMeetsItself, IndexSpec

-----------------------------------------------------------------------------
(* The archival: what an archiver is about to write back may be old, but what *)
(* it lacks is in a snapshot.                                                 *)

\* Some snapshot has the task.
Snapped(t) == \E v \in DagVersions : KeptIn(t, snapshots[v])

\* What an archiver did not find in the file, or is about to take out of it,
\* is in a snapshot.
Covered(a) ==
    \A t \in DagEntries :
        /\ access[a] \in {"snapshot", "trim"} /\ readTasks[a][t] = "gone" => Snapped(t)
        /\ access[a] = "trim" /\ readTasks[a][t] = "aged" => Snapped(t)

Accounted ==
    /\ \A t \in DagEntries : KeptIn(t, hot) \/ Snapped(t)
    /\ \A a \in Archivers : Covered(a)

ArchiveInv == ArchiveTypeOK /\ (rewritten \/ Accounted)

\* Empty files are files.
LEMMA EmptyFiles == NoTasks \in Tasks /\ NoIndex \in TaskIndex
<1>1. NoTasks \in Tasks
  BY DEF NoTasks, Tasks, DagStatus
<1>2. NoIndex \in TaskIndex
  BY DEF NoIndex, TaskIndex
<1> QED
  BY <1>1, <1>2

LEMMA ArchiveInvInit == ArchiveInit => ArchiveInv
<1> SUFFICES ASSUME ArchiveInit PROVE ArchiveInv
  OBVIOUS
<1>1. 0 \in DagVersions
  BY ArchiveAssumption DEF DagVersions
<1>2. [t \in DagEntries |-> "pending"] \in Tasks
  BY DEF Tasks, DagStatus
<1>3. ArchiveTypeOK
  BY <1>1, <1>2, EmptyFiles DEF ArchiveInit, ArchiveTypeOK
<1>4. Accounted
  BY DEF ArchiveInit, Accounted, Covered, KeptIn
<1> QED
  BY <1>3, <1>4 DEF ArchiveInv

\* The tasks without the aged ones are tasks.
LEMMA TrimmedType == ASSUME NEW tasks \in Tasks PROVE Trimmed(tasks) \in Tasks
BY DEF Trimmed, Tasks, DagStatus

LEMMA ArchiveTypeStep == ArchiveTypeOK /\ [ArchiveNext]_archiveVars => ArchiveTypeOK'
<1> SUFFICES ASSUME ArchiveTypeOK, [ArchiveNext]_archiveVars PROVE ArchiveTypeOK'
  OBVIOUS
<1> 0 \in DagVersions
  BY ArchiveAssumption DEF DagVersions
<1> USE DEF ArchiveTypeOK, Access
<1> NoTasks \in Tasks /\ NoIndex \in TaskIndex
  BY EmptyFiles
<1>1. CASE UNCHANGED archiveVars
  BY <1>1 DEF archiveVars, fileVars
<1>2. CASE PlannerEdits
  <2>1. hotVersion' \in DagVersions
    <3>1. hotVersion' = hotVersion \/ (hotVersion < MaxVersion /\ hotVersion' = hotVersion + 1)
      BY <1>2 DEF PlannerEdits
    <3> HIDE DEF ArchiveTypeOK
    <3>2. hotVersion \in 0..MaxVersion
      BY DEF ArchiveTypeOK, DagVersions
    <3> QED
      BY <3>1, <3>2, ArchiveAssumption DEF DagVersions
  <2>2. hot' \in Tasks
    BY <1>2 DEF PlannerEdits, Tasks, DagStatus
  <2> QED
    BY <1>2, <2>1, <2>2 DEF PlannerEdits
<1>3. CASE TaskAges
  <2>1. hot' \in Tasks
    BY <1>3 DEF TaskAges, Tasks, DagStatus
  <2> QED
    BY <1>3, <2>1 DEF TaskAges
<1>4. ASSUME NEW a \in Archivers, BeginArchival(a) PROVE ArchiveTypeOK'
  BY <1>4 DEF BeginArchival, fileVars
<1>5. ASSUME NEW a \in Archivers, ReadDag(a) PROVE ArchiveTypeOK'
  BY <1>5 DEF ReadDag, fileVars
<1>6. ASSUME NEW a \in Archivers, WriteSnapshot(a) PROVE ArchiveTypeOK'
  BY <1>6 DEF WriteSnapshot
<1>7. ASSUME NEW a \in Archivers, WriteDag(a) PROVE ArchiveTypeOK'
  BY <1>7, TrimmedType DEF WriteDag
<1>8. ASSUME NEW a \in Archivers, ReadIndex(a) PROVE ArchiveTypeOK'
  <2>1. [t \in DagEntries |-> IF readTasks[a][t] = "aged" THEN named[a] ELSE dagIndex[t]]
          \in TaskIndex
    BY DEF TaskIndex
  <2> QED
    BY <1>8, <2>1 DEF ReadIndex, fileVars
<1>9. ASSUME NEW a \in Archivers, TruncateIndex(a) PROVE ArchiveTypeOK'
  BY <1>9 DEF TruncateIndex
<1>10. ASSUME NEW a \in Archivers, WriteIndex(a) PROVE ArchiveTypeOK'
  BY <1>10 DEF WriteIndex
<1>11. ASSUME NEW a \in Archivers, ArchiverDies(a) PROVE ArchiveTypeOK'
  BY <1>11 DEF ArchiverDies, fileVars
<1> QED
  BY <1>1, <1>2, <1>3, <1>4, <1>5, <1>6, <1>7, <1>8, <1>9, <1>10, <1>11 DEF ArchiveNext

\* A step that keeps every snapshot, keeps the file's tasks in the file, and
\* leaves nobody before a write with tasks it had not before.
LEMMA NothingTaken ==
  ASSUME Accounted, UNCHANGED snapshots,
         \A t \in DagEntries : KeptIn(t, hot) => KeptIn(t, hot')
  PROVE  /\ \A t \in DagEntries : KeptIn(t, hot') \/ Snapped(t)'
         /\ \A b \in Archivers : UNCHANGED <<access[b], readTasks[b]>> => Covered(b)'
         /\ \A b \in Archivers : access'[b] \notin {"snapshot", "trim"} => Covered(b)'
BY DEF Accounted, Covered, Snapped, KeptIn

\* A snapshot written where there was none keeps what the others keep.
LEMMA SnapshotsGrow ==
  ASSUME ArchiveTypeOK, NEW a \in Archivers, WriteSnapshot(a), ~rewritten'
  PROVE  /\ \A t \in DagEntries : Snapped(t) => Snapped(t)'
         /\ \A t \in DagEntries : KeptIn(t, readTasks[a]) => Snapped(t)'
<1>1. /\ snapshots[named[a]] = NoTasks /\ named[a] \in DagVersions
      /\ snapshots' = [snapshots EXCEPT ![named[a]] = readTasks[a]]
  BY DEF WriteSnapshot, ArchiveTypeOK
<1>2. /\ snapshots'[named[a]] = readTasks[a]
      /\ \A v \in DagVersions \ {named[a]} : snapshots'[v] = snapshots[v]
  BY <1>1 DEF ArchiveTypeOK
<1> QED
  BY <1>1, <1>2 DEF Snapped, KeptIn, NoTasks

\* No step loses a task or lets an archiver forget one, until a snapshot is
\* written over another.
LEMMA AccountedStep ==
  ASSUME ArchiveTypeOK, Accounted, [ArchiveNext]_archiveVars, ~rewritten'
  PROVE  Accounted'
<1> USE DEF Access
<1>a. /\ hot \in Tasks /\ readTasks \in [Archivers -> Tasks]
      /\ access = [b \in Archivers |-> access[b]]
  BY DEF ArchiveTypeOK
<1>1. CASE UNCHANGED archiveVars
  BY <1>1 DEF archiveVars, fileVars, Accounted, Covered, Snapped, KeptIn
<1>2. CASE PlannerEdits \/ TaskAges
  <2>1. UNCHANGED <<snapshots, access, readTasks>>
    BY <1>2 DEF PlannerEdits, TaskAges
  <2>2. \A t \in DagEntries : KeptIn(t, hot) => KeptIn(t, hot')
    BY <1>2, <1>a DEF PlannerEdits, TaskAges, KeptIn, Tasks
  <2> QED
    BY <2>1, <2>2, NothingTaken DEF Accounted
<1> SUFFICES ASSUME NEW a \in Archivers,
                    \/ BeginArchival(a) \/ ReadDag(a) \/ WriteSnapshot(a) \/ WriteDag(a)
                    \/ ReadIndex(a) \/ TruncateIndex(a) \/ WriteIndex(a) \/ ArchiverDies(a)
             PROVE  Accounted'
  BY <1>1, <1>2 DEF ArchiveNext
<1>b. \A b \in Archivers \ {a} : UNCHANGED <<access[b], readTasks[b]>>
  BY <1>a DEF BeginArchival, ReadDag, WriteSnapshot, WriteDag, ReadIndex, TruncateIndex,
              WriteIndex, ArchiverDies
<1>3. CASE \/ BeginArchival(a) \/ ReadIndex(a) \/ TruncateIndex(a) \/ WriteIndex(a)
           \/ ArchiverDies(a)
  <2>1. UNCHANGED <<snapshots, hot>> /\ access'[a] \notin {"snapshot", "trim"}
    BY <1>3, <1>a DEF BeginArchival, ReadIndex, TruncateIndex, WriteIndex, ArchiverDies,
                      fileVars
  <2> QED
    BY <1>b, <2>1, NothingTaken DEF Accounted
<1>4. CASE ReadDag(a)
  <2>1. UNCHANGED <<snapshots, hot>> /\ access'[a] = "snapshot" /\ readTasks'[a] = hot
    BY <1>4, <1>a DEF ReadDag, fileVars
  <2>2. Covered(a)'
    BY <2>1 DEF Accounted, Covered, Snapped, KeptIn
  <2> QED
    BY <1>b, <2>1, <2>2, NothingTaken DEF Accounted
<1>5. CASE WriteSnapshot(a)
  <2>1. /\ access[a] = "snapshot" /\ UNCHANGED <<hot, readTasks>>
        /\ \A t \in DagEntries : Snapped(t) => Snapped(t)'
        /\ \A t \in DagEntries : KeptIn(t, readTasks[a]) => Snapped(t)'
    BY <1>5, SnapshotsGrow DEF WriteSnapshot
  <2>2. \A t \in DagEntries : Snapped(t)'
    BY <2>1 DEF Accounted, Covered, KeptIn
  <2> QED
    BY <2>2 DEF Accounted, Covered
<1>6. CASE WriteDag(a)
  <2>1. /\ access[a] = "trim" /\ access'[a] = "read index"
        /\ hot' = Trimmed(readTasks[a]) /\ UNCHANGED <<snapshots, readTasks>>
    BY <1>6, <1>a DEF WriteDag
  <2>2. \A t \in DagEntries : KeptIn(t, hot') \/ Snapped(t)'
    BY <2>1 DEF Trimmed, KeptIn, Accounted, Covered, Snapped
  <2>3. \A b \in Archivers : Covered(b)'
    BY <1>b, <2>1 DEF Accounted, Covered, Snapped
  <2> QED
    BY <2>2, <2>3 DEF Accounted
<1> QED
  BY <1>3, <1>4, <1>5, <1>6

LEMMA ArchiveInvStep == ArchiveInv /\ [ArchiveNext]_archiveVars => ArchiveInv'
<1>1. [ArchiveNext]_archiveVars /\ rewritten /\ ArchiveTypeOK => rewritten'
  BY DEF ArchiveTypeOK, ArchiveNext, archiveVars, BeginArchival, ReadDag, WriteSnapshot,
         WriteDag, ReadIndex, TruncateIndex, WriteIndex, ArchiverDies, PlannerEdits, TaskAges
<1> QED
  BY <1>1, ArchiveTypeStep, AccountedStep DEF ArchiveInv

LEMMA ArchiveInvariant == ArchiveSpec => []ArchiveInv
BY ArchiveInvInit, ArchiveInvStep, PTL DEF ArchiveSpec

\* However archivers overlap and die and agents edit, the files keep their shape.
THEOREM ArchiveTypeInvariant == ArchiveSpec => []ArchiveTypeOK
<1>1. ArchiveInv => ArchiveTypeOK
  BY DEF ArchiveInv
<1> QED
  BY <1>1, ArchiveInvariant, PTL

\* For any number of archivers, tasks and versions: as long as no snapshot is
\* written over an older one, no interleaving of archivers, deaths and edits
\* loses a task, although each archiver writes back what it read steps ago.
THEOREM NoTaskLost == ArchiveSpec => []MovedNotLost
<1>1. ArchiveInv => MovedNotLost
  BY DEF ArchiveInv, Accounted, Snapped, MovedNotLost
<1> QED
  BY <1>1, ArchiveInvariant, PTL

-----------------------------------------------------------------------------
(* The composition.  As in SessionProofs, a behaviour of it is one of every  *)
(* service.                                                                  *)

LEMMA EachPartRuns ==
    FilesSpec => /\ TxnSpec /\ FileGuardSpec /\ MigrationsSpec
                 /\ IndexSpec /\ ArchiveSpec
<1>1. FilesInit => /\ TxnInit /\ FileGuardInit /\ MigrationsInit
                   /\ IndexInit /\ ArchiveInit
  BY DEF FilesInit
<1>2. [FilesNext]_filesVars =>
        /\ [TxnNext]_txnVars /\ [FileGuardNext]_fileGuardVars
        /\ [MigrationsNext]_migrationVars /\ [IndexNext]_indexVars
        /\ [ArchiveNext]_archiveVars
  BY DEF FilesNext, Only, filesVars
<1> QED
  BY <1>1, <1>2, PTL
     DEF FilesSpec, TxnSpec, FileGuardSpec, MigrationsSpec, IndexSpec, ArchiveSpec

\* Files, logs, locks and schema keep their shape, for any transactions, files,
\* processes, documents and tasks at once.
THEOREM FilesTypeInvariant == FilesSpec => []FilesTypeOK
<1> DEFINE Parts == {"transactions", "fileGuard", "migrations", "index", "dag"}
<1>1. part \in Parts /\ [FilesNext]_filesVars => (part \in Parts)'
  BY DEF FilesNext, Only, filesVars
<1>2. FilesInit => part \in Parts
  BY DEF FilesInit
<1>3. FilesSpec => [](part \in Parts)
  <2> HIDE DEF Parts
  <2> QED
    BY <1>1, <1>2, PTL DEF FilesSpec
<1>4. /\ part \in Parts
      /\ TxnTypeOK /\ FileGuardTypeOK /\ MigrationsTypeOK /\ IndexTypeOK /\ ArchiveTypeOK
      => FilesTypeOK
  BY DEF FilesTypeOK
<1> HIDE DEF Parts
<1> QED
  BY <1>3, <1>4, EachPartRuns, TxnTypeInvariant, FileGuardTypeInvariant,
     MigrationsTypeInvariant, IndexTypeInvariant, ArchiveTypeInvariant, PTL
=============================================================================
