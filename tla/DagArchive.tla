----------------------------- MODULE DagArchive -----------------------------
(***************************************************************************)
(* The archival of finished tasks (service/dispatch/dag-version-manager):  *)
(* a copy of Task.DAG.json is kept as the snapshot of a version, completed *)
(* tasks of more than two weeks are taken out of the file, and an index    *)
(* says in which snapshot they are.  Two scripts do this, by night or by   *)
(* hand, while planners edit the file; nothing locks it.                   *)
(*                                                                         *)
(* A script runs to its end within its process; an action is one of its    *)
(* accesses to a file, at each of which the process may die.  File and     *)
(* snapshots are replaced by a rename; the index is written in place.      *)
(***************************************************************************)
EXTENDS Naturals

CONSTANTS
    Archivers,      \* processes that archive
    DagEntries,     \* tasks
    MaxVersion      \* bound on the versions planners get to

ASSUME ArchiveAssumption == MaxVersion \in Nat

VARIABLES
    hotVersion,     \* Task.DAG.json: version
    hot,            \* and tasks
    snapshots,      \* Task.DAG.versions
    dagIndex,       \* Task.DAG.index.json
    access,         \* the next access of each archiver
    named,          \* the version it was called with
    readTasks,      \* the tasks it has read
    readIndex,      \* the index it has read
    rewritten       \* history: a snapshot has been written over an older one

fileVars == <<hotVersion, hot, snapshots, dagIndex>>
archiveVars == <<fileVars, access, named, readTasks, readIndex, rewritten>>

DagVersions == 0..MaxVersion
NoVersion == MaxVersion + 1

\* Aged: completed more than RECENT_DAYS ago.  Gone: not in this file.
DagStatus == {"pending", "completed", "aged", "gone"}
Tasks == [DagEntries -> DagStatus]
NoTasks == [t \in DagEntries |-> "gone"]

TaskIndex == [DagEntries -> DagVersions \cup {NoVersion}]
NoIndex == [t \in DagEntries |-> NoVersion]

\* A file that a dead process left behind empty is read as no index.
ArchiveTypeOK ==
    /\ hotVersion \in DagVersions /\ hot \in Tasks
    /\ snapshots \in [DagVersions -> Tasks] /\ dagIndex \in TaskIndex
    /\ access \in [Archivers -> {"idle", "read", "snapshot", "trim",
                                 "read index", "truncate index", "write index"}]
    /\ named \in [Archivers -> DagVersions]
    /\ readTasks \in [Archivers -> Tasks] /\ readIndex \in [Archivers -> TaskIndex]
    /\ rewritten \in BOOLEAN

ArchiveInit ==
    /\ hotVersion = 0 /\ hot = [t \in DagEntries |-> "pending"]
    /\ snapshots = [v \in DagVersions |-> NoTasks] /\ dagIndex = NoIndex
    /\ access = [a \in Archivers |-> "idle"]
    /\ named = [a \in Archivers |-> 0]
    /\ readTasks = [a \in Archivers |-> NoTasks]
    /\ readIndex = [a \in Archivers |-> NoIndex]
    /\ rewritten = FALSE

-----------------------------------------------------------------------------
Access(a, here, there) == access[a] = here /\ access' = [access EXCEPT ![a] = there]

AgedIn(tasks) == {t \in DagEntries : tasks[t] = "aged"}

\* tasksToKeep: the tasks but the aged ones.
Trimmed(tasks) == [t \in DagEntries |-> IF tasks[t] = "aged" THEN "gone" ELSE tasks[t]]

\* Mutant: only what stays in the file goes into the snapshot.
TrimmedSnapshot(a) ==
    /\ Access(a, "snapshot", "trim")
    /\ snapshots' = [snapshots EXCEPT ![named[a]] = Trimmed(readTasks[a])]
    /\ rewritten' = (rewritten \/ snapshots[named[a]] # NoTasks)
    /\ UNCHANGED <<hotVersion, hot, dagIndex, named, readTasks, readIndex>>

\* The look of the calling script: nothing to do, or a call that names the
\* version of the file twice.
BeginArchival(a) ==
    /\ AgedIn(hot) # {}
    /\ Access(a, "idle", "read")
    /\ named' = [named EXCEPT ![a] = hotVersion]
    /\ UNCHANGED <<fileVars, readTasks, readIndex, rewritten>>

\* readDAG.
ReadDag(a) ==
    /\ Access(a, "read", "snapshot")
    /\ readTasks' = [readTasks EXCEPT ![a] = hot]
    /\ UNCHANGED <<fileVars, named, readIndex, rewritten>>

\* writeSnapshot, over the one there is.
WriteSnapshot(a) ==
    /\ Access(a, "snapshot", "trim")
    /\ snapshots' = [snapshots EXCEPT ![named[a]] = readTasks[a]]
    /\ rewritten' = (rewritten \/ snapshots[named[a]] # NoTasks)
    /\ UNCHANGED <<hotVersion, hot, dagIndex, named, readTasks, readIndex>>

\* writeDAG: the tasks read but the aged ones, under the version named; then
\* the changelog, which nothing else depends on.
WriteDag(a) ==
    /\ Access(a, "trim", "read index")
    /\ hot' = Trimmed(readTasks[a])
    /\ hotVersion' = named[a]
    /\ UNCHANGED <<snapshots, dagIndex, named, readTasks, readIndex, rewritten>>

\* updateTaskIndex: read it, enter the archived tasks, write it in place.
ReadIndex(a) ==
    /\ Access(a, "read index", "truncate index")
    /\ readIndex' = [readIndex EXCEPT ![a] =
                      [t \in DagEntries |-> IF readTasks[a][t] = "aged" THEN named[a]
                                            ELSE dagIndex[t]]]
    /\ readTasks' = [readTasks EXCEPT ![a] = NoTasks]
    /\ UNCHANGED <<fileVars, named, rewritten>>

TruncateIndex(a) ==
    /\ Access(a, "truncate index", "write index")
    /\ dagIndex' = NoIndex
    /\ UNCHANGED <<hotVersion, hot, snapshots, named, readTasks, readIndex, rewritten>>

WriteIndex(a) ==
    /\ Access(a, "write index", "idle")
    /\ dagIndex' = readIndex[a]
    /\ named' = [named EXCEPT ![a] = 0]
    /\ readIndex' = [readIndex EXCEPT ![a] = NoIndex]
    /\ UNCHANGED <<hotVersion, hot, snapshots, readTasks, rewritten>>

\* A process dies, or a write throws.
ArchiverDies(a) ==
    /\ access[a] # "idle"
    /\ access' = [access EXCEPT ![a] = "idle"]
    /\ readTasks' = [readTasks EXCEPT ![a] = NoTasks]
    /\ named' = [named EXCEPT ![a] = 0]
    /\ readIndex' = [readIndex EXCEPT ![a] = NoIndex]
    /\ UNCHANGED <<fileVars, rewritten>>

\* Agents edit the file: a task is done, a new version begins.
PlannerEdits ==
    /\ \/ /\ \E t \in DagEntries : hot[t] = "pending" /\ hot' = [hot EXCEPT ![t] = "completed"]
          /\ UNCHANGED hotVersion
       \/ hotVersion < MaxVersion /\ hotVersion' = hotVersion + 1 /\ UNCHANGED hot
    /\ UNCHANGED <<snapshots, dagIndex, access, named, readTasks, readIndex, rewritten>>

\* Two weeks pass.
TaskAges ==
    /\ \E t \in DagEntries : hot[t] = "completed" /\ hot' = [hot EXCEPT ![t] = "aged"]
    /\ UNCHANGED <<hotVersion, snapshots, dagIndex, access, named, readTasks, readIndex,
                   rewritten>>

ArchiveNext ==
    \/ \E a \in Archivers :
          \/ BeginArchival(a) \/ ReadDag(a) \/ WriteSnapshot(a) \/ WriteDag(a)
          \/ ReadIndex(a) \/ TruncateIndex(a) \/ WriteIndex(a) \/ ArchiverDies(a)
    \/ PlannerEdits \/ TaskAges

ArchiveSpec == ArchiveInit /\ [][ArchiveNext]_archiveVars

-----------------------------------------------------------------------------
\* Properties.

KeptIn(t, tasks) == tasks[t] # "gone"

\* Until a snapshot is written over an older one no task is lost: it is in the
\* file or in a snapshot, wherever archivers overlap, die or edits come in
\* ("Only tasks completed >2 weeks ago are moved to version snapshots").
MovedNotLost ==
    rewritten \/ \A t \in DagEntries :
        KeptIn(t, hot) \/ \E v \in DagVersions : KeptIn(t, snapshots[v])

\* What the index calls archived is in the snapshot it names ("Reference to the
\* version snapshot containing full task data").  It does not hold: the scripts
\* pass one version as the old and the new one, so that the next archival writes
\* the file as it is by then over the snapshot, and the task is nowhere.
IndexTrue ==
    \A t \in DagEntries :
        dagIndex[t] # NoVersion => KeptIn(t, snapshots[dagIndex[t]])
=============================================================================
