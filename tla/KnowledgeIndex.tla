--------------------------- MODULE KnowledgeIndex ---------------------------
(***************************************************************************)
(* The knowledge manifest (service/knowledge): documents are entered in    *)
(* the database, and the whole of it is then materialized to the file      *)
(* docs/official_docs/index.json under a lock file with a time limit.      *)
(* Nothing asks whose lock it is: a busy lock refuses, an old one is       *)
(* written over, and whoever is done removes the one there is.  The        *)
(* fallback of addEntry and the two cleanups replace the file without it.  *)
(*                                                                         *)
(* The functions run to their end within a process; an action is one of    *)
(* their accesses to the file system or the database, between which other  *)
(* processes' come and at each of which the process may die.               *)
(***************************************************************************)
EXTENDS FiniteSets

CONSTANTS
    Curators,       \* processes
    Docs,           \* entries of the manifest
    NoTmp           \* no such file

\* The temporary file that the cleanups share; a materialization names its own.
Cleaner == "index.json.tmp"

ASSUME IndexAssumption ==
    Cleaner \notin Curators /\ \A docs \in SUBSET Docs : NoTmp # docs

VARIABLES
    entries,        \* knowledge_entries with their files and tags
    manifest,       \* index.json
    indexLock,      \* the lock file
    copyFile,       \* temporary files: one per process, one of the cleanups
    failedJobs,     \* a failed row in knowledge_materialization_jobs
    step,           \* the next access of each process
    copy,           \* what a process has read
    retrying,       \* whether a process is in retryFailedJobs, before or inside its lock
    \* history.
    published,      \* the last copy that a materialization made the index
    overwritten     \* a lock has been taken over an existing one

seenBefore == <<published, overwritten>>
indexVars == <<entries, manifest, indexLock, copyFile, failedJobs, step, copy, retrying,
               published, overwritten>>

TmpNames == Curators \cup {Cleaner}

Accesses == {"idle", "look", "take", "read", "write", "rename", "sweep", "log failure",
             "release", "release failed", "end", "loose write", "loose rename",
             "clean write", "clean rename"}

IndexTypeOK ==
    /\ entries \subseteq Docs /\ manifest \subseteq Docs /\ published \subseteq Docs
    /\ indexLock \in {"none", "fresh", "stale"}
    /\ copyFile \in [TmpNames -> {NoTmp} \cup SUBSET Docs]
    /\ failedJobs \in BOOLEAN /\ overwritten \in BOOLEAN
    /\ step \in [Curators -> Accesses]
    /\ copy \in [Curators -> SUBSET Docs]
    /\ retrying \in [Curators -> {"no", "before", "inside"}]

IndexInit ==
    /\ entries = {} /\ manifest = {} /\ published = {}
    /\ indexLock = "none"
    /\ copyFile = [n \in TmpNames |-> NoTmp]
    /\ failedJobs = FALSE /\ overwritten = FALSE
    /\ step = [p \in Curators |-> "idle"]
    /\ copy = [p \in Curators |-> {}]
    /\ retrying = [p \in Curators |-> "no"]

-----------------------------------------------------------------------------
Due(p, here) == step[p] = here
Goto(p, there) == step' = [step EXCEPT ![p] = there]
Hold(p, docs) == copy' = [copy EXCEPT ![p] = docs]
SetFile(n, docs) == copyFile' = [copyFile EXCEPT ![n] = docs]

Enter(p, docs) ==
    /\ Due(p, "idle")
    /\ entries' = entries \cup docs
    /\ Goto(p, "look")
    /\ UNCHANGED <<manifest, indexLock, copyFile, failedJobs, copy, retrying, seenBefore>>

\* addEntry: upsertEntryInDb, and the materialization that follows.
AddEntry(p, d) == Enter(p, {d})

\* materializeToFile, the maintainers' command.
Materialize(p) == Enter(p, {})

\* writeManifest enters again what its caller got from readManifest and kept.
WriteManifest(p, docs) == docs # {} /\ Enter(p, docs)

\* readManifest: the database, or the file when that cannot be read.
Manifests == {entries, manifest}

\* The fallback of addEntry when the upsert fails: the file alone.
EnterInFile(p, d) ==
    /\ Due(p, "idle")
    /\ \E known \in Manifests : Hold(p, known \cup {d})
    /\ Goto(p, "loose write")
    /\ UNCHANGED <<entries, manifest, indexLock, copyFile, failedJobs, retrying, seenBefore>>

\* retryFailedJobs.
RetryJobs(p) ==
    /\ Due(p, "idle")
    /\ retrying' = [retrying EXCEPT ![p] = "before"]
    /\ Goto(p, "look")
    /\ UNCHANGED <<entries, manifest, indexLock, copyFile, failedJobs, copy, seenBefore>>

\* runJanitor or nightlyCompaction: what remains of the index read.
Clean(p, kept) ==
    /\ Due(p, "idle")
    /\ kept \subseteq manifest
    /\ Hold(p, kept)
    /\ Goto(p, "clean write")
    /\ UNCHANGED <<entries, manifest, indexLock, copyFile, failedJobs, retrying, seenBefore>>

\* Mutant: the finally that removes the lock covers the refusal too.
RefuseAndRelease(p) ==
    /\ IF retrying[p] = "inside"
       THEN Goto(p, "end") \/ Goto(p, "look")
       ELSE Goto(p, "idle")
    /\ retrying' = [retrying EXCEPT ![p] = IF @ = "before" THEN "no" ELSE @]
    /\ indexLock' = "none"

\* The look of acquireMaterializationLock finds a fresh lock.  The
\* materialization within a retry meets the lock of the retry itself, once for
\* every failed job.
Refuse(p) ==
    /\ IF retrying[p] = "inside"
       THEN Goto(p, "end") \/ Goto(p, "look")
       ELSE Goto(p, "idle")
    /\ retrying' = [retrying EXCEPT ![p] = IF @ = "before" THEN "no" ELSE @]
    /\ UNCHANGED indexLock

\* Mutant: the retry's own lock lets it in.
LookInside(p) ==
    /\ Due(p, "look")
    /\ \/ indexLock = "fresh" /\ retrying[p] # "inside" /\ Refuse(p)
       \/ indexLock # "fresh" /\ Goto(p, "take") /\ UNCHANGED <<indexLock, retrying>>
       \/ retrying[p] = "inside" /\ Goto(p, "read") /\ UNCHANGED <<indexLock, retrying>>
    /\ UNCHANGED <<entries, manifest, copyFile, failedJobs, copy, seenBefore>>

Look(p) ==
    /\ Due(p, "look")
    /\ \/ indexLock = "fresh" /\ Refuse(p)
       \/ indexLock # "fresh" /\ Goto(p, "take") /\ UNCHANGED <<indexLock, retrying>>
    /\ UNCHANGED <<entries, manifest, copyFile, failedJobs, copy, seenBefore>>

\* Its write, of whatever is there by now.
Take(p) ==
    /\ Due(p, "take")
    /\ indexLock' = "fresh"
    /\ overwritten' = (overwritten \/ indexLock # "none")
    /\ IF retrying[p] = "before"
       THEN /\ retrying' = [retrying EXCEPT ![p] = "inside"]
            /\ Goto(p, IF failedJobs THEN "look" ELSE "end")
       ELSE Goto(p, "read") /\ UNCHANGED retrying
    /\ UNCHANGED <<entries, manifest, copyFile, failedJobs, copy, published>>

\* materializeManifestFromDb: read the database, write the temporary file,
\* rename it, remove every other one; an error is logged as a failed job.
ReadEntries(p) ==
    /\ Due(p, "read")
    /\ \/ Hold(p, entries) /\ Goto(p, "write")
       \/ Goto(p, "log failure") /\ UNCHANGED copy
    /\ UNCHANGED <<entries, manifest, indexLock, copyFile, failedJobs, retrying, seenBefore>>

WriteCopy(p) ==
    /\ \/ Due(p, "write") /\ Goto(p, "rename") /\ SetFile(p, copy[p])
       \/ Due(p, "loose write") /\ Goto(p, "loose rename") /\ SetFile(p, copy[p])
       \/ Due(p, "clean write") /\ Goto(p, "clean rename") /\ SetFile(Cleaner, copy[p])
    /\ Hold(p, {})
    /\ UNCHANGED <<entries, manifest, indexLock, failedJobs, retrying, seenBefore>>

Publish(p) ==
    /\ Due(p, "rename")
    /\ IF copyFile[p] = NoTmp
       THEN Goto(p, "log failure") /\ UNCHANGED <<manifest, copyFile, published>>
       ELSE /\ manifest' = copyFile[p] /\ published' = copyFile[p]
            /\ SetFile(p, NoTmp)
            /\ Goto(p, "sweep")
    /\ UNCHANGED <<entries, indexLock, failedJobs, copy, retrying, overwritten>>

\* The write or the rename throws: the catch logs it.  A file it leaves has a
\* name that holds the time, so nobody renames it any more.
WriteThrows(p) ==
    /\ Due(p, "write") \/ Due(p, "rename")
    /\ Hold(p, {}) /\ SetFile(p, NoTmp)
    /\ Goto(p, "log failure")
    /\ UNCHANGED <<entries, manifest, indexLock, failedJobs, retrying, seenBefore>>

Sweep(p) ==
    /\ Due(p, "sweep")
    /\ copyFile' = [n \in TmpNames |-> NoTmp]
    /\ Goto(p, "release")
    /\ UNCHANGED <<entries, manifest, indexLock, failedJobs, copy, retrying, seenBefore>>

\* insertMaterializationJob keeps its own errors to itself.
LogFailure(p) ==
    /\ Due(p, "log failure")
    /\ failedJobs' \in {failedJobs, TRUE}
    /\ Goto(p, "release failed")
    /\ UNCHANGED <<entries, manifest, indexLock, copyFile, copy, retrying, seenBefore>>

\* releaseMaterializationLock at the end of a materialization; a retry that got
\* one through marks its job superseded and goes on to the next.
ReleaseIndexLock(p) ==
    /\ Due(p, "release") \/ Due(p, "release failed")
    /\ indexLock' = "none"
    /\ IF retrying[p] = "inside"
       THEN \/ Goto(p, "look") /\ UNCHANGED failedJobs
            \/ Goto(p, "end") /\ failedJobs' = (failedJobs /\ Due(p, "release failed"))
       ELSE Goto(p, "idle") /\ UNCHANGED failedJobs
    /\ UNCHANGED <<entries, manifest, copyFile, copy, retrying, seenBefore>>

\* The finally of retryFailedJobs.
EndRetry(p) ==
    /\ Due(p, "end")
    /\ indexLock' = "none"
    /\ retrying' = [retrying EXCEPT ![p] = "no"]
    /\ Goto(p, "idle")
    /\ UNCHANGED <<entries, manifest, copyFile, failedJobs, copy, seenBefore>>

\* The renames of the fallback and of the cleanups, which share one file.
LoosePublish(p) ==
    /\ Due(p, "loose rename") \/ Due(p, "clean rename")
    /\ LET n == IF Due(p, "clean rename") THEN Cleaner ELSE p
       IN  IF copyFile[n] = NoTmp
           THEN UNCHANGED <<manifest, copyFile>>
           ELSE manifest' = copyFile[n] /\ SetFile(n, NoTmp)
    /\ Goto(p, "idle")
    /\ UNCHANGED <<entries, indexLock, failedJobs, copy, retrying, seenBefore>>

\* A process ends anywhere.  What it leaves under its own name nobody reads; the
\* file of the fixed name Cleaner stays.
Die(p) ==
    /\ ~Due(p, "idle")
    /\ Goto(p, "idle")
    /\ Hold(p, {}) /\ SetFile(p, NoTmp)
    /\ retrying' = [retrying EXCEPT ![p] = "no"]
    /\ UNCHANGED <<entries, manifest, indexLock, failedJobs, seenBefore>>

\* The time limit passes, whether or not the process that took it is still there.
LockAges ==
    /\ indexLock = "fresh"
    /\ indexLock' = "stale"
    /\ UNCHANGED <<entries, manifest, copyFile, failedJobs, step, copy, retrying, seenBefore>>

IndexNext ==
    \/ \E p \in Curators :
          \/ \E d \in Docs : AddEntry(p, d) \/ EnterInFile(p, d)
          \/ \E docs \in SUBSET manifest : WriteManifest(p, docs) \/ Clean(p, docs)
          \/ Materialize(p) \/ RetryJobs(p) \/ Look(p) \/ Take(p) \/ ReadEntries(p)
          \/ WriteCopy(p) \/ Publish(p) \/ WriteThrows(p) \/ Sweep(p) \/ LogFailure(p)
          \/ ReleaseIndexLock(p) \/ EndRetry(p) \/ LoosePublish(p) \/ Die(p)
    \/ LockAges

IndexSpec == IndexInit /\ [][IndexNext]_indexVars

-----------------------------------------------------------------------------
\* Properties.

\* A materialization never replaces what another one published by an older
\* state of the database, as long as no lock has been written over: only an
\* expired lock, or two looks before one write, lets two of them in
\* ("Acquire materialization lock to prevent concurrent writes").
NeverOlder == [][~overwritten => published \subseteq published']_indexVars

\* A failed job is superseded only after a lock has been written over: as long
\* as locks are respected, a retry is refused by the lock it holds itself (and not
\* let in "via stale detection", as jobs.ts has it).
RetryMeetsItself == [][failedJobs /\ ~failedJobs' => overwritten]_indexVars
=============================================================================
