------------------------------ MODULE MCFiles ------------------------------
(***************************************************************************)
(* The services that own files and the schema of the database, each on a   *)
(* small instance of its own: as in MCSessions, a behaviour chooses one.   *)
(***************************************************************************)
EXTENDS StateTransaction, FileGuard, SchemaMigrations, KnowledgeIndex,
    DagArchive, TLC

CONSTANTS
    gateTxn, machineTxn,                            \* state transactions
    editor, editorB, deleter, restorer, fileA,  \* file guard
    openerA, openerB,                               \* migrations
    curatorA, curatorB,                             \* knowledge index
    nightly, byHand                                 \* archival

MCFileOf == (gateTxn :> "gate") @@ (machineTxn :> "machine")

MCBackupOf == restorer :> editor
MCOn == [p \in Editors \cup Deleters \cup Restorers |-> fileA]

\* A database that the framework's version 24 has left.
MCOldColumns ==
    {<<t, "*">> : t \in {"session_map", "gate_sessions", "dispatch_privilege_grants"}}
        \cup {<<"session_map", "model_id">>}

\* The migrations are written as the proofs ask for.
ASSUME MCWellOrdered == WellOrdered

-----------------------------------------------------------------------------
VARIABLE part   \* the service of this behaviour

FilesInit ==
    /\ part \in {"transactions", "fileGuard", "migrations", "index", "dag"}
    /\ TxnInit /\ FileGuardInit /\ MigrationsInit /\ IndexInit /\ ArchiveInit

Only(service) ==
    /\ part = service /\ part' = part
    /\ service # "transactions" => UNCHANGED txnVars
    /\ service # "fileGuard" => UNCHANGED fileGuardVars
    /\ service # "migrations" => UNCHANGED migrationVars
    /\ service # "index" => UNCHANGED indexVars
    /\ service # "dag" => UNCHANGED archiveVars

FilesNext ==
    \/ part = "transactions" /\ TxnNext /\ Only("transactions")
    \/ part = "fileGuard" /\ FileGuardNext /\ Only("fileGuard")
    \/ part = "migrations" /\ MigrationsNext /\ Only("migrations")
    \/ part = "index" /\ IndexNext /\ Only("index")
    \/ part = "dag" /\ ArchiveNext /\ Only("dag")

filesVars ==
    <<part, txnVars, fileGuardVars, migrationVars, indexVars, archiveVars>>

FilesSpec == FilesInit /\ [][FilesNext]_filesVars

\* Files, logs, locks and schema keep the shape the code gives them.
FilesTypeOK ==
    CASE part = "transactions" -> TxnTypeOK
      [] part = "fileGuard" -> FileGuardTypeOK
      [] part = "migrations" -> MigrationsTypeOK
      [] part = "index" -> IndexTypeOK
      [] part = "dag" -> ArchiveTypeOK
=============================================================================
