---------------------------- MODULE AtomicFiles ----------------------------
(***************************************************************************)
(* What scripts/state-transaction.ts promises of a state file: each        *)
(* transaction either replaces its file, once and whole, by its own        *)
(* content, or never touches it, wherever its process dies.                *)
(***************************************************************************)
CONSTANTS
    Txns,       \* transactions
    Files,      \* state files
    FileOf,     \* the file a transaction writes
    Old         \* the content of a file before any of them

VARIABLES
    value,      \* whose content each file has
    outcome     \* what became of each transaction

atomicVars == <<value, outcome>>

AtomicInit ==
    /\ value = [f \in Files |-> Old]
    /\ outcome = [t \in Txns |-> "pending"]

Commit(t) ==
    /\ outcome[t] = "pending"
    /\ outcome' = [outcome EXCEPT ![t] = "committed"]
    /\ value' = [value EXCEPT ![FileOf[t]] = t]

Abort(t) ==
    /\ outcome[t] = "pending"
    /\ outcome' = [outcome EXCEPT ![t] = "aborted"]
    /\ UNCHANGED value

AtomicNext == \E t \in Txns : Commit(t) \/ Abort(t)

AtomicSpec == AtomicInit /\ [][AtomicNext]_atomicVars
=============================================================================
