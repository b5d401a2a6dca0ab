----------------------- MODULE StateTransactionProofs -----------------------
(***************************************************************************)
(* Proofs about the two-phase writes of state files, for any number of     *)
(* transactions and files, every death of a transaction or of the scan,    *)
(* and scans that run while transactions are under way.                    *)
(***************************************************************************)
EXTENDS StateTransaction, FiniteSetTheorems, TLAPS

-----------------------------------------------------------------------------
(* The invariants the properties rest on *)

BeforeRename == {"new", "begun", "written", "marking", "marked", "prepared", "backoff",
                 "checked"}
AfterRename == {"renamed", "saved", "logged", "done"}

\* Where the program of a transaction is says whether the file is replaced, but
\* for one that has died or whose commit has thrown.
RenamedSound(t) ==
    /\ pc[t] \in BeforeRename => t \notin renamed
    /\ pc[t] \in AfterRename => t \in renamed

\* The end that a program has written to the log.
LogSound(t) ==
    /\ Logged(t, "COMMIT") => t \in renamed /\ pc[t] \in {"logged", "done", "dead"}
    /\ Logged(t, "ROLLBACK") => pc[t] \in {"undoLogged", "undone", "dead"}
    /\ ~(Logged(t, "COMMIT") /\ Logged(t, "ROLLBACK"))
    /\ Logged(t, "PREPARE") => pc[t] \notin {"new", "begun", "written", "marking", "marked"}
    /\ pc[t] \in {"logged", "done"} => Logged(t, "COMMIT")
    /\ pc[t] \in {"undoLogged", "undone"} => Logged(t, "ROLLBACK")

Ended(t) == \E phase \in {"COMMIT", "ROLLBACK", "RECOVERY_ROLLBACK"} : Logged(t, phase)

\* Until its marker is whole a transaction meets no scan but one that takes the
\* marker for corrupted.
UnmarkedSound(t) ==
    /\ pc[t] \in {"new", "begun", "written"} => marker[t] = "none" /\ scan[t] = "idle"
    /\ pc[t] = "marking" => /\ marker[t] = "torn" \/ t \in discarded
                            /\ marker[t] # "whole" /\ scan[t] \in {"idle", "corrupted"}

\* A marker is there until the log has an end, unless it was discarded.
MarkerSound(t) ==
    /\ marker[t] = "torn" => pc[t] \in {"marking", "dead"} /\ ~Logged(t, "PREPARE")
    /\ pc[t] = "marked" \/ Logged(t, "PREPARE") =>
         marker[t] # "none" \/ Ended(t) \/ t \in discarded

\* What the scan has seen in the log and written to it.
ScanSound(t) ==
    /\ scan[t] \in {"ended", "unmarked"} => Logged(t, "COMMIT") \/ Logged(t, "ROLLBACK")
    /\ scan[t] = "undone" => Logged(t, "RECOVERY_ROLLBACK")

\* The temporary file of a living transaction is whole, and its own unless the
\* file is machine.json.
TmpSound(t) ==
    pc[t] # "dead" => \/ tmp[t] = Absent
                      \/ tmp[t] \in FileContent /\ (IsMachine(t) \/ tmp[t].by = t)

Sound(t) ==
    /\ RenamedSound(t) /\ LogSound(t) /\ UnmarkedSound(t) /\ MarkerSound(t) /\ ScanSound(t)
    /\ TmpSound(t)

\* The type invariant; counting the log, as InitializeRevision does, asks for a
\* finite one, and a retry for one that is left.
TypeInv == /\ TxnTypeOK /\ IsFiniteSet(wal)
           /\ \A t \in Txns : pc[t] = "backoff" => tries[t] # MaxRetries

IInv == TypeInv /\ \A t \in Txns : Sound(t)

-----------------------------------------------------------------------------
(* Type correctness *)

\* One line more in the log.
LEMMA LogTypes ==
  ASSUME TypeInv, NEW t \in Txns, NEW phase \in LogPhases,
         Log(t, phase)
  PROVE  wal' \in SUBSET [phase : LogPhases, txn : Txns] /\ IsFiniteSet(wal')
<1>1. IsFiniteSet(wal')
  BY FS_AddElement DEF TypeInv, Log
<1> QED BY <1>1 DEF TypeInv, TxnTypeOK, Log

\* Every variable keeps its shape.
LEMMA TypeStep == IInv /\ [TxnNext]_txnVars => TypeInv'
<1> SUFFICES ASSUME IInv, [TxnNext]_txnVars PROVE TypeInv'
  OBVIOUS
<1> TypeInv /\ TxnTypeOK /\ IsFiniteSet(wal)
  BY DEF IInv, TypeInv
<1> USE DEF Moves, Steps, histories
<1>1. CASE UNCHANGED txnVars
  BY <1>1 DEF txnVars, TypeInv, TxnTypeOK
<1>2. ASSUME NEW t \in Txns, TxnStep(t) PROVE TypeInv'
  <2>0. /\ FileOf[t] \in StateFiles /\ stateFile[FileOf[t]] \in FileContent
        /\ tries[t] \in 0 .. MaxRetries /\ newRev[t] \in Nat /\ revision \in Nat
        /\ TmpSound(t)
    BY StateTransactionAssumption DEF TxnTypeOK, IInv, Sound
  <2>1. CASE Begin(t)
    <3>1. wal' \in SUBSET [phase : LogPhases, txn : Txns] /\ IsFiniteSet(wal')
      BY <2>1, LogTypes DEF Begin, LogPhases
    <3>2. newRev' \in [Txns -> Nat]
      BY <2>0, <2>1 DEF Begin, TxnTypeOK
    <3>3. base' \in [Txns -> FileContent \cup {Absent}]
      BY <2>0, <2>1 DEF Begin, TxnTypeOK
    <3> QED BY <2>1, <3>1, <3>2, <3>3 DEF Begin, TypeInv, TxnTypeOK
  <2>2. CASE WriteTmp(t)
    <3>1. \A r \in Nat : [by |-> t, revision |-> r] \in FileContent
      BY DEF FileContent
    <3>2. tmp' \in [Txns -> FileContent \cup {Absent, Torn}]
      BY <2>0, <2>2, <3>1 DEF WriteTmp, TxnTypeOK
    <3> QED BY <2>2, <3>2 DEF WriteTmp, TypeInv, TxnTypeOK
  <2>3. CASE CreateMarker(t)
    BY <2>3 DEF CreateMarker, TypeInv, TxnTypeOK
  <2>15. CASE WriteMarker(t)
    BY <2>15 DEF WriteMarker, TypeInv, TxnTypeOK
  <2>16. CASE CommitThrows(t)
    BY <2>16 DEF CommitThrows, TypeInv, TxnTypeOK
  <2>4. CASE LogPrepare(t)
    <3>1. wal' \in SUBSET [phase : LogPhases, txn : Txns] /\ IsFiniteSet(wal')
      BY <2>4, LogTypes DEF LogPrepare, LogPhases
    <3> QED BY <2>4, <3>1 DEF LogPrepare, TypeInv, TxnTypeOK
  <2>5. CASE CheckRevision(t)
    BY <2>5 DEF CheckRevision, TypeInv, TxnTypeOK
  <2>6. CASE Retry(t)
    <3> DEFINE next == IF IsMachine(t) THEN stateFile[MachineFile].revision + 1
                       ELSE revision + 1
    <3>1. IsMachine(t) => stateFile[MachineFile] \in FileContent
      BY <2>0 DEF IsMachine
    <3>2. next \in Nat
      BY <2>0, <3>1 DEF FileContent
    <3>3. newRev' \in [Txns -> Nat]
      BY <2>6, <3>2 DEF Retry, TxnTypeOK
    <3>4. IsMachine(t) => [stateFile[MachineFile] EXCEPT !.revision = next] \in FileContent
      BY <3>1, <3>2 DEF FileContent
    <3>5. tmp' \in [Txns -> FileContent \cup {Absent, Torn}]
      BY <2>6, <3>4 DEF Retry, TxnTypeOK
    <3>6. tries[t] + 1 \in 0 .. MaxRetries
      BY <2>0, <2>6, StateTransactionAssumption DEF Retry, TypeInv
    <3>7. tries' \in [Txns -> 0 .. MaxRetries]
      BY <2>6, <3>6 DEF Retry, TxnTypeOK
    <3> QED BY <2>6, <3>3, <3>5, <3>7 DEF Retry, TypeInv, TxnTypeOK
  <2>7. CASE RenameTmp(t)
    <3>1. pc[t] = "checked"
      BY <2>7 DEF RenameTmp
    <3>2. tmp[t] # Absent => tmp[t] \in FileContent
      BY <2>0, <3>1 DEF TmpSound
    <3>3. stateFile' \in [StateFiles -> FileContent]
      BY <2>7, <3>2 DEF RenameTmp, TxnTypeOK
    <3>4. tmp' \in [Txns -> FileContent \cup {Absent, Torn}]
      BY <2>7 DEF RenameTmp, TxnTypeOK
    <3> QED BY <2>7, <3>3, <3>4 DEF RenameTmp, TypeInv, TxnTypeOK
  <2>8. CASE SaveRevision(t)
    <3>1. IsMachine(t) => stateFile[MachineFile] \in FileContent
      BY <2>0 DEF IsMachine
    <3>2. revision' \in Nat
      BY <2>0, <2>8, <3>1 DEF SaveRevision, FileContent
    <3> QED BY <2>8, <3>2 DEF SaveRevision, TypeInv, TxnTypeOK
  <2>9. CASE LogCommit(t)
    <3>1. wal' \in SUBSET [phase : LogPhases, txn : Txns] /\ IsFiniteSet(wal')
      BY <2>0, <2>9, LogTypes DEF LogCommit, LogPhases
    <3> QED BY <2>9, <3>1 DEF LogCommit, TypeInv, TxnTypeOK
  <2>10. CASE RemoveMarker(t)
    BY <2>10 DEF RemoveMarker, TypeInv, TxnTypeOK
  <2>11. CASE RollbackTmp(t)
    BY <2>11 DEF RollbackTmp, TypeInv, TxnTypeOK
  <2>12. CASE LogRollback(t)
    <3>1. wal' \in SUBSET [phase : LogPhases, txn : Txns] /\ IsFiniteSet(wal')
      BY <2>12, LogTypes DEF LogRollback, LogPhases
    <3> QED BY <2>12, <3>1 DEF LogRollback, TypeInv, TxnTypeOK
  <2>13. CASE RollbackMarker(t)
    BY <2>13 DEF RollbackMarker, TypeInv, TxnTypeOK
  <2>14. CASE TxnDies(t)
    <3>1. tmp' \in [Txns -> FileContent \cup {Absent, Torn}]
      BY <2>14 DEF TxnDies, TxnTypeOK
    <3>2. /\ tries' \in [Txns -> 0 .. MaxRetries] /\ newRev' \in [Txns -> Nat]
          /\ base' \in [Txns -> FileContent \cup {Absent}]
      BY <2>14, StateTransactionAssumption DEF TxnDies, TxnTypeOK
    <3>3. \A u \in Txns : pc'[u] = "backoff" => tries'[u] # MaxRetries
      BY <2>14 DEF TxnDies, TypeInv, TxnTypeOK
    <3> QED BY <2>14, <3>1, <3>2, <3>3 DEF TxnDies, TypeInv, TxnTypeOK
  <2> QED
    BY <1>2, <2>1, <2>2, <2>3, <2>4, <2>5, <2>6, <2>7, <2>8, <2>9, <2>10, <2>11, <2>12,
       <2>13, <2>14, <2>15, <2>16 DEF TxnStep
<1>3. ASSUME NEW t \in Txns, ScanStep(t) PROVE TypeInv'
  <2>1. CASE ScanMarker(t)
    <3>1. scan' \in [Txns -> {"idle", "corrupted", "ended", "unmarked",
                              "orphan", "cleared", "undone"}]
      BY <2>1 DEF ScanMarker, TxnTypeOK
    <3> QED BY <2>1, <3>1 DEF ScanMarker, TypeInv, TxnTypeOK
  <2>2. CASE CleanUpMarker(t)
    BY <2>2 DEF CleanUpMarker, TypeInv, TxnTypeOK
  <2>6. CASE CleanUpTmp(t)
    BY <2>6 DEF CleanUpTmp, TypeInv, TxnTypeOK
  <2>7. CASE DiscardMarker(t)
    BY <2>7 DEF DiscardMarker, TypeInv, TxnTypeOK
  <2>3. CASE UndoTmp(t)
    BY <2>3 DEF UndoTmp, TypeInv, TxnTypeOK
  <2>4. CASE LogRecovery(t)
    <3>1. wal' \in SUBSET [phase : LogPhases, txn : Txns] /\ IsFiniteSet(wal')
      BY <2>4, LogTypes DEF LogRecovery, LogPhases
    <3> QED BY <2>4, <3>1 DEF LogRecovery, TypeInv, TxnTypeOK
  <2>5. CASE UndoMarker(t)
    BY <2>5 DEF UndoMarker, TypeInv, TxnTypeOK
  <2> QED BY <1>3, <2>1, <2>2, <2>3, <2>4, <2>5, <2>6, <2>7 DEF ScanStep
<1>4. CASE ScanDies
  BY <1>4 DEF ScanDies, TypeInv, TxnTypeOK
<1>5. CASE InitializeRevision
  <2>1. IsFiniteSet({e \in wal : e.phase = "COMMIT"})
    BY FS_Subset
  <2>2. Cardinality({e \in wal : e.phase = "COMMIT"}) \in Nat
    BY <2>1, FS_CardinalityType
  <2>3. revision' \in Nat
    BY <1>5, <2>2 DEF InitializeRevision
  <2> QED BY <1>5, <2>3 DEF InitializeRevision, TypeInv, TxnTypeOK
<1> QED BY <1>1, <1>2, <1>3, <1>4, <1>5 DEF TxnNext

-----------------------------------------------------------------------------
(* The invariant *)

\* A line in the log is about one transaction and of one phase.
LEMMA LogAdds ==
  ASSUME NEW t, NEW phase, Log(t, phase)
  PROVE  \A u, ph : Logged(u, ph)' <=> Logged(u, ph) \/ (u = t /\ ph = phase)
<1> DEFINE line == [phase |-> phase, txn |-> t]
<1>1. wal' = wal \cup {line} /\ line.txn = t /\ line.phase = phase
  BY DEF Log
<1> QED BY <1>1 DEF Logged

\* A step of another transaction.
Unmoved(u) ==
    /\ pc'[u] = pc[u] /\ marker'[u] = marker[u] /\ tmp'[u] = tmp[u] /\ scan'[u] = scan[u]
    /\ u \in renamed' <=> u \in renamed
    /\ u \in discarded' <=> u \in discarded
    /\ \A ph : Logged(u, ph)' <=> Logged(u, ph)

LEMMA UnmovedSound ==
  ASSUME NEW u \in Txns, Unmoved(u), Sound(u)
  PROVE  Sound(u)'
BY DEF Unmoved, Sound, RenamedSound, LogSound, UnmarkedSound, MarkerSound, ScanSound, TmpSound, Ended,
       IsMachine

\* A transaction stays sound under its own steps and under the scan's.
LEMMA SoundStep == IInv /\ [TxnNext]_txnVars => \A u \in Txns : Sound(u)'
<1> SUFFICES ASSUME IInv, [TxnNext]_txnVars PROVE \A u \in Txns : Sound(u)'
  OBVIOUS
<1> TxnTypeOK /\ \A u \in Txns : Sound(u)
  BY DEF IInv, TypeInv
<1>1. CASE UNCHANGED txnVars
  <2>1. \A u \in Txns : Unmoved(u)
    BY <1>1 DEF txnVars, histories, Unmoved, Logged
  <2> QED BY <2>1, UnmovedSound
<1>2. ASSUME NEW t \in Txns, Sound(t)', \A u \in Txns \ {t} : Unmoved(u)
      PROVE  \A u \in Txns : Sound(u)'
  BY <1>2, UnmovedSound
<1>3. ASSUME NEW t \in Txns, TxnStep(t) PROVE \A u \in Txns : Sound(u)'
  <2> SUFFICES Sound(t)' /\ \A u \in Txns \ {t} : Unmoved(u)
    BY <1>2
  <2> USE DEF Moves, TxnTypeOK, Sound, RenamedSound, LogSound, UnmarkedSound, MarkerSound,
              ScanSound, TmpSound, Ended, BeforeRename, AfterRename, Steps, histories
  <2>1. CASE Begin(t)
    <3>1. \A u, ph : Logged(u, ph)' <=> Logged(u, ph) \/ (u = t /\ ph = "BEGIN")
      BY <2>1, LogAdds DEF Begin
    <3>2. Sound(t)'
      BY <2>1, <3>1 DEF Begin
    <3>3. \A u \in Txns \ {t} : Unmoved(u)
      BY <2>1, <3>1 DEF Begin, Unmoved
    <3> QED BY <3>2, <3>3
  <2>2. CASE WriteTmp(t)
    <3>1. \A u, ph : Logged(u, ph)' <=> Logged(u, ph)
      BY <2>2 DEF WriteTmp, Logged
    <3>2. Sound(t)'
      <4>1. tmp'[t] \in FileContent /\ tmp'[t].by = t
        BY <2>2 DEF WriteTmp, FileContent
      <4> QED BY <2>2, <3>1, <4>1 DEF WriteTmp
    <3>3. \A u \in Txns \ {t} : Unmoved(u)
      BY <2>2, <3>1 DEF WriteTmp, Unmoved
    <3> QED BY <3>2, <3>3
  <2>3. CASE CreateMarker(t)
    <3>1. \A u, ph : Logged(u, ph)' <=> Logged(u, ph)
      BY <2>3 DEF CreateMarker, Logged
    <3>2. Sound(t)'
      BY <2>3, <3>1 DEF CreateMarker
    <3>3. \A u \in Txns \ {t} : Unmoved(u)
      BY <2>3, <3>1 DEF CreateMarker, Unmoved
    <3> QED BY <3>2, <3>3
  <2>15. CASE WriteMarker(t)
    <3>1. \A u, ph : Logged(u, ph)' <=> Logged(u, ph)
      BY <2>15 DEF WriteMarker, Logged
    <3>2. Sound(t)'
      BY <2>15, <3>1 DEF WriteMarker
    <3>3. \A u \in Txns \ {t} : Unmoved(u)
      BY <2>15, <3>1 DEF WriteMarker, Unmoved
    <3> QED BY <3>2, <3>3
  <2>16. CASE CommitThrows(t)
    <3>1. \A u, ph : Logged(u, ph)' <=> Logged(u, ph)
      BY <2>16 DEF CommitThrows, Logged
    <3>2. Sound(t)'
      BY <2>16, <3>1 DEF CommitThrows
    <3>3. \A u \in Txns \ {t} : Unmoved(u)
      BY <2>16, <3>1 DEF CommitThrows, Unmoved
    <3> QED BY <3>2, <3>3
  <2>4. CASE LogPrepare(t)
    <3>1. \A u, ph : Logged(u, ph)' <=> Logged(u, ph) \/ (u = t /\ ph = "PREPARE")
      BY <2>4, LogAdds DEF LogPrepare
    <3>2. Sound(t)'
      BY <2>4, <3>1 DEF LogPrepare
    <3>3. \A u \in Txns \ {t} : Unmoved(u)
      BY <2>4, <3>1 DEF LogPrepare, Unmoved
    <3> QED BY <3>2, <3>3
  <2>5. CASE CheckRevision(t)
    <3>1. \A u, ph : Logged(u, ph)' <=> Logged(u, ph)
      BY <2>5 DEF CheckRevision, Logged
    <3>2. Sound(t)'
      BY <2>5, <3>1 DEF CheckRevision
    <3>3. \A u \in Txns \ {t} : Unmoved(u)
      BY <2>5, <3>1 DEF CheckRevision, Unmoved
    <3> QED BY <3>2, <3>3
  <2>6. CASE Retry(t)
    <3>1. \A u, ph : Logged(u, ph)' <=> Logged(u, ph)
      BY <2>6 DEF Retry, Logged
    <3>2. Sound(t)'
      <4>1. IsMachine(t) => stateFile[MachineFile] \in FileContent
        BY StateTransactionAssumption DEF IsMachine
      <4>2. IsMachine(t) => tmp'[t] \in FileContent
        BY <2>6, <4>1 DEF Retry, FileContent
      <4>3. ~IsMachine(t) => tmp'[t] = tmp[t]
        BY <2>6 DEF Retry
      <4> QED BY <2>6, <3>1, <4>2, <4>3 DEF Retry, IsMachine
    <3>3. \A u \in Txns \ {t} : Unmoved(u)
      BY <2>6, <3>1 DEF Retry, Unmoved
    <3> QED BY <3>2, <3>3
  <2>7. CASE RenameTmp(t)
    <3>1. \A u, ph : Logged(u, ph)' <=> Logged(u, ph)
      BY <2>7 DEF RenameTmp, Logged
    <3>2. Sound(t)'
      BY <2>7, <3>1 DEF RenameTmp
    <3>3. \A u \in Txns \ {t} : Unmoved(u)
      BY <2>7, <3>1 DEF RenameTmp, Unmoved
    <3> QED BY <3>2, <3>3
  <2>8. CASE SaveRevision(t)
    <3>1. \A u, ph : Logged(u, ph)' <=> Logged(u, ph)
      BY <2>8 DEF SaveRevision, Logged
    <3>2. Sound(t)'
      BY <2>8, <3>1 DEF SaveRevision
    <3>3. \A u \in Txns \ {t} : Unmoved(u)
      BY <2>8, <3>1 DEF SaveRevision, Unmoved
    <3> QED BY <3>2, <3>3
  <2>9. CASE LogCommit(t)
    <3>1. \A u, ph : Logged(u, ph)' <=> Logged(u, ph) \/ (u = t /\ ph = "COMMIT")
      BY <2>9, LogAdds DEF LogCommit
    <3>2. Sound(t)'
      BY <2>9, <3>1 DEF LogCommit
    <3>3. \A u \in Txns \ {t} : Unmoved(u)
      BY <2>9, <3>1 DEF LogCommit, Unmoved
    <3> QED BY <3>2, <3>3
  <2>10. CASE RemoveMarker(t)
    <3>1. \A u, ph : Logged(u, ph)' <=> Logged(u, ph)
      BY <2>10 DEF RemoveMarker, Logged
    <3>2. Sound(t)'
      BY <2>10, <3>1 DEF RemoveMarker
    <3>3. \A u \in Txns \ {t} : Unmoved(u)
      BY <2>10, <3>1 DEF RemoveMarker, Unmoved
    <3> QED BY <3>2, <3>3
  <2>11. CASE RollbackTmp(t)
    <3>1. \A u, ph : Logged(u, ph)' <=> Logged(u, ph)
      BY <2>11 DEF RollbackTmp, Logged
    <3>2. Sound(t)'
      BY <2>11, <3>1 DEF RollbackTmp
    <3>3. \A u \in Txns \ {t} : Unmoved(u)
      BY <2>11, <3>1 DEF RollbackTmp, Unmoved
    <3> QED BY <3>2, <3>3
  <2>12. CASE LogRollback(t)
    <3>1. \A u, ph : Logged(u, ph)' <=> Logged(u, ph) \/ (u = t /\ ph = "ROLLBACK")
      BY <2>12, LogAdds DEF LogRollback
    <3>2. Sound(t)'
      BY <2>12, <3>1 DEF LogRollback
    <3>3. \A u \in Txns \ {t} : Unmoved(u)
      BY <2>12, <3>1 DEF LogRollback, Unmoved
    <3> QED BY <3>2, <3>3
  <2>13. CASE RollbackMarker(t)
    <3>1. \A u, ph : Logged(u, ph)' <=> Logged(u, ph)
      BY <2>13 DEF RollbackMarker, Logged
    <3>2. Sound(t)'
      BY <2>13, <3>1 DEF RollbackMarker
    <3>3. \A u \in Txns \ {t} : Unmoved(u)
      BY <2>13, <3>1 DEF RollbackMarker, Unmoved
    <3> QED BY <3>2, <3>3
  <2>14. CASE TxnDies(t)
    <3>1. \A u, ph : Logged(u, ph)' <=> Logged(u, ph)
      BY <2>14 DEF TxnDies, Logged
    <3>2. Sound(t)'
      BY <2>14, <3>1 DEF TxnDies
    <3>3. \A u \in Txns \ {t} : Unmoved(u)
      BY <2>14, <3>1 DEF TxnDies, Unmoved
    <3> QED BY <3>2, <3>3
  <2> QED
    BY <1>3, <2>1, <2>2, <2>3, <2>4, <2>5, <2>6, <2>7, <2>8, <2>9, <2>10, <2>11, <2>12,
       <2>13, <2>14, <2>15, <2>16 DEF TxnStep
<1>4. ASSUME NEW t \in Txns, ScanStep(t) PROVE \A u \in Txns : Sound(u)'
  <2> SUFFICES Sound(t)' /\ \A u \in Txns \ {t} : Unmoved(u)
    BY <1>2
  <2> USE DEF TxnTypeOK, Sound, RenamedSound, LogSound, UnmarkedSound, MarkerSound, ScanSound,
              TmpSound, Ended, histories
  <2>1. CASE ScanMarker(t)
    <3>1. \A u, ph : Logged(u, ph)' <=> Logged(u, ph)
      BY <2>1 DEF ScanMarker, Logged
    <3>2. Sound(t)'
      BY <2>1, <3>1 DEF ScanMarker
    <3>3. \A u \in Txns \ {t} : Unmoved(u)
      BY <2>1, <3>1 DEF ScanMarker, Unmoved
    <3> QED BY <3>2, <3>3
  <2>2. CASE CleanUpMarker(t)
    <3>1. \A u, ph : Logged(u, ph)' <=> Logged(u, ph)
      BY <2>2 DEF CleanUpMarker, Logged
    <3>2. Sound(t)'
      BY <2>2, <3>1 DEF CleanUpMarker
    <3>3. \A u \in Txns \ {t} : Unmoved(u)
      BY <2>2, <3>1 DEF CleanUpMarker, Unmoved
    <3> QED BY <3>2, <3>3
  <2>6. CASE CleanUpTmp(t)
    <3>1. \A u, ph : Logged(u, ph)' <=> Logged(u, ph)
      BY <2>6 DEF CleanUpTmp, Logged
    <3>2. Sound(t)'
      BY <2>6, <3>1 DEF CleanUpTmp
    <3>3. \A u \in Txns \ {t} : Unmoved(u)
      BY <2>6, <3>1 DEF CleanUpTmp, Unmoved
    <3> QED BY <3>2, <3>3
  <2>7. CASE DiscardMarker(t)
    <3>1. \A u, ph : Logged(u, ph)' <=> Logged(u, ph)
      BY <2>7 DEF DiscardMarker, Logged
    <3>2. Sound(t)'
      BY <2>7, <3>1 DEF DiscardMarker
    <3>3. \A u \in Txns \ {t} : Unmoved(u)
      BY <2>7, <3>1 DEF DiscardMarker, Unmoved
    <3> QED BY <3>2, <3>3
  <2>3. CASE UndoTmp(t)
    <3>1. \A u, ph : Logged(u, ph)' <=> Logged(u, ph)
      BY <2>3 DEF UndoTmp, Logged
    <3>2. Sound(t)'
      BY <2>3, <3>1 DEF UndoTmp
    <3>3. \A u \in Txns \ {t} : Unmoved(u)
      BY <2>3, <3>1 DEF UndoTmp, Unmoved
    <3> QED BY <3>2, <3>3
  <2>4. CASE LogRecovery(t)
    <3>1. \A u, ph : Logged(u, ph)' <=> Logged(u, ph) \/ (u = t /\ ph = "RECOVERY_ROLLBACK")
      BY <2>4, LogAdds DEF LogRecovery
    <3>2. Sound(t)'
      BY <2>4, <3>1 DEF LogRecovery
    <3>3. \A u \in Txns \ {t} : Unmoved(u)
      BY <2>4, <3>1 DEF LogRecovery, Unmoved
    <3> QED BY <3>2, <3>3
  <2>5. CASE UndoMarker(t)
    <3>1. \A u, ph : Logged(u, ph)' <=> Logged(u, ph)
      BY <2>5 DEF UndoMarker, Logged
    <3>2. Sound(t)'
      BY <2>5, <3>1 DEF UndoMarker
    <3>3. \A u \in Txns \ {t} : Unmoved(u)
      BY <2>5, <3>1 DEF UndoMarker, Unmoved
    <3> QED BY <3>2, <3>3
  <2> QED BY <1>4, <2>1, <2>2, <2>3, <2>4, <2>5, <2>6, <2>7 DEF ScanStep
<1>5. CASE ScanDies
  <2>1. \A u, ph : Logged(u, ph)' <=> Logged(u, ph)
    BY <1>5 DEF ScanDies, Logged
  <2> QED
    BY <1>5, <2>1 DEF ScanDies, histories, Sound, RenamedSound, LogSound, UnmarkedSound,
                      MarkerSound, ScanSound, TmpSound, Ended, IsMachine
<1>6. CASE InitializeRevision
  <2>1. \A u \in Txns : Unmoved(u)
    BY <1>6 DEF InitializeRevision, histories, Unmoved, Logged
  <2> QED BY <2>1, UnmovedSound
<1> QED BY <1>1, <1>3, <1>4, <1>5, <1>6 DEF TxnNext

LEMMA IInvInit == TxnInit => IInv
<1> SUFFICES ASSUME TxnInit PROVE IInv
  OBVIOUS
<1>1. TypeInv
  <2>1. [by |-> NoTxn, revision |-> 0] \in FileContent
    BY DEF FileContent
  <2>2. IsFiniteSet(wal)
    BY FS_EmptySet DEF TxnInit
  <2> QED BY <2>1, <2>2, StateTransactionAssumption DEF TxnInit, TypeInv, TxnTypeOK, Steps
<1>2. \A t \in Txns : Sound(t)
  BY DEF TxnInit, Sound, RenamedSound, LogSound, UnmarkedSound, MarkerSound, ScanSound,
         TmpSound, Logged, AfterRename
<1> QED BY <1>1, <1>2 DEF IInv

LEMMA IInvStep == IInv /\ [TxnNext]_txnVars => IInv'
BY TypeStep, SoundStep DEF IInv

LEMMA Invariant == TxnSpec => []IInv
BY IInvInit, IInvStep, PTL DEF TxnSpec

-----------------------------------------------------------------------------
(* The theorems *)

\* Files, markers, log and revision keep their shape, however processes die.
THEOREM TxnTypeInvariant == TxnSpec => []TxnTypeOK
BY Invariant, PTL DEF IInv, TypeInv

\* The log never says COMMIT of a transaction whose file is the old one.
THEOREM CommitInvariant == TxnSpec => []CommitIsAfterRename
<1>1. IInv => CommitIsAfterRename
  BY DEF IInv, Sound, LogSound, CommitIsAfterRename
<1> QED BY <1>1, Invariant, PTL

\* No death of a transaction or of the scan loses a prepared transaction: its
\* marker is there until the log has its end, but for the one a scan has taken for
\* corrupted while it was written.
THEOREM PreparedInvariant == TxnSpec => []PreparedIsAccountedFor
<1>1. IInv => PreparedIsAccountedFor
  BY DEF IInv, Sound, MarkerSound, Ended, PreparedIsAccountedFor
<1> QED BY <1>1, Invariant, PTL

\* A transaction whose commit line could not be written may be rolled back after
\* its rename, but the log never says both of it.
THEOREM OneEndInvariant == TxnSpec => []OneEnd
<1>1. IInv => OneEnd
  BY DEF IInv, Sound, LogSound, OneEnd
<1> QED BY <1>1, Invariant, PTL

-----------------------------------------------------------------------------
(* Refinement *)

\* The end of a plain transaction, for AtomicFiles.
Outcome(t) == IF t \in renamed THEN "committed"
              ELSE IF pc[t] \in {"dead", "undone"} THEN "aborted" ELSE "pending"
Value(f) == stateFile[f].by

\* A step that renames no temporary file into place leaves the files alone, and
\* ends at most its own transaction.
LEMMA EndsAtMostOne ==
  ASSUME IInv, NEW t \in Txns, TxnStep(t), ~RenameTmp(t)
  PROVE  /\ UNCHANGED <<stateFile, renamed>>
         /\ \A u \in Txns \ {t} : pc'[u] = pc[u]
         /\ pc[t] \notin {"dead", "undone"}
BY DEF IInv, TypeInv, TxnTypeOK, TxnStep, Begin, WriteTmp, CreateMarker, WriteMarker,
       LogPrepare, CheckRevision, Retry, SaveRevision, LogCommit, RemoveMarker,
       RollbackTmp, LogRollback, RollbackMarker, CommitThrows, TxnDies, Moves, histories

\* Steps of transactions on machine.json, of the scan and of the database are
\* stutters, and so are those of a plain transaction but for its rename and its
\* death.
LEMMA StepRefines == IInv /\ [TxnNext]_txnVars => [Abstract!AtomicNext]_(Abstract!atomicVars)
<1> SUFFICES ASSUME IInv, [TxnNext]_txnVars
             PROVE  [Abstract!AtomicNext]_(Abstract!atomicVars)
  OBVIOUS
<1> TxnTypeOK /\ \A u \in Txns : Sound(u)
  BY DEF IInv, TypeInv
<1>1. ASSUME \A f \in PlainFiles : Value(f)' = Value(f),
             \A u \in PlainTxns : Outcome(u)' = Outcome(u)
      PROVE  [Abstract!AtomicNext]_(Abstract!atomicVars)
  BY <1>1 DEF Abstract!atomicVars, Value, Outcome
<1>2. ASSUME UNCHANGED <<pc, stateFile, renamed>>
      PROVE  [Abstract!AtomicNext]_(Abstract!atomicVars)
  BY <1>2 DEF Abstract!atomicVars
<1>3. ASSUME NEW t \in Txns, TxnStep(t) PROVE [Abstract!AtomicNext]_(Abstract!atomicVars)
  <2>1. CASE RenameTmp(t) /\ tmp[t] # Absent
    <3>1. /\ pc[t] = "checked" /\ t \notin renamed /\ tmp[t] \in FileContent
          /\ IsMachine(t) \/ tmp[t].by = t
      BY <2>1 DEF RenameTmp, Moves, Sound, RenamedSound, BeforeRename, TmpSound
    <3>2. /\ stateFile' = [stateFile EXCEPT ![FileOf[t]] = tmp[t]]
          /\ renamed' = renamed \cup {t} /\ pc' = [pc EXCEPT ![t] = "renamed"]
      BY <2>1 DEF RenameTmp, Moves
    <3>3. CASE IsMachine(t)
      <4>1. \A f \in PlainFiles : Value(f)' = Value(f)
        BY <3>2, <3>3 DEF PlainFiles, IsMachine, Value
      <4>2. \A u \in PlainTxns : Outcome(u)' = Outcome(u)
        BY <3>2, <3>3 DEF PlainTxns, IsMachine, Outcome
      <4> QED BY <1>1, <4>1, <4>2
    <3>4. CASE ~IsMachine(t)
      <4>1. t \in PlainTxns /\ FileOf[t] \in PlainFiles /\ FileOf[t] \in StateFiles
        BY <3>4, StateTransactionAssumption DEF PlainTxns, PlainFiles, IsMachine
      <4>2. Abstract!Commit(t)
        <5>1. Outcome(t) = "pending"
          BY <3>1 DEF Outcome
        <5>2. [u \in PlainTxns |-> Outcome(u)]'
                = [[u \in PlainTxns |-> Outcome(u)] EXCEPT ![t] = "committed"]
          <6>1. \A u \in PlainTxns \ {t} : Outcome(u)' = Outcome(u)
            BY <3>2 DEF PlainTxns, Outcome
          <6>2. Outcome(t)' = "committed"
            BY <3>2 DEF Outcome
          <6> QED BY <4>1, <6>1, <6>2
        <5>3. [f \in PlainFiles |-> Value(f)]'
                = [[f \in PlainFiles |-> Value(f)] EXCEPT
                     ![[u \in PlainTxns |-> FileOf[u]][t]] = t]
          BY <3>1, <3>2, <3>4, <4>1 DEF Value, TxnTypeOK, PlainFiles
        <5> QED BY <4>1, <5>1, <5>2, <5>3 DEF Abstract!Commit, Outcome, Value
      <4> QED BY <4>1, <4>2 DEF Abstract!AtomicNext
    <3> QED BY <3>3, <3>4
  <2>3. CASE ~RenameTmp(t)
    <3>1. /\ UNCHANGED <<stateFile, renamed>>
          /\ \A u \in Txns \ {t} : pc'[u] = pc[u]
          /\ pc[t] \notin {"dead", "undone"}
      BY <1>3, <2>3, EndsAtMostOne
    <3>2. \A f \in PlainFiles : Value(f)' = Value(f)
      BY <3>1 DEF Value
    <3>3. \A u \in PlainTxns \ {t} : Outcome(u)' = Outcome(u)
      BY <3>1 DEF PlainTxns, Outcome
    <3>4. CASE t \in PlainTxns /\ Outcome(t)' # Outcome(t)
      <4>1. Outcome(t) = "pending" /\ Outcome(t)' = "aborted"
        BY <3>1, <3>4 DEF Outcome
      <4>2. [u \in PlainTxns |-> Outcome(u)]'
              = [[u \in PlainTxns |-> Outcome(u)] EXCEPT ![t] = "aborted"]
        BY <3>3, <3>4, <4>1
      <4>3. Abstract!Abort(t)
        BY <3>2, <3>4, <4>1, <4>2 DEF Abstract!Abort, Outcome, Value
      <4> QED BY <3>4, <4>3 DEF Abstract!AtomicNext
    <3>5. CASE ~(t \in PlainTxns /\ Outcome(t)' # Outcome(t))
      BY <1>1, <3>2, <3>3, <3>5
    <3> QED BY <3>4, <3>5
  <2> QED BY <2>1, <2>3 DEF RenameTmp
<1>4. ASSUME NEW t \in Txns, ScanStep(t) PROVE [Abstract!AtomicNext]_(Abstract!atomicVars)
  BY <1>2, <1>4 DEF ScanStep, ScanMarker, DiscardMarker, CleanUpMarker, CleanUpTmp,
                   UndoTmp, LogRecovery, UndoMarker, histories
<1> QED BY <1>2, <1>3, <1>4 DEF TxnNext, ScanDies, InitializeRevision, txnVars, histories

\* Every transaction on a file other than machine.json replaces its file once
\* and whole or never touches it: the two-phase protocol implements AtomicFiles.
THEOREM Refinement == TxnSpec => AllOrNothing
<1>1. TxnInit => Abstract!AtomicInit
  <2> SUFFICES ASSUME TxnInit PROVE Abstract!AtomicInit
    OBVIOUS
  <2>1. \A f \in PlainFiles : Value(f) = NoTxn
    BY DEF TxnInit, PlainFiles, Value
  <2>2. \A t \in PlainTxns : Outcome(t) = "pending"
    BY DEF TxnInit, PlainTxns, Outcome
  <2> QED BY <2>1, <2>2 DEF Abstract!AtomicInit, Value, Outcome
<1> QED BY <1>1, StepRefines, Invariant, PTL DEF TxnSpec, AllOrNothing, Abstract!AtomicSpec
=============================================================================
