-------------------------- MODULE MigrationProofs --------------------------
(***************************************************************************)
(* Proofs about the migrations, for any number of processes that open the  *)
(* database at the same time, every crash and every lock timeout.  That an *)
(* open repairs the schema depends on how the migrations are written: what *)
(* they have to observe is the hypothesis WellOrdered of SchemaMigrations, *)
(* which TLC evaluates on the migrations of the code (MCFiles).            *)
(***************************************************************************)
EXTENDS SchemaMigrations, SequenceTheorems, TLAPS

-----------------------------------------------------------------------------
(* The migrations.  A version is complete when its columns are there, and    *)
(* what is missing some process that is in the version will still add.  A    *)
(* process that loses the race for a column leaves the version to the one    *)
(* that won it.                                                              *)

Stage(p) == opening[p].version
In(p, v) == Stage(p) = v /\ v \in Versions

\* It has been alone since it opened, or nothing has failed yet.
Undisturbed(p) == faults = 0 \/ p \in quiet

\* A table_info of its version is behind it.
Inspected(p) ==
    \E m \in Numbers(Stage(p)) : m < opening[p].next /\ Nth(Stage(p), m).op = "inspect"

\* An ALTER that is ahead of p, as far as p knows now.
Ahead(p, k) ==
    LET s == Nth(Stage(p), k)
    IN  /\ k \in Numbers(Stage(p)) /\ k >= opening[p].next
        /\ Genuine(Stage(p), k)
        /\ s.op = "add lacking" => s.columns[1] \in opening[p].lacking

\* It will throw at one of them.
Trailing(p) ==
    \E v \in Versions : In(p, v) /\ \E k \in Numbers(v) : Ahead(p, k) /\ Target(Nth(v, k)) \in schema

\* A late column that is missing p is about to add.
LateAhead(p, column) ==
    \E k \in Numbers(Stage(p)) :
        /\ k >= opening[p].next /\ column \in LateAt(Stage(p), k)
        /\ Nth(Stage(p), k).op = "add lacking" /\ Inspected(p) => column[2] \in opening[p].lacking

\* ... and an early one.
EarlyAhead(p, column) ==
    \E k \in Numbers(Stage(p)) :
        /\ k >= opening[p].next
        /\ \/ column \in EarlyAt(Stage(p), k)
           \/ Nth(Stage(p), k).op = "tried" /\ Target(Nth(Stage(p), k)) = column

Carried(v) == \E p \in Openers : In(p, v) /\ ~Trailing(p)
Stuck(v) == v \in interrupted /\ Plain(v) /\ Late(v) \cap schema # {}

\* Somebody counts on the late columns of the version.
Begun(v) ==
    \/ \E p \in Openers : Undisturbed(p) /\ (Stage(p) > v \/ (In(p, v) /\ Trailing(p)))
    \/ Plain(v) /\ Late(v) \cap schema # {}

\* The schema: what is never dropped stays, and comes in the order it is added.
SchemaSound ==
    /\ \A column \in OldColumns : ~Dropped(column[1]) => column \in schema
    /\ \A column \in schema : <<column[1], "*">> \in schema
    /\ \A t, c : Bundled(t, c) /\ HasTable(t) => Has(t, c)
    /\ \A v \in Versions : \A n, m \in Numbers(v) :
          /\ n < m /\ Genuine(v, n) /\ Genuine(v, m)
          /\ ~Dropped(Nth(v, n).table) /\ Target(Nth(v, m)) \in schema
          => Target(Nth(v, n)) \in schema

\* The history: a quiet process is alone.
HistorySound ==
    /\ \A p \in quiet : \A q \in Openers : Open(q) => q = p
    /\ faults = 0 => interrupted = {}

EarlySound(p) ==
    /\ \A v \in Versions : v < Stage(p) => Early(v) \subseteq schema
    /\ \A v \in Versions : In(p, v) => \A column \in Early(v) \ schema : EarlyAhead(p, column)

\* The table of an index that may throw is there, unless nothing else is missing.
IndexSound(p) ==
    \A v \in Versions : In(p, v) => \A n, m \in Numbers(v) :
        /\ m < opening[p].next /\ opening[p].next <= n
        /\ Nth(v, n).op = "index" /\ Overtaken(v, n) /\ Creating(v, m, Nth(v, n).table)
        => HasTable(Nth(v, n).table) \/ Early(v) \subseteq schema

LateSoundFor(p) ==
    \A v \in Versions : In(p, v) => \A column \in Late(v) \ schema : LateAhead(p, column)

VersionSound(v) ==
    Late(v) # {} /\ Begun(v) => Late(v) \subseteq schema \/ Carried(v) \/ Stuck(v)

MigrationsInv ==
    /\ MigrationsTypeOK /\ SchemaSound /\ HistorySound
    /\ \A p \in Openers : LateSoundFor(p)
    /\ \A p \in Openers : Undisturbed(p) => EarlySound(p) /\ IndexSound(p)
    /\ \A v \in Versions : VersionSound(v)

-----------------------------------------------------------------------------
(* The migrations are sequences. *)

IsSequence(s) == Len(s) \in Nat /\ s = [i \in 1 .. Len(s) |-> s[i]]

LEMMA Joined ==
    ASSUME NEW s, NEW t, IsSequence(s), IsSequence(t) PROVE IsSequence(s \o t)
<1> DEFINE S == ToSet(s) \cup ToSet(t)
<1>1. DOMAIN s = 1 .. Len(s) /\ DOMAIN t = 1 .. Len(t)
  BY DEF IsSequence
<1>2. s \in [1 .. Len(s) -> S] /\ t \in [1 .. Len(t) -> S]
  BY <1>1 DEF IsSequence, ToSet
<1>3. s \in Seq(S) /\ t \in Seq(S)
  BY <1>2, SeqDef DEF IsSequence
<1>4. s \o t \in Seq(S)
  BY <1>3, ConcatProperties
<1> HIDE DEF S
<1> QED
  BY <1>4, LenProperties DEF IsSequence

LEMMA Blocks ==
    ASSUME NEW s, IsSequence(s)
    PROVE  /\ IsSequence(Creates(s)) /\ IsSequence(Drops(s))
           /\ \A t : IsSequence(AddLacking(t, s))
<1>1. DOMAIN s = 1 .. Len(s) /\ Len(s) \in Nat
  BY DEF IsSequence
<1>2. IsSequence(Creates(s)) /\ IsSequence(Drops(s))
  BY <1>1 DEF IsSequence, Creates, Drops
<1>3. ASSUME NEW t PROVE IsSequence(AddLacking(t, s))
  <2>1. IsSequence([i \in DOMAIN s |-> AddIfLacking(t, s[i])])
    BY <1>1 DEF IsSequence
  <2>2. IsSequence(<<Inspect(t, s)>>)
    BY DEF IsSequence
  <2> QED
    BY <2>1, <2>2, Joined DEF AddLacking
<1> QED
  BY <1>2, <1>3

LEMMA MigrationsAreSequences == \A v \in 2 .. 37 : IsSequence(Migrations[v])
<1>1. /\ IsSequence(V3) /\ IsSequence(V4) /\ IsSequence(V8) /\ IsSequence(V9)
      /\ IsSequence(V10) /\ IsSequence(V12) /\ IsSequence(V13) /\ IsSequence(V15)
      /\ IsSequence(V17) /\ IsSequence(V19) /\ IsSequence(V22) /\ IsSequence(V23)
      /\ IsSequence(V24) /\ IsSequence(V25) /\ IsSequence(V27) /\ IsSequence(V29)
      /\ IsSequence(V30) /\ IsSequence(V31) /\ IsSequence(V32)
  BY DEF IsSequence, V3, V4, V8, V9, V10, V12, V13, V15, V17, V19, V22, V23, V24, V25, V27,
         V29, V30, V31, V32
<1>2. IsSequence(V2)
  BY Joined, Blocks DEF V2, IsSequence
<1>3. IsSequence(V5)
  BY Joined, Blocks DEF V5, IsSequence
<1>4. IsSequence(V6)
  BY Joined, Blocks DEF V6, IsSequence
<1>5. IsSequence(V11)
  BY Joined, Blocks DEF V11, IsSequence
<1>6. IsSequence(V14)
  BY Joined, Blocks DEF V14, IsSequence
<1>7. IsSequence(V16)
  BY Joined, Blocks DEF V16, IsSequence
<1>8. IsSequence(V18)
  BY Joined, Blocks DEF V18, IsSequence
<1>9. IsSequence(V20)
  BY Joined, Blocks DEF V20, IsSequence
<1>10. IsSequence(V21)
  BY Joined, Blocks DEF V21, IsSequence
<1>11. IsSequence(V26)
  BY Joined, Blocks DEF V26, IsSequence
<1>12. IsSequence(V28)
  BY Joined, Blocks DEF V28, IsSequence
<1>13. IsSequence(V33)
  BY Joined, Blocks DEF V33, IsSequence
<1>14. IsSequence(V34)
  BY Joined, Blocks DEF V34, IsSequence
<1>15. IsSequence(V35)
  BY Joined, Blocks DEF V35, IsSequence
<1>16. IsSequence(V36)
  BY Joined, Blocks DEF V36, IsSequence
<1>17. IsSequence(V37)
  BY Joined, Blocks DEF V37, IsSequence
<1>18. IsSequence(V7)
  <2>1. /\ IsSequence(<<Record>>)
        /\ IsSequence(<<"eslint_state", "write_audit_state", "compliance_records",
                        "knowledge_session_access", "knowledge_cache_meta",
                        "tdd_enforcement_state", "keystone_hashes", "transaction_state",
                        "knowledge_state", "knowledge_audit_state", "type_check_state",
                        "diagnostic_state", "format_state", "dependency_state">>)
    BY DEF IsSequence
  <2> QED
    BY <2>1, Joined, Blocks DEF V7
<1>19. /\ Migrations[2] = V2 /\ Migrations[3] = V3 /\ Migrations[4] = V4
      /\ Migrations[5] = V5 /\ Migrations[6] = V6 /\ Migrations[7] = V7
      /\ Migrations[8] = V8 /\ Migrations[9] = V9 /\ Migrations[10] = V10
      /\ Migrations[11] = V11 /\ Migrations[12] = V12 /\ Migrations[13] = V13
      /\ Migrations[14] = V14 /\ Migrations[15] = V15 /\ Migrations[16] = V16
      /\ Migrations[17] = V17 /\ Migrations[18] = V18 /\ Migrations[19] = V19
      /\ Migrations[20] = V20 /\ Migrations[21] = V21 /\ Migrations[22] = V22
      /\ Migrations[23] = V23 /\ Migrations[24] = V24 /\ Migrations[25] = V25
      /\ Migrations[26] = V26 /\ Migrations[27] = V27 /\ Migrations[28] = V28
      /\ Migrations[29] = V29 /\ Migrations[30] = V30 /\ Migrations[31] = V31
      /\ Migrations[32] = V32 /\ Migrations[33] = V33 /\ Migrations[34] = V34
      /\ Migrations[35] = V35 /\ Migrations[36] = V36 /\ Migrations[37] = V37
  BY DEF Migrations
<1> QED
  BY <1>1, <1>2, <1>3, <1>4, <1>5, <1>6, <1>7, <1>8, <1>9, <1>10, <1>11, <1>12, <1>13, <1>14, <1>15, <1>16, <1>17, <1>18, <1>19

LEMMA VersionFacts ==
    /\ Versions \subseteq 2 .. 37 /\ FirstVersion \in Versions
    /\ LastVersion + 1 \notin Versions /\ 0 \notin Versions
    /\ \A v \in Versions : v \in Nat /\ v + 1 \in 0 .. LastVersion + 1
                           /\ (v + 1 \in Versions \/ v = LastVersion)
    /\ \A v \in Versions : /\ Len(Migrations[v]) \in Nat
                           /\ Numbers(v) = DOMAIN Migrations[v]
                           /\ Statements(v) = {Nth(v, n) : n \in Numbers(v)}
<1>1. Versions \subseteq 2 .. 37
  BY MigrationsAssumption DEF Versions
<1>2. ASSUME NEW v \in Versions
      PROVE  /\ Len(Migrations[v]) \in Nat
             /\ Numbers(v) = DOMAIN Migrations[v]
             /\ Statements(v) = {Nth(v, n) : n \in Numbers(v)}
  <2>1. IsSequence(Migrations[v])
    BY <1>1, MigrationsAreSequences
  <2>2. Len(Migrations[v]) \in Nat /\ Numbers(v) = DOMAIN Migrations[v]
    BY <2>1 DEF IsSequence, Numbers
  <2> QED
    BY <2>2 DEF Statements, ToSet, Nth
<1> QED
  BY <1>1, <1>2, MigrationsAssumption DEF Versions

\* A process that is not done is in a version.
LEMMA InAVersion ==
    ASSUME MigrationsTypeOK, NEW p \in Openers, Open(p), ~Finished(p)
    PROVE  /\ In(p, Stage(p)) /\ Stage(p) \in Versions
           /\ opening[p].next \in Nat \ {0}
           /\ Left(p) <=> opening[p].next \in Numbers(Stage(p))
           /\ ~Left(p) => \A k \in Numbers(Stage(p)) : k < opening[p].next
<1>1. Stage(p) \in Versions /\ opening[p].next \in 1 .. Len(Migrations[Stage(p)]) + 1
  BY DEF MigrationsTypeOK, Open, Finished, Stage
<1>2. Len(Migrations[Stage(p)]) \in Nat
  BY <1>1, VersionFacts
<1> QED
  BY <1>1, <1>2 DEF In, Left, Numbers, Stage

LEMMA LeftFacts ==
    ASSUME MigrationsTypeOK, NEW p \in Openers, Left(p)
    PROVE  /\ Open(p) /\ ~Finished(p) /\ In(p, Stage(p)) /\ Stage(p) \in Versions
           /\ opening[p].next \in Numbers(Stage(p))
           /\ Upcoming(p) = Nth(Stage(p), opening[p].next)
           /\ Upcoming(p) \in Statements(Stage(p))
<1>1. Open(p) /\ ~Finished(p)
  BY DEF Left
<1>2. /\ In(p, Stage(p)) /\ Stage(p) \in Versions
      /\ opening[p].next \in Numbers(Stage(p))
  BY <1>1, InAVersion
<1>3. Upcoming(p) = Nth(Stage(p), opening[p].next)
  BY DEF Upcoming, Nth, Stage
<1> QED
  BY <1>1, <1>2, <1>3, VersionFacts

\* A process at the beginning of a version, or at the end of all.
LEMMA AtFacts ==
    ASSUME NEW u \in Versions \cup {LastVersion + 1}
    PROVE  /\ At(u) \in [version : 0 .. LastVersion + 1, next : Nat \ {0}, lacking : SUBSET Asked]
           /\ At(u).version = u /\ At(u).next = 1 /\ At(u).lacking = {}
           /\ u \in Versions => At(u).next \in 1 .. Len(Migrations[u]) + 1
           /\ u \notin Versions => At(u) = Opened
           /\ At(u) # Closed
<1>1. u \in 0 .. LastVersion + 1 /\ u # 0
  BY VersionFacts, MigrationsAssumption DEF Versions
<1>2. u \in Versions => Len(Migrations[u]) \in Nat
  BY VersionFacts
<1>3. At(u).version = u /\ At(u).next = 1 /\ At(u).lacking = {} /\ Closed.version = 0
  BY DEF At, Closed
<1>4. At(u) \in [version : 0 .. LastVersion + 1, next : Nat \ {0}, lacking : SUBSET Asked]
  BY <1>1 DEF At
<1>5. u \notin Versions => At(u) = Opened
  BY DEF Opened
<1> QED
  BY <1>1, <1>2, <1>3, <1>4, <1>5

LEMMA NextIsAt ==
    ASSUME MigrationsTypeOK, NEW p \in Openers, Open(p), ~Finished(p), NextVersion(p)
    PROVE  /\ Stage(p) \in Versions /\ Stage(p) + 1 \in Versions \cup {LastVersion + 1}
           /\ opening' = [opening EXCEPT ![p] = At(Stage(p) + 1)]
<1>1. Stage(p) \in Versions
  BY InAVersion
<1>2. Stage(p) + 1 \in Versions \cup {LastVersion + 1}
  BY <1>1, VersionFacts
<1>3. opening' = [opening EXCEPT ![p] = At(Stage(p) + 1)]
  BY DEF NextVersion, MigrationsTypeOK, Stage
<1> QED
  BY <1>1, <1>2, <1>3

\* What a statement that is run does to its process.
LEMMA Ran ==
    ASSUME MigrationsTypeOK, NEW p \in Openers, Run(p)
    PROVE  /\ Left(p) /\ ~Throws(p) /\ schema' = SchemaAfter(p)
           /\ opening'[p].version = Stage(p) /\ opening'[p].next = opening[p].next + 1
           /\ opening'[p].lacking =
                CASE Upcoming(p).op = "inspect" -> Lacking(Upcoming(p))
                  [] Upcoming(p).op = "add lacking" -> opening[p].lacking \ ToSet(Upcoming(p).columns)
                  [] OTHER -> opening[p].lacking
           /\ DOMAIN opening' = Openers
           /\ \A q \in Openers \ {p} : opening'[q] = opening[q]
           /\ faults' = faults /\ quiet' = quiet /\ interrupted' = interrupted
BY DEF Run, MigrationsTypeOK, Stage

LEMMA SchemaStays ==
    ASSUME MigrationsTypeOK, NEW p \in Openers, Left(p) PROVE SchemaAfter(p) \subseteq schema \cup Addable
<1>1. Upcoming(p) \in Statements(Stage(p)) /\ Stage(p) \in Versions
  BY LeftFacts
<1>2. Upcoming(p).op \in Adding => Named(Upcoming(p)) \subseteq Addable
  BY <1>1 DEF Addable, NamedBy
<1> QED
  BY <1>2 DEF SchemaAfter, Alters, Adding, Altering

LEMMA MigrationsInitType == MigrationsInit => MigrationsTypeOK
<1>1. LastVersion \in Nat
  BY MigrationsAssumption
<1> QED
  BY <1>1, MigrationsAssumption DEF MigrationsInit, MigrationsTypeOK, Closed

\* Arriving somewhere, or leaving the database.
LEMMA PlacedType ==
    ASSUME MigrationsTypeOK, NEW p \in Openers,
           NEW place, opening' = [opening EXCEPT ![p] = place],
           place = Closed \/ (\E u \in Versions \cup {LastVersion + 1} : place = At(u)),
           schema' = schema, recorded' = recorded, faults' \in 0 .. MaxFaults,
           interrupted' \subseteq Versions, quiet' \subseteq Openers
    PROVE  MigrationsTypeOK'
<1>1. Closed \in [version : 0 .. LastVersion + 1, next : Nat \ {0}, lacking : SUBSET Asked]
  BY MigrationsAssumption DEF Closed, Versions
<1>2. place \in [version : 0 .. LastVersion + 1, next : Nat \ {0}, lacking : SUBSET Asked]
  BY <1>1, AtFacts
<1>3. \/ place \in {Closed, Opened}
      \/ place.version \in Versions /\ place.next \in 1 .. Len(Migrations[place.version]) + 1
  BY AtFacts
<1>4. \A q \in Openers :
          \/ opening'[q] \in {Closed, Opened}
          \/ /\ opening'[q].version \in Versions
             /\ opening'[q].next \in 1 .. Len(Migrations[opening'[q].version]) + 1
  BY <1>3 DEF MigrationsTypeOK
<1> QED
  BY <1>2, <1>4 DEF MigrationsTypeOK

LEMMA MigrationsTypeStep ==
    MigrationsTypeOK /\ [MigrationsNext]_migrationVars => MigrationsTypeOK'
<1> SUFFICES ASSUME MigrationsTypeOK, [MigrationsNext]_migrationVars PROVE MigrationsTypeOK'
  OBVIOUS
<1>1. CASE UNCHANGED migrationVars
  BY <1>1 DEF migrationVars, MigrationsTypeOK
<1>2. ASSUME NEW p \in Openers, OpenDatabase(p) PROVE MigrationsTypeOK'
  BY <1>2, PlacedType, VersionFacts DEF OpenDatabase, MigrationsTypeOK
<1>3. ASSUME NEW p \in Openers, Run(p) PROVE MigrationsTypeOK'
  <2>1. Stage(p) \in Versions /\ opening[p].next \in Numbers(Stage(p))
        /\ Upcoming(p) \in Statements(Stage(p))
    BY <1>3, Ran, LeftFacts
  <2>2. schema' \subseteq OldColumns \cup Addable
    BY <1>3, Ran, SchemaStays DEF MigrationsTypeOK
  <2>3. recorded' \subseteq Versions
    BY <1>3, <2>1 DEF Run, MigrationsTypeOK, Stage
  <2>4. opening'[p].lacking \subseteq Asked
    <3>1. opening[p].lacking \subseteq Asked
      BY DEF MigrationsTypeOK
    <3>2. Upcoming(p).op = "inspect" => Lacking(Upcoming(p)) \subseteq Asked
      <4>1. ASSUME Upcoming(p).op = "inspect" PROVE Named(Upcoming(p)) \subseteq NamedBy({"inspect"})
        BY <2>1, <4>1 DEF NamedBy
      <4>2. \A c \in ToSet(Upcoming(p).columns) : /\ <<Upcoming(p).table, c>> \in Named(Upcoming(p))
                                                  /\ <<Upcoming(p).table, c>>[2] = c
        BY DEF Named
      <4> QED
        BY <4>1, <4>2 DEF Lacking, Asked
    <3> QED
      BY <1>3, <3>1, <3>2, Ran
  <2>5. opening'[p].next \in 1 .. Len(Migrations[opening'[p].version]) + 1
        /\ opening'[p].version \in Versions
    <3>1. Len(Migrations[Stage(p)]) \in Nat
      BY <2>1, VersionFacts
    <3>2. opening[p].next + 1 \in 1 .. Len(Migrations[Stage(p)]) + 1
      BY <2>1, <3>1 DEF Numbers
    <3>3. opening'[p].version = Stage(p) /\ opening'[p].next = opening[p].next + 1
      BY <1>3, Ran
    <3> QED
      BY <2>1, <3>2, <3>3
  <2>6. opening' \in [Openers -> [version : 0 .. LastVersion + 1, next : Nat \ {0},
                                lacking : SUBSET Asked]]
    <3>1. opening' = [opening EXCEPT ![p] = opening'[p]]
          /\ opening'[p] = [opening[p] EXCEPT !.next = opening'[p].next, !.lacking = opening'[p].lacking]
      BY <1>3 DEF Run, MigrationsTypeOK
    <3>2. opening'[p].next \in Nat \ {0}
      <4>1. opening[p].next \in Nat
        BY DEF MigrationsTypeOK
      <4>2. opening'[p].next = opening[p].next + 1
        BY <1>3, Ran
      <4> QED
        BY <4>1, <4>2
    <3> QED
      BY <2>4, <3>1, <3>2 DEF MigrationsTypeOK
  <2> QED
    BY <1>3, <2>2, <2>3, <2>5, <2>6, Ran DEF MigrationsTypeOK
<1>4. ASSUME NEW p \in Openers, EndVersion(p) PROVE MigrationsTypeOK'
  <2>1. Open(p) /\ ~Finished(p) /\ NextVersion(p)
    BY <1>4 DEF EndVersion
  <2>2. UNCHANGED <<schema, recorded, faults, interrupted, quiet>>
    BY <1>4 DEF EndVersion
  <2> QED
    BY <2>1, <2>2, NextIsAt, PlacedType DEF MigrationsTypeOK
<1>5. ASSUME NEW p \in Openers, CloseDatabase(p) PROVE MigrationsTypeOK'
  BY <1>5, PlacedType DEF CloseDatabase, MigrationsTypeOK
<1>6. ASSUME NEW p \in Openers, Fault(p), 
             \/ opening' = [opening EXCEPT ![p].next = @ + 1]
             \/ opening' = [opening EXCEPT ![p] = Closed]
             \/ NextVersion(p)
      PROVE MigrationsTypeOK'
  <2>1. Open(p) /\ ~Finished(p) /\ Stage(p) \in Versions /\ opening[p].next \in Numbers(Stage(p))
    BY <1>6, LeftFacts DEF Fault
  <2>2. /\ faults' \in 0 .. MaxFaults /\ interrupted' \subseteq Versions /\ quiet' \subseteq Openers
        /\ schema' = schema /\ recorded' = recorded
    BY <1>6, <2>1, MigrationsAssumption DEF Fault, MigrationsTypeOK, Stage
  <2>3. CASE opening' = [opening EXCEPT ![p].next = @ + 1]
    <3>1. Len(Migrations[Stage(p)]) \in Nat
      BY <2>1, VersionFacts
    <3>2. opening[p].next + 1 \in 1 .. Len(Migrations[Stage(p)]) + 1
      BY <2>1, <3>1 DEF Numbers
    <3>3. opening'[p].version = Stage(p) /\ opening'[p].next = opening[p].next + 1
          /\ opening'[p] = [opening[p] EXCEPT !.next = opening[p].next + 1]
          /\ \A q \in Openers \ {p} : opening'[q] = opening[q]
          /\ opening' = [opening EXCEPT ![p] = opening'[p]]
      BY <2>3 DEF MigrationsTypeOK, Stage
    <3>4. opening[p].next \in Nat
      BY DEF MigrationsTypeOK
    <3>5. opening' \in [Openers -> [version : 0 .. LastVersion + 1, next : Nat \ {0},
                                lacking : SUBSET Asked]]
      <4>1. opening[p] \in [version : 0 .. LastVersion + 1, next : Nat \ {0}, lacking : SUBSET Asked]
        BY DEF MigrationsTypeOK
      <4>2. opening'[p] \in [version : 0 .. LastVersion + 1, next : Nat \ {0}, lacking : SUBSET Asked]
        BY <3>3, <3>4, <4>1
      <4>3. opening \in [Openers -> [version : 0 .. LastVersion + 1, next : Nat \ {0},
                                lacking : SUBSET Asked]]
        BY DEF MigrationsTypeOK
      <4>4. opening' = [opening EXCEPT ![p] = opening'[p]]
        BY <2>3 DEF MigrationsTypeOK
      <4> QED
        BY <4>2, <4>3, <4>4
    <3>6. opening'[p].version \in Versions
          /\ opening'[p].next \in 1 .. Len(Migrations[opening'[p].version]) + 1
      BY <2>1, <3>2, <3>3
    <3> QED
      BY <2>2, <3>3, <3>5, <3>6 DEF MigrationsTypeOK
  <2>4. CASE opening' = [opening EXCEPT ![p] = Closed]
    BY <2>2, <2>4, PlacedType
  <2>5. CASE NextVersion(p)
    BY <2>1, <2>2, <2>5, NextIsAt, PlacedType
  <2> QED
    BY <1>6, <2>3, <2>4, <2>5
<1>7. ASSUME NEW p \in Openers, Locked(p) \/ Crash(p) PROVE MigrationsTypeOK'
  BY <1>6, <1>7 DEF Locked, Crash
<1> QED
  BY <1>1, <1>2, <1>3, <1>4, <1>5, <1>7 DEF MigrationsNext

\* The schema, the versions and what a process still has to do keep their shape.
THEOREM MigrationsTypeInvariant == MigrationsSpec => []MigrationsTypeOK
  BY MigrationsInitType, MigrationsTypeStep, PTL DEF MigrationsSpec

-----------------------------------------------------------------------------
(* What a statement does to the schema. *)

\* A statement on one column names that one.
LEMMA NamesOne ==
    ASSUME WellOrdered, NEW v \in Versions, NEW n \in Numbers(v),
           Nth(v, n).op \in Altering \cup {"tried", "index"}
    PROVE  Named(Nth(v, n)) = {Target(Nth(v, n))}
           /\ ToSet(Nth(v, n).columns) = {Nth(v, n).columns[1]}
<1>1. ToSet(Nth(v, n).columns) = {Nth(v, n).columns[1]}
  BY DEF WellOrdered, Shapes
<1> QED
  BY <1>1 DEF Named, Target

\* What it removes is dropped, and what it adds it names.
LEMMA Keeps ==
    ASSUME WellOrdered, MigrationsTypeOK, NEW p \in Openers, Left(p), schema' = SchemaAfter(p)
    PROVE  /\ \A column \in schema : ~Dropped(column[1]) => column \in schema'
           /\ \A column \in schema' : column \notin schema =>
                 /\ Upcoming(p).op \in Adding /\ column \in Named(Upcoming(p))
                 /\ Upcoming(p).op = "add lacking" =>
                      Upcoming(p).columns[1] \in opening[p].lacking
           /\ \A t : HasTable(t) /\ ~HasTable(t)' => Drop(t) = Upcoming(p)
<1>1. Upcoming(p) = Nth(Stage(p), opening[p].next) /\ Upcoming(p) \in Statements(Stage(p))
      /\ Stage(p) \in Versions /\ opening[p].next \in Numbers(Stage(p))
  BY LeftFacts
<1>2. Upcoming(p).op = "drop" => Upcoming(p) = Drop(Upcoming(p).table)
                                 /\ Dropped(Upcoming(p).table)
  BY <1>1 DEF WellOrdered, Shapes, Dropped
<1>3. \/ schema \subseteq schema'
      \/ /\ Upcoming(p).op = "drop"
         /\ schema' = {column \in schema : column[1] # Upcoming(p).table}
  BY DEF SchemaAfter
<1>4. \A column \in schema : ~Dropped(column[1]) => column \in schema'
  BY <1>2, <1>3
<1>5. \A column \in schema' : column \notin schema =>
                 /\ Upcoming(p).op \in Adding /\ column \in Named(Upcoming(p))
                 /\ Upcoming(p).op = "add lacking" =>
                      Upcoming(p).columns[1] \in opening[p].lacking
  BY DEF SchemaAfter, Adding, Altering, Alters
<1>6. ASSUME NEW t, HasTable(t), ~HasTable(t)' PROVE Drop(t) = Upcoming(p)
  BY <1>2, <1>3, <1>6 DEF HasTable
<1> QED
  BY <1>4, <1>5, <1>6

\* A column named has its statement's table.
LEMMA NamedTable == \A s : \A column \in Named(s) : column[1] = s.table /\ column[2] \in ToSet(s.columns)
                                                    /\ column = <<column[1], column[2]>>
BY DEF Named

LEMMA LateIsWanted ==
    ASSUME NEW v \in Versions, NEW column \in Late(v)
    PROVE  ~Dropped(column[1]) /\ \E k \in Numbers(v) : column \in LateAt(v, k)
<1>1. PICK k \in Numbers(v) : column \in LateAt(v, k)
  BY DEF Late
<1>2. column \in Wanted
  BY <1>1 DEF LateAt
<1> QED
  BY <1>1, <1>2 DEF Wanted

LEMMA EarlyIsWanted ==
    ASSUME NEW v \in Versions, NEW column \in Early(v)
    PROVE  ~Dropped(column[1]) /\ \E k \in Numbers(v) : column \in EarlyAt(v, k)
<1>1. PICK k \in Numbers(v) : column \in EarlyAt(v, k)
  BY DEF Early
<1>2. column \in Wanted
  BY <1>1 DEF EarlyAt
<1> QED
  BY <1>1, <1>2 DEF Wanted

LEMMA AlterIsLate ==
    ASSUME WellOrdered, NEW v \in Versions, NEW k \in Numbers(v), Nth(v, k).op \in Altering
    PROVE  IsLate(v, k)
<1>1. k \in 1 .. k
  BY VersionFacts DEF Numbers
<1>2. CASE Nth(v, k).op = "add"
  BY <1>1, <1>2 DEF IsLate
<1>3. CASE Nth(v, k).op = "add lacking"
  <2>1. PICK m \in 1 .. k - 1 : Nth(v, m).op = "inspect"
    BY <1>3 DEF WellOrdered, GuardsSound
  <2>2. m \in 1 .. k
    BY <2>1, VersionFacts DEF Numbers
  <2> QED
    BY <2>1, <2>2 DEF IsLate
<1> QED
  BY <1>2, <1>3 DEF Altering

\* The columns of the ALTERs of a version that has late columns are never dropped.
LEMMA AltersStay ==
    ASSUME WellOrdered, NEW v \in Versions, NEW k \in Numbers(v), Genuine(v, k),
           Late(v) # {} \/ ~Dropped(Nth(v, k).table)
    PROVE  ~Dropped(Nth(v, k).table) /\ Target(Nth(v, k)) \in Late(v)
<1>1. Nth(v, k).op \in Altering /\ ~Redundant(v, k)
  BY DEF Genuine
<1>2. ~Dropped(Nth(v, k).table)
  BY <1>1 DEF WellOrdered, TablesSound
<1>3. Target(Nth(v, k)) \in Named(Nth(v, k))
  BY <1>1, NamesOne
<1>4. IsLate(v, k)
  BY <1>1, AlterIsLate
<1>5. Nth(v, k) \in Statements(v)
  BY VersionFacts
<1>6. Target(Nth(v, k)) \in Wanted
  <2>1. Target(Nth(v, k)) \in NamedBy(Adding \ {"tried"})
    BY <1>1, <1>3, <1>5 DEF NamedBy, Adding, Altering
  <2>2. Target(Nth(v, k))[1] = Nth(v, k).table
    BY DEF Target
  <2> QED
    BY <1>2, <2>1, <2>2 DEF Wanted, Altering
<1>7. Target(Nth(v, k)) \in LateAt(v, k)
  BY <1>1, <1>3, <1>4, <1>6 DEF LateAt, Adding, Altering
<1> QED
  BY <1>2, <1>7 DEF Late

\* In a version of unguarded ALTERs the late columns are theirs.
LEMMA PlainLate ==
    ASSUME WellOrdered, NEW v \in Versions, Plain(v), NEW k \in Numbers(v), NEW column \in LateAt(v, k)
    PROVE  Nth(v, k).op = "add" /\ Genuine(v, k) /\ column = Target(Nth(v, k))
<1>1. PICK n \in Numbers(v) : Nth(v, n).op = "add"
  BY DEF Plain
<1>2. \A m \in Numbers(v) : Nth(v, m).op # "inspect"
  BY <1>1 DEF WellOrdered, GuardsSound
<1>3. /\ IsLate(v, k) /\ Nth(v, k).op \in Adding \ {"tried"} /\ column \in Named(Nth(v, k))
      /\ ~Redundant(v, k)
  BY DEF LateAt
<1>4. PICK m \in 1 .. k : Nth(v, m).op \in {"inspect", "add"}
  BY <1>3 DEF IsLate
<1>5. m \in Numbers(v) /\ m \in Nat /\ k \in Nat /\ (m = k \/ m < k)
  BY <1>4, VersionFacts DEF Numbers
<1>6. Nth(v, m).op = "add"
  BY <1>2, <1>4, <1>5
<1>7. Nth(v, k).op = "add"
  BY <1>3, <1>5, <1>6 DEF WellOrdered, LateSound
<1>8. Named(Nth(v, k)) = {Target(Nth(v, k))}
  BY <1>7, NamesOne DEF Altering
<1> QED
  BY <1>3, <1>7, <1>8 DEF Genuine, Altering

LEMMA StarThere ==
    ASSUME SchemaSound, NEW t, HasTable(t) PROVE <<t, "*">> \in schema
BY DEF SchemaSound, HasTable

\* The ALTER that has added a column.
LEMMA AddedBy ==
    ASSUME WellOrdered, MigrationsTypeOK, NEW p \in Openers, Left(p), schema' = SchemaAfter(p),
           NEW w \in Versions, NEW k \in Numbers(w), Genuine(w, k),
           Target(Nth(w, k)) \in schema', Target(Nth(w, k)) \notin schema
    PROVE  /\ In(p, w) /\ opening[p].next = k /\ Alters(p)
<1>1. /\ Upcoming(p).op \in Adding /\ Target(Nth(w, k)) \in Named(Upcoming(p))
      /\ Upcoming(p).op = "add lacking" => Upcoming(p).columns[1] \in opening[p].lacking
  BY Keeps
<1>2. /\ Upcoming(p) = Nth(Stage(p), opening[p].next) /\ Stage(p) \in Versions
      /\ opening[p].next \in Numbers(Stage(p))
  BY LeftFacts
<1>3. w = Stage(p) /\ k = opening[p].next
  BY <1>1, <1>2 DEF WellOrdered, Unique
<1> QED
  BY <1>1, <1>2, <1>3 DEF In, Alters, Altering, Genuine

LEMMA SchemaRan ==
    ASSUME WellOrdered, MigrationsTypeOK, SchemaSound, NEW p \in Openers, LateSoundFor(p), Run(p)
    PROVE  SchemaSound'
<1>1. Left(p) /\ ~Throws(p) /\ schema' = SchemaAfter(p)
  BY Ran
<1>2. /\ Upcoming(p) = Nth(Stage(p), opening[p].next) /\ Stage(p) \in Versions
      /\ opening[p].next \in Numbers(Stage(p)) /\ In(p, Stage(p))
  BY <1>1, LeftFacts
<1> DEFINE s == Upcoming(p)
<1>3. \A column \in schema : ~Dropped(column[1]) => column \in schema'
  BY <1>1, Keeps
<1>4. ASSUME NEW column \in schema', column \notin schema
      PROVE  /\ s.op \in Adding /\ column \in Named(s) /\ column[1] = s.table
             /\ schema' = schema \cup Named(s)
             /\ s.op # "create" => HasTable(s.table)
             /\ s.op = "create" => ~HasTable(s.table)
  <2>1. column \in Named(s) /\ s.op \in Adding
    BY <1>1, <1>4, Keeps
  <2>2. Alters(p) => HasTable(s.table)
    BY <1>1 DEF Throws
  <2> QED
    BY <1>1, <1>4, <2>1, <2>2, NamedTable DEF SchemaAfter, Adding, Altering, Alters
<1>5. \A column \in schema' : <<column[1], "*">> \in schema'
  <2> SUFFICES ASSUME NEW column \in schema' PROVE <<column[1], "*">> \in schema'
    OBVIOUS
  <2>1. CASE column \in schema
    <3>1. <<column[1], "*">> \in schema
      BY <2>1 DEF SchemaSound
    <3>2. <<column[1], "*">>[1] = column[1]
      OBVIOUS
    <3> QED
      BY <1>1, <2>1, <3>1, <3>2 DEF SchemaAfter
  <2>2. CASE column \notin schema
    <3>1. CASE s.op = "create"
      <4>1. "*" \in ToSet(s.columns)
        BY <1>2, <3>1 DEF WellOrdered, Shapes
      <4> QED
        BY <1>4, <2>2, <4>1 DEF Named
    <3>2. CASE s.op # "create"
      BY <1>4, <2>2, <3>2, StarThere
    <3> QED
      BY <3>1, <3>2
  <2> QED
    BY <2>1, <2>2
<1>6. ASSUME NEW t, NEW c, Bundled(t, c), HasTable(t)' PROVE Has(t, c)'
  <2>1. ~Dropped(t) /\ <<t, c>>[1] = t
    BY <1>6 DEF Bundled
  <2>2. CASE HasTable(t)
    <3>1. <<t, c>> \in schema
      BY <1>6, <2>2 DEF SchemaSound, Has
    <3> QED
      BY <1>3, <2>1, <3>1 DEF Has
  <2>3. CASE ~HasTable(t)
    <3>1. PICK column \in schema' : column[1] = t
      BY <1>6 DEF HasTable
    <3>2. column \notin schema
      BY <2>3, <3>1 DEF HasTable
    <3>3. s.op = "create" /\ s.table = t /\ schema' = schema \cup Named(s)
      BY <1>4, <2>3, <3>1, <3>2
    <3>4. Creating(Stage(p), opening[p].next, t)
      BY <1>2, <3>3 DEF Creating
    <3>5. <<t, c>> \in Named(s)
      BY <1>2, <1>6, <3>4 DEF Bundled
    <3> QED
      BY <3>3, <3>5 DEF Has
  <2> QED
    BY <2>2, <2>3
<1>7. ASSUME NEW v \in Versions, NEW n \in Numbers(v), NEW m \in Numbers(v), n < m,
             Genuine(v, n), Genuine(v, m),
             ~Dropped(Nth(v, n).table), Target(Nth(v, m)) \in schema'
      PROVE  Target(Nth(v, n)) \in schema'
  <2>1. Target(Nth(v, n))[1] = Nth(v, n).table
    BY DEF Target
  <2>2. CASE Target(Nth(v, m)) \in schema
    <3>1. Target(Nth(v, n)) \in schema
      BY <1>7, <2>2 DEF SchemaSound
    <3> QED
      BY <1>3, <1>7, <2>1, <3>1
  <2>3. CASE Target(Nth(v, m)) \notin schema
    <3>1. In(p, v) /\ opening[p].next = m
      BY <1>1, <1>7, <2>3, AddedBy
    <3>2. Target(Nth(v, n)) \in Late(v)
      BY <1>7, AltersStay
    <3>3. SUFFICES ASSUME Target(Nth(v, n)) \notin schema PROVE FALSE
      BY <1>3, <1>7, <2>1
    <3>4. LateAhead(p, Target(Nth(v, n)))
      BY <3>1, <3>2, <3>3 DEF LateSoundFor
    <3>5. PICK k \in Numbers(v) : k >= m /\ Target(Nth(v, n)) \in LateAt(v, k)
      BY <3>1, <3>4 DEF LateAhead, In
    <3>6. Nth(v, k).op \in Adding /\ Target(Nth(v, n)) \in Named(Nth(v, k))
      BY <3>5 DEF LateAt
    <3>7. k = n
      BY <1>7, <3>6 DEF WellOrdered, Unique
    <3>8. n \in Nat /\ m \in Nat
      BY VersionFacts DEF Numbers
    <3> QED
      BY <1>7, <3>5, <3>7, <3>8
  <2> QED
    BY <2>2, <2>3
<1>8. \A column \in OldColumns : ~Dropped(column[1]) => column \in schema'
  BY <1>3 DEF SchemaSound
<1> QED
  BY <1>5, <1>6, <1>7, <1>8 DEF SchemaSound

-----------------------------------------------------------------------------
(* What is missing of a version stays ahead of a process that is in it. *)

LEMMA LateAgain ==
    ASSUME WellOrdered, NEW v \in Versions, NEW n \in Numbers(v), NEW m \in Numbers(v), n <= m, IsLate(v, n)
    PROVE  IsLate(v, m)
<1>1. n \in Nat /\ m \in Nat
  BY VersionFacts DEF Numbers
<1> QED
  BY <1>1 DEF IsLate

\* A CREATE that is late brings a table and no more, and a table that is there has "*".
LEMMA LateCreate ==
    ASSUME WellOrdered, SchemaSound, NEW v \in Versions, NEW n \in Numbers(v),
           Nth(v, n).op = "create", NEW column \in LateAt(v, n), HasTable(Nth(v, n).table)
    PROVE  column \in schema
<1>1. column \in Named(Nth(v, n)) \cap Wanted /\ IsLate(v, n)
  BY DEF LateAt
<1>2. column = <<Nth(v, n).table, column[2]>>
  BY <1>1, NamedTable
<1>3. CASE Bundled(Nth(v, n).table, column[2])
  BY <1>2, <1>3 DEF SchemaSound, Has
<1>4. CASE column[2] # "*" /\ ~Bundled(Nth(v, n).table, column[2])
  <2>1. PICK m \in Numbers(v) : m > n /\ Nth(v, m).op = "tried"
    BY <1>1, <1>2, <1>4 DEF WellOrdered, TriesSound
  <2>2. n \in Nat /\ m \in Nat
    BY VersionFacts DEF Numbers
  <2>3. IsLate(v, m)
    BY <1>1, <2>1, <2>2, LateAgain
  <2> QED
    BY <2>1, <2>3 DEF WellOrdered, LateSound
<1>5. CASE column[2] = "*"
  BY <1>2, <1>5, StarThere
<1> QED
  BY <1>3, <1>4, <1>5

LEMMA LateRan ==
    ASSUME WellOrdered, MigrationsTypeOK, SchemaSound, NEW p \in Openers, Run(p),
           NEW q \in Openers, LateSoundFor(q)
    PROVE  LateSoundFor(q)'
<1> SUFFICES ASSUME NEW v \in Versions, In(q, v)', NEW column \in Late(v), column \notin schema'
             PROVE  LateAhead(q, column)'
  BY DEF LateSoundFor
<1>1. Left(p) /\ ~Throws(p) /\ schema' = SchemaAfter(p)
  BY Ran
<1>2. In(q, v)
  BY Ran DEF In, Stage
<1>3. column \notin schema
  BY <1>1, Keeps, LateIsWanted
<1>4. LateAhead(q, column)
  BY <1>2, <1>3 DEF LateSoundFor
<1>5. PICK k \in Numbers(v) :
        /\ k >= opening[q].next /\ column \in LateAt(v, k)
        /\ Nth(v, k).op = "add lacking" /\ Inspected(q) => column[2] \in opening[q].lacking
  BY <1>2, <1>4 DEF LateAhead, In
<1>6. /\ Nth(v, k).op \in Adding \ {"tried"} /\ IsLate(v, k)
      /\ column \in Named(Nth(v, k)) /\ column \in Wanted
  BY <1>5 DEF LateAt
<1>7. CASE q # p
  <2>1. opening'[q] = opening[q]
    BY <1>7, Ran
  <2> QED
    BY <1>4, <2>1 DEF LateAhead, Inspected, Stage
<1>8. CASE q = p
  <2> DEFINE n == opening[p].next
             s == Upcoming(p)
  <2>1. s = Nth(v, n) /\ n \in Numbers(v)
    BY <1>1, <1>2, <1>8, LeftFacts DEF In
  <2>2. n \in Nat /\ k \in Nat
    BY <2>1, VersionFacts DEF Numbers
  <2>3. opening'[p].next = n + 1 /\ opening'[p].version = v
    BY <1>2, <1>8, Ran DEF In
  <2>4. ASSUME k = n PROVE FALSE
    <3>2. CASE s.op = "create"
      <4>1. ~HasTable(s.table)
        BY <1>3, <1>5, <2>1, <2>4, <3>2, LateCreate
      <4> QED
        BY <1>1, <1>3, <1>6, <2>1, <2>4, <3>2, <4>1 DEF SchemaAfter
    <3>3. CASE s.op = "add"
      BY <1>1, <1>6, <2>1, <2>4, <3>3 DEF SchemaAfter, Alters
    <3>4. CASE s.op = "add lacking"
      <4>1. PICK m \in 1 .. n - 1 : Nth(v, m).op = "inspect"
        BY <2>1, <3>4 DEF WellOrdered, GuardsSound
      <4>2. m \in Numbers(v) /\ m < n
        <5>1. n <= Len(Migrations[v]) /\ Len(Migrations[v]) \in Nat
          BY <2>1, VersionFacts DEF Numbers
        <5> QED
          BY <2>2, <4>1, <5>1 DEF Numbers
      <4>3. Inspected(p)
        BY <1>2, <1>8, <4>1, <4>2 DEF Inspected, In
      <4>4. column[2] \in opening[p].lacking /\ column[2] \in ToSet(s.columns)
        BY <1>5, <1>6, <1>8, <2>1, <2>4, <3>4, <4>3, NamedTable
      <4>5. ToSet(s.columns) = {s.columns[1]}
        BY <2>1, <3>4, NamesOne DEF Altering
      <4>6. Alters(p)
        BY <3>4, <4>4, <4>5 DEF Alters
      <4> QED
        BY <1>1, <1>6, <2>1, <2>4, <3>4, <4>6 DEF SchemaAfter
    <3> QED
      BY <1>6, <2>1, <2>4, <3>2, <3>3, <3>4 DEF Adding, Altering
  <2>5. ASSUME Nth(v, k).op = "add lacking", Inspected(p)'
        PROVE  column[2] \in opening'[p].lacking
    <3>1. PICK m \in 1 .. k - 1 : /\ Nth(v, m).op = "inspect"
                                  /\ Target(Nth(v, k)) \in Named(Nth(v, m))
      BY <2>5 DEF WellOrdered, GuardsSound
    <3>2. Named(Nth(v, k)) = {Target(Nth(v, k))} /\ column = Target(Nth(v, k))
          /\ ToSet(Nth(v, k).columns) = {Nth(v, k).columns[1]}
      <4>1. Nth(v, k).op \in Altering
        BY <2>5 DEF Altering
      <4> QED
        BY <1>6, <4>1, NamesOne
    <3>3. m \in Numbers(v)
      BY <3>1, VersionFacts DEF Numbers
    <3>4. CASE s.op = "inspect"
      <4>1. m = n
        BY <2>1, <3>1, <3>3, <3>4 DEF WellOrdered, GuardsSound
      <4>2. column[2] \in ToSet(s.columns) /\ column = <<s.table, column[2]>>
        BY <2>1, <3>1, <3>2, <4>1, NamedTable
      <4>3. column[2] \in Lacking(s)
        BY <1>3, <4>2 DEF Lacking, Has
      <4> QED
        BY <3>4, <4>3, Ran
    <3>5. CASE s.op # "inspect"
      <4>1. Inspected(p)
        <5>1. PICK i \in Numbers(v) : i < n + 1 /\ Nth(v, i).op = "inspect"
          BY <2>3, <2>5 DEF Inspected, Stage
        <5>2. i \in Nat /\ i # n
          BY <2>1, <3>5, <5>1, VersionFacts DEF Numbers
        <5>3. i < n
          BY <2>2, <5>1, <5>2
        <5> QED
          BY <1>2, <1>8, <5>1, <5>3 DEF Inspected, In
      <4>2. column[2] \in opening[p].lacking
        BY <1>5, <1>8, <2>5, <4>1
      <4>3. CASE s.op = "add lacking" /\ column[2] \in ToSet(s.columns)
        <5>1. ToSet(s.columns) = {s.columns[1]} /\ s.op \in Altering
          BY <2>1, <4>3, NamesOne DEF Altering
        <5>2. Nth(v, k).op \in Altering /\ s.op \in Adding
          BY <2>5, <4>3 DEF Altering, Adding
        <5>3. s.table = Nth(v, k).table
          BY <2>1, <5>1, <5>2 DEF WellOrdered, TablesSound
        <5>4. column = <<Nth(v, k).table, column[2]>>
          BY <1>6, NamedTable
        <5>5. Target(Nth(v, k)) \in Named(s)
          BY <3>2, <4>3, <5>3, <5>4 DEF Named
        <5>6. k = n
          BY <2>1, <2>5, <5>2, <5>5 DEF WellOrdered, Unique, Genuine, Redundant
        <5> QED
          BY <2>4, <5>6
      <4>4. CASE ~(s.op = "add lacking" /\ column[2] \in ToSet(s.columns))
        BY <3>5, <4>2, <4>4, Ran
      <4> QED
        BY <4>3, <4>4
    <3> QED
      BY <3>4, <3>5
  <2>6. opening'[p].version = v /\ k >= opening'[p].next
    <3>1. k >= n /\ k # n
      BY <1>5, <1>8, <2>4
    <3>2. k >= n + 1
      BY <2>2, <3>1
    <3> QED
      BY <2>3, <3>2
  <2>7. LateAhead(p, column)'
    BY <1>5, <2>5, <2>6 DEF LateAhead, Stage
  <2> QED
    BY <1>8, <2>7 DEF LateAhead, Inspected, Stage
<1> QED
  BY <1>7, <1>8

\* A process that begins a version has all of it ahead.
LEMMA LateArrives ==
    ASSUME NEW p \in Openers, NEW u \in Versions \cup {LastVersion + 1}, opening'[p] = At(u)
    PROVE  LateSoundFor(p)'
<1> SUFFICES ASSUME NEW v \in Versions, In(p, v)', NEW column \in Late(v)
             PROVE  LateAhead(p, column)'
  BY DEF LateSoundFor
<1>1. opening'[p].version = v /\ opening'[p].next = 1
  BY AtFacts DEF In, Stage
<1>2. \A k \in Numbers(v) : k >= 1 /\ ~(k < 1)
  BY VersionFacts DEF Numbers
<1>3. ~Inspected(p)'
  BY <1>1, <1>2 DEF Inspected, Stage
<1>4. PICK k \in Numbers(v) : column \in LateAt(v, k)
  BY LateIsWanted
<1> QED
  BY <1>1, <1>2, <1>3, <1>4 DEF LateAhead, Stage

LEMMA LateStays ==
    ASSUME NEW q \in Openers, opening'[q] = opening[q], schema' = schema, LateSoundFor(q)
    PROVE  LateSoundFor(q)'
BY DEF LateSoundFor, LateAhead, Inspected, Stage, In

LEMMA LateCloses ==
    ASSUME NEW p \in Openers, opening'[p] = Closed PROVE LateSoundFor(p)'
BY VersionFacts DEF LateSoundFor, In, Stage, Closed

\* A statement in a try block of its own adds nothing late.
LEMMA LateTried ==
    ASSUME WellOrdered, MigrationsTypeOK, NEW p \in Openers, Left(p), Upcoming(p).op = "tried",
           schema' = schema, opening' = [opening EXCEPT ![p].next = @ + 1], LateSoundFor(p)
    PROVE  LateSoundFor(p)'
<1> SUFFICES ASSUME NEW v \in Versions, In(p, v)', NEW column \in Late(v), column \notin schema'
             PROVE  LateAhead(p, column)'
  BY DEF LateSoundFor
<1>1. /\ opening'[p].version = Stage(p) /\ opening'[p].next = opening[p].next + 1
      /\ opening'[p].lacking = opening[p].lacking
  BY DEF MigrationsTypeOK, Stage
<1>2. In(p, v)
  BY <1>1 DEF In, Stage
<1>3. LateAhead(p, column)
  BY <1>2 DEF LateSoundFor
<1>4. PICK k \in Numbers(v) :
        /\ k >= opening[p].next /\ column \in LateAt(v, k)
        /\ Nth(v, k).op = "add lacking" /\ Inspected(p) => column[2] \in opening[p].lacking
  BY <1>2, <1>3 DEF LateAhead, In
<1>5. opening[p].next \in Numbers(v) /\ Upcoming(p) = Nth(v, opening[p].next)
  BY <1>2, LeftFacts DEF In
<1>6. k # opening[p].next
  BY <1>4, <1>5 DEF LateAt
<1>7. k \in Nat /\ opening[p].next \in Nat
  BY <1>5, VersionFacts DEF Numbers
<1>8. Inspected(p)' => Inspected(p)
  <2> SUFFICES ASSUME Inspected(p)' PROVE Inspected(p)
    OBVIOUS
  <2>1. PICK m \in Numbers(v) : m < opening[p].next + 1 /\ Nth(v, m).op = "inspect"
    BY <1>1, <1>2 DEF Inspected, Stage, In
  <2>2. m \in Nat /\ m # opening[p].next
    BY <1>5, <2>1, VersionFacts DEF Numbers
  <2>3. m < opening[p].next
    BY <1>7, <2>1, <2>2
  <2> QED
    BY <1>2, <2>1, <2>3 DEF Inspected, In
<1>9. opening'[p].version = v /\ k >= opening'[p].next
  <2>1. k >= opening[p].next + 1
    <3>1. k >= opening[p].next /\ k # opening[p].next
      BY <1>4, <1>6
    <3> QED
      BY <1>7, <3>1
  <2> QED
    BY <1>1, <1>2, <2>1 DEF In
<1> QED
  BY <1>1, <1>4, <1>8, <1>9 DEF LateAhead, Stage

-----------------------------------------------------------------------------
(* What an undisturbed process has behind it is there. *)

\* A CREATE of a table that is never dropped brings a wanted column.
LEMMA CreatesColumn ==
    ASSUME WellOrdered, NEW v \in Versions, NEW m \in Numbers(v), NEW t,
           Creating(v, m, t), ~Dropped(t)
    PROVE  IF IsLate(v, m) THEN Late(v) # {} ELSE <<t, "*">> \in Early(v)
<1>1. Nth(v, m).op = "create" /\ Nth(v, m).table = t
  BY DEF Creating
<1>2. <<t, "*">> \in Named(Nth(v, m))
  BY <1>1 DEF WellOrdered, Shapes, Named
<1>3. <<t, "*">> \in Wanted
  <2>1. Nth(v, m) \in Statements(v)
    BY VersionFacts
  <2>2. <<t, "*">> \in NamedBy(Adding \ {"tried"})
    BY <1>1, <1>2, <2>1 DEF NamedBy, Adding
  <2>3. <<t, "*">>[1] = t
    OBVIOUS
  <2> QED
    BY <2>2, <2>3 DEF Wanted
<1>4. CASE IsLate(v, m)
  BY <1>1, <1>2, <1>3, <1>4 DEF LateAt, Late, Adding, Redundant
<1>5. CASE ~IsLate(v, m)
  BY <1>1, <1>2, <1>3, <1>5 DEF EarlyAt, Early
<1> QED
  BY <1>4, <1>5

\* After its CREATEs the table of an early version is there.
LEMMA CreatedEarly ==
    ASSUME WellOrdered, NEW p \in Openers, EarlySound(p), NEW v \in Versions, In(p, v),
           NEW t, <<t, "*">> \in Early(v),
           \A m \in Numbers(v) : Creating(v, m, t) => m < opening[p].next,
           opening[p].next \in Nat
    PROVE  HasTable(t)
<1>1. SUFFICES ASSUME <<t, "*">> \notin schema PROVE FALSE
  BY DEF HasTable
<1>2. EarlyAhead(p, <<t, "*">>)
  BY <1>1 DEF EarlySound
<1>3. PICK k \in Numbers(v) :
        /\ k >= opening[p].next
        /\ \/ <<t, "*">> \in EarlyAt(v, k)
           \/ Nth(v, k).op = "tried" /\ Target(Nth(v, k)) = <<t, "*">>
  BY <1>2 DEF EarlyAhead, In
<1>4. k \in Nat
  BY VersionFacts DEF Numbers
<1>5. CASE <<t, "*">> \in EarlyAt(v, k)
  <2>1. Nth(v, k).op = "create" /\ <<t, "*">> \in Named(Nth(v, k))
    BY <1>5 DEF EarlyAt
  <2>2. Creating(v, k, t)
    BY <2>1, NamedTable DEF Creating
  <2> QED
    BY <1>3, <1>4, <2>2
<1>6. CASE Nth(v, k).op = "tried" /\ Target(Nth(v, k)) = <<t, "*">>
  BY <1>6 DEF WellOrdered, Shapes, Target
<1> QED
  BY <1>3, <1>5, <1>6

LEMMA EarlyRan ==
    ASSUME WellOrdered, MigrationsTypeOK, SchemaSound, NEW p \in Openers, Run(p),
           NEW q \in Openers, EarlySound(q)
    PROVE  EarlySound(q)'
<1>1. Left(p) /\ ~Throws(p) /\ schema' = SchemaAfter(p)
  BY Ran
<1>2. Stage(q)' = Stage(q)
  BY Ran DEF Stage
<1>3. \A v \in Versions : \A column \in Early(v) : column \in schema => column \in schema'
  BY <1>1, Keeps, EarlyIsWanted
<1>4. \A v \in Versions : v < Stage(q)' => Early(v) \subseteq schema'
  BY <1>2, <1>3 DEF EarlySound
<1>5. ASSUME NEW v \in Versions, In(q, v)', NEW column \in Early(v), column \notin schema'
      PROVE  EarlyAhead(q, column)'
  <2>1. In(q, v) /\ column \notin schema
    BY <1>2, <1>3, <1>5 DEF In
  <2>2. EarlyAhead(q, column)
    BY <2>1 DEF EarlySound
  <2>3. CASE q # p
    <3>1. opening'[q] = opening[q]
      BY <2>3, Ran
    <3> QED
      BY <2>2, <3>1 DEF EarlyAhead, Stage
  <2>4. CASE q = p
    <3> DEFINE n == opening[p].next
               s == Upcoming(p)
    <3>1. PICK k \in Numbers(v) :
            /\ k >= n
            /\ column \in EarlyAt(v, k) \/ (Nth(v, k).op = "tried" /\ Target(Nth(v, k)) = column)
      BY <2>1, <2>2, <2>4 DEF EarlyAhead, In
    <3>2. s = Nth(v, n) /\ n \in Numbers(v)
      BY <1>1, <2>1, <2>4, LeftFacts DEF In
    <3>3. n \in Nat /\ k \in Nat
      BY <3>2, VersionFacts DEF Numbers
    <3>4. opening'[p].next = n + 1 /\ opening'[p].version = v
      BY <2>1, <2>4, Ran DEF In
    <3>5. ASSUME NEW m \in Numbers(v), m > n,
                 column \in EarlyAt(v, m) \/ (Nth(v, m).op = "tried" /\ Target(Nth(v, m)) = column)
          PROVE  EarlyAhead(p, column)'
      <4>1. m \in Nat
        BY VersionFacts DEF Numbers
      <4>2. m >= n + 1
        BY <3>3, <3>5, <4>1
      <4> QED
        BY <3>4, <3>5, <4>2 DEF EarlyAhead, Stage
    <3>6. CASE k # n
      <4>1. k > n
        BY <3>1, <3>3, <3>6
      <4> QED
        BY <2>4, <3>1, <3>5, <4>1 DEF EarlyAhead, Stage
    <3>7. CASE k = n /\ column \in EarlyAt(v, k)
      <4>1. s.op = "create" /\ column \in Named(s) /\ column \in Wanted
        BY <3>2, <3>7 DEF EarlyAt
      <4>2. HasTable(s.table)
        BY <1>1, <1>5, <4>1 DEF SchemaAfter
      <4>3. column = <<s.table, column[2]>>
        BY <4>1, NamedTable
      <4>4. column[2] # "*"
        BY <2>1, <4>2, <4>3, StarThere
      <4>5. ~Bundled(column[1], column[2])
        BY <2>1, <4>2, <4>3 DEF SchemaSound, Has
      <4>6. PICK m \in Numbers(v) : m > n /\ Nth(v, m).op = "tried" /\ Target(Nth(v, m)) = column
        BY <3>2, <4>1, <4>4, <4>5 DEF WellOrdered, TriesSound
      <4> QED
        BY <2>4, <3>5, <4>6 DEF EarlyAhead, Stage
    <3>8. CASE k = n /\ s.op = "tried" /\ Target(s) = column
      <4>1. column[1] = s.table /\ ~Dropped(s.table)
        BY <3>8, EarlyIsWanted DEF Target
      <4>2. PICK m \in Numbers(v) : Creating(v, m, s.table)
        BY <3>2, <3>8 DEF WellOrdered, TriesSound
      <4>3. \A i \in Numbers(v) : Creating(v, i, s.table) => i < n
        BY <3>2, <3>8 DEF WellOrdered, TriesSound
      <4>4. ~IsLate(v, m)
        <5>1. m \in Nat /\ m < n
          BY <4>2, <4>3, VersionFacts DEF Numbers
        <5>2. m <= n
          BY <3>3, <5>1
        <5> QED
          BY <3>2, <3>8, <5>2, LateAgain DEF WellOrdered, LateSound
      <4>5. <<s.table, "*">> \in Early(v)
        BY <4>1, <4>2, <4>4, CreatesColumn
      <4>6. HasTable(s.table)
        BY <2>1, <2>4, <3>3, <4>3, <4>5, CreatedEarly
      <4>7. column \in Named(s)
        BY <3>2, <3>8, NamesOne
      <4> QED
        BY <1>1, <1>5, <3>8, <4>6, <4>7 DEF SchemaAfter, Alters
    <3> QED
      BY <3>1, <3>2, <3>6, <3>7, <3>8
  <2> QED
    BY <2>3, <2>4
<1> QED
  BY <1>4, <1>5 DEF EarlySound

LEMMA EarlyStays ==
    ASSUME NEW q \in Openers, opening'[q] = opening[q], schema' = schema, EarlySound(q)
    PROVE  EarlySound(q)'
BY DEF EarlySound, EarlyAhead, Stage, In

LEMMA EarlyArrives ==
    ASSUME NEW p \in Openers, NEW u \in Versions \cup {LastVersion + 1}, opening'[p] = At(u),
           schema' = schema, \A v \in Versions : v < u => Early(v) \subseteq schema
    PROVE  EarlySound(p)'
<1>1. opening'[p].version = u /\ opening'[p].next = 1
  BY AtFacts
<1>2. ASSUME NEW v \in Versions, In(p, v)', NEW column \in Early(v) PROVE EarlyAhead(p, column)'
  <2>1. v = u
    BY <1>1, <1>2 DEF In, Stage
  <2>2. PICK k \in Numbers(v) : column \in EarlyAt(v, k)
    BY EarlyIsWanted
  <2>3. k >= 1
    BY VersionFacts DEF Numbers
  <2> QED
    BY <1>1, <2>1, <2>2, <2>3 DEF EarlyAhead, Stage
<1> QED
  BY <1>1, <1>2 DEF EarlySound, Stage

LEMMA EarlyCloses ==
    ASSUME NEW p \in Openers, opening'[p] = Closed PROVE EarlySound(p)'
<1>1. \A v \in Versions : ~(v < 0) /\ v # 0
  BY VersionFacts
<1> QED
  BY <1>1 DEF EarlySound, In, Stage, Closed

LEMMA IndexRan ==
    ASSUME WellOrdered, MigrationsTypeOK, NEW p \in Openers, Run(p),
           NEW q \in Openers, IndexSound(q), q # p => EarlySound(p)
    PROVE  IndexSound(q)'
<1> SUFFICES ASSUME NEW v \in Versions, In(q, v)', NEW n \in Numbers(v), NEW m \in Numbers(v),
                    m < opening'[q].next, opening'[q].next <= n, Nth(v, n).op = "index",
                    Overtaken(v, n), Creating(v, m, Nth(v, n).table)
             PROVE  HasTable(Nth(v, n).table)' \/ Early(v) \subseteq schema'
  BY DEF IndexSound
<1> DEFINE t == Nth(v, n).table
<1>1. Left(p) /\ ~Throws(p) /\ schema' = SchemaAfter(p)
  BY Ran
<1>2. In(q, v)
  BY Ran DEF In, Stage
<1>3. Early(v) \subseteq schema => Early(v) \subseteq schema'
  BY <1>1, Keeps, EarlyIsWanted
<1>4. CASE HasTable(t)
  <2>1. SUFFICES ASSUME ~HasTable(t)' PROVE Early(v) \subseteq schema
    BY <1>3
  <2>2. Drop(t) \in Statements(Stage(p)) /\ Stage(p) \in Versions
    BY <1>1, <1>4, <2>1, Keeps, LeftFacts
  <2>3. Stage(p) > v
    BY <2>2 DEF Overtaken
  <2>4. q # p
    BY <1>2, <2>3, VersionFacts DEF In
  <2>5. v < Stage(p)
    BY <2>2, <2>3, VersionFacts
  <2> QED
    BY <2>4, <2>5 DEF EarlySound
<1>5. CASE ~HasTable(t)
  <2>1. CASE q # p
    <3>1. opening'[q] = opening[q]
      BY <2>1, Ran
    <3>2. HasTable(t) \/ Early(v) \subseteq schema
      BY <1>2, <3>1 DEF IndexSound
    <3> QED
      BY <1>3, <1>5, <3>2
  <2>2. CASE q = p
    <3>1. opening'[p].next = opening[p].next + 1
      BY Ran
    <3>2. Upcoming(p) = Nth(v, opening[p].next) /\ opening[p].next \in Numbers(v)
      BY <1>1, <1>2, <2>2, LeftFacts DEF In
    <3>3. m \in Nat /\ n \in Nat /\ opening[p].next \in Nat
      BY <3>2, VersionFacts DEF Numbers
    <3>4. opening[p].next <= n /\ (m < opening[p].next \/ m = opening[p].next)
      BY <2>2, <3>1, <3>3
    <3>5. CASE m < opening[p].next
      <4>1. HasTable(t) \/ Early(v) \subseteq schema
        BY <1>2, <2>2, <3>4, <3>5 DEF IndexSound
      <4> QED
        BY <1>3, <1>5, <4>1
    <3>6. CASE m = opening[p].next
      <4>1. Upcoming(p).op = "create" /\ Upcoming(p).table = t
        BY <3>2, <3>6 DEF Creating
      <4>2. <<t, "*">> \in Named(Upcoming(p))
        BY <3>2, <4>1 DEF WellOrdered, Shapes, Named
      <4>3. <<t, "*">> \in schema'
        BY <1>1, <1>5, <4>1, <4>2 DEF SchemaAfter
      <4> QED
        BY <4>3 DEF HasTable
    <3> QED
      BY <3>4, <3>5, <3>6
  <2> QED
    BY <2>1, <2>2
<1> QED
  BY <1>4, <1>5

LEMMA IndexStays ==
    ASSUME NEW q \in Openers, opening'[q] = opening[q], schema' = schema, IndexSound(q)
    PROVE  IndexSound(q)'
BY DEF IndexSound, Stage, In, HasTable

LEMMA IndexPlaced ==
    ASSUME NEW p \in Openers, NEW u \in Versions \cup {LastVersion + 1},
           opening'[p] \in {At(u), Closed}
    PROVE  IndexSound(p)'
<1>1. opening'[p].next = 1
  BY AtFacts DEF Closed
<1>2. \A v \in Versions : \A m \in Numbers(v) : ~(m < 1)
  BY VersionFacts DEF Numbers
<1> QED
  BY <1>1, <1>2 DEF IndexSound

\* What an undisturbed process leaves behind it is there.
LEMMA LeavesEarly ==
    ASSUME WellOrdered, MigrationsTypeOK, SchemaSound, NEW p \in Openers, Open(p), ~Finished(p),
           EarlySound(p), IndexSound(p), Left(p) => Throws(p)
    PROVE  Early(Stage(p)) \subseteq schema
<1> DEFINE v == Stage(p)
           n == opening[p].next
           s == Upcoming(p)
           t == s.table
<1>1. v \in Versions /\ In(p, v) /\ n \in Nat
  BY InAVersion
<1>2. SUFFICES ASSUME NEW column \in Early(v), column \notin schema PROVE FALSE
  OBVIOUS
<1>3. EarlyAhead(p, column)
  BY <1>1, <1>2 DEF EarlySound
<1>4. PICK k \in Numbers(v) :
        /\ k >= n
        /\ column \in EarlyAt(v, k) \/ (Nth(v, k).op = "tried" /\ Target(Nth(v, k)) = column)
  BY <1>3 DEF EarlyAhead
<1>5. k \in Nat
  BY <1>1, VersionFacts DEF Numbers
<1>6. Left(p) /\ Throws(p)
  BY <1>1, <1>4, <1>5, InAVersion
<1>7. s = Nth(v, n) /\ n \in Numbers(v)
  BY <1>6, LeftFacts
<1>8. /\ Nth(v, k).op \in {"create", "tried"} /\ ~IsLate(v, k)
      /\ column \in Named(Nth(v, k)) /\ column \in Wanted
  <2>1. column \in Wanted
    BY <1>1 DEF Early, EarlyAt
  <2>2. CASE column \in EarlyAt(v, k)
    BY <2>1, <2>2 DEF EarlyAt
  <2>3. CASE Nth(v, k).op = "tried" /\ Target(Nth(v, k)) = column
    <3>1. ~IsLate(v, k)
      BY <1>1, <2>3 DEF WellOrdered, LateSound
    <3>2. Named(Nth(v, k)) = {column}
      BY <1>1, <2>3, NamesOne
    <3> QED
      BY <2>1, <2>3, <3>1, <3>2
  <2> QED
    BY <1>4, <2>2, <2>3
<1>9. CASE Alters(p)
  <2>1. IsLate(v, n)
    BY <1>1, <1>7, <1>9, AlterIsLate DEF Alters, Altering
  <2> QED
    BY <1>1, <1>4, <1>7, <1>8, <2>1, LateAgain
<1>10. CASE ~Alters(p)
  <2>1. s.op = "index" /\ ~Has(t, s.columns[1])
    BY <1>6, <1>10 DEF Throws
  <2>2. CASE Trailer(v, n)
    <3>1. k # n
      BY <1>7, <1>8, <2>1
    <3>2. k > n
      BY <1>1, <1>4, <1>5, <3>1
    <3> QED
      BY <1>8, <2>2, <3>2 DEF Trailer, Adding
  <2>3. CASE Late(v) = {} /\ Certain(v, n)
    <3>1. Bundled(t, s.columns[1]) /\ \A m \in Numbers(v) : Creating(v, m, t) => m < n
      BY <1>7, <2>3 DEF Certain
    <3>2. PICK m \in Numbers(v) : Creating(v, m, t)
      BY <1>7, <2>3 DEF Certain
    <3>3. <<t, "*">> \in Early(v)
      BY <1>1, <2>3, <3>1, <3>2, CreatesColumn DEF Bundled
    <3>4. HasTable(t)
      BY <1>1, <3>1, <3>3, CreatedEarly
    <3> QED
      BY <2>1, <3>1, <3>4 DEF SchemaSound
  <2>4. CASE Overtaken(v, n)
    <3>1. PICK m \in 1 .. n - 1 : Creating(v, m, t)
      BY <1>7, <2>4 DEF Overtaken
    <3>2. m \in Numbers(v) /\ m < n /\ n <= n
      <4>1. n <= Len(Migrations[v]) /\ Len(Migrations[v]) \in Nat
        BY <1>1, <1>7, VersionFacts DEF Numbers
      <4> QED
        BY <1>1, <3>1, <4>1 DEF Numbers
    <3>3. HasTable(t)
      BY <1>1, <1>2, <1>7, <2>1, <2>4, <3>1, <3>2 DEF IndexSound
    <3>4. s.columns[1] = "*"
      BY <1>7, <2>4 DEF Overtaken
    <3> QED
      BY <2>1, <3>3, <3>4, StarThere DEF Has
  <2> QED
    BY <1>1, <1>7, <2>1, <2>2, <2>3, <2>4 DEF WellOrdered, IndexesSound
<1> QED
  BY <1>9, <1>10

-----------------------------------------------------------------------------
(* A version is left complete, or to a process that will complete it. *)

\* The table that the ALTERs of a version are about.
LEMMA TableThere ==
    ASSUME WellOrdered, SchemaSound, NEW v \in Versions, Late(v) # {},
           \/ \E r \in Openers : EarlySound(r) /\ (Stage(r) = v \/ Stage(r) > v) /\ Stage(r) \in Nat
           \/ Plain(v) /\ Late(v) \cap schema # {},
           NEW n \in Numbers(v), Nth(v, n).op \in Altering
    PROVE  HasTable(Nth(v, n).table)
<1> DEFINE t == Nth(v, n).table
<1>1. ~Dropped(t) /\ (OldTable(t) \/ \E w \in Versions : w < v /\ <<t, "*">> \in Early(w))
  BY DEF WellOrdered, TablesSound
<1>2. CASE OldTable(t)
  BY <1>1, <1>2 DEF OldTable, SchemaSound, HasTable
<1>3. ASSUME NEW r \in Openers, EarlySound(r), Stage(r) = v \/ Stage(r) > v, Stage(r) \in Nat,
             NEW w \in Versions, w < v, <<t, "*">> \in Early(w)
      PROVE  HasTable(t)
  <2>1. w < Stage(r)
    <3>1. w \in Nat /\ v \in Nat
      BY VersionFacts
    <3> QED
      BY <1>3, <3>1
  <2>2. <<t, "*">> \in schema
    BY <1>3, <2>1 DEF EarlySound
  <2> QED
    BY <2>2 DEF HasTable
<1>4. CASE Plain(v) /\ Late(v) \cap schema # {}
  <2>1. PICK column \in Late(v) : column \in schema
    BY <1>4
  <2>2. PICK k \in Numbers(v) : column \in LateAt(v, k)
    BY LateIsWanted
  <2>3. Nth(v, k).op = "add" /\ column = Target(Nth(v, k))
    BY <1>4, <2>2, PlainLate
  <2>4. Nth(v, k).table = t
    BY <2>3 DEF WellOrdered, TablesSound, Altering
  <2> QED
    BY <2>1, <2>3, <2>4 DEF HasTable, Target
<1> QED
  BY <1>1, <1>2, <1>3, <1>4

\* A process that leaves a version and would not have thrown at an ALTER of it.
LEMMA LeavesLate ==
    ASSUME WellOrdered, MigrationsTypeOK, NEW p \in Openers, Open(p), ~Finished(p),
           LateSoundFor(p), Left(p) => Throws(p), ~Trailing(p), Late(Stage(p)) # {},
           \A n \in Numbers(Stage(p)) : Nth(Stage(p), n).op \in Altering
                                        => HasTable(Nth(Stage(p), n).table)
    PROVE  Late(Stage(p)) \subseteq schema
<1> DEFINE v == Stage(p)
           n == opening[p].next
           s == Upcoming(p)
<1>1. v \in Versions /\ In(p, v) /\ n \in Nat
  BY InAVersion
<1>2. SUFFICES ASSUME NEW column \in Late(v), column \notin schema PROVE FALSE
  OBVIOUS
<1>3. LateAhead(p, column)
  BY <1>1, <1>2 DEF LateSoundFor
<1>4. PICK k \in Numbers(v) : k >= n /\ column \in LateAt(v, k)
  BY <1>3 DEF LateAhead
<1>5. k \in Nat
  BY <1>1, VersionFacts DEF Numbers
<1>6. Left(p) /\ Throws(p)
  BY <1>1, <1>4, <1>5, InAVersion
<1>7. s = Nth(v, n) /\ n \in Numbers(v)
  BY <1>6, LeftFacts
<1>8. CASE Redundant(v, n)
  <2>1. k # n /\ Nth(v, k).op \in Adding \ {"tried"} /\ ~Redundant(v, k)
    BY <1>4, <1>8 DEF LateAt
  <2>2. k > n
    BY <1>1, <1>4, <1>5, <2>1
  <2>3. ~Genuine(v, k) /\ (Nth(v, n).op = "add" => Nth(v, k).op = "add")
    BY <1>1, <1>7, <1>8, <2>1, <2>2 DEF WellOrdered, LateSound
  <2> QED
    BY <1>8, <2>1, <2>3 DEF Redundant, Genuine, Altering
<1>9. CASE Alters(p) /\ ~Redundant(v, n)
  <2>1. s.op \in Altering /\ (s.op = "add lacking" => s.columns[1] \in opening[p].lacking)
    BY <1>9 DEF Alters, Altering
  <2>2. Target(s) \in schema
    BY <1>6, <1>7, <1>9, <2>1 DEF Throws, Alters, Has, Target
  <2>3. n >= n
    BY <1>1
  <2>4. Ahead(p, n)
    BY <1>7, <1>9, <2>1, <2>3 DEF Ahead, Genuine
  <2> QED
    BY <1>1, <1>7, <2>2, <2>4 DEF Trailing
<1>10. CASE ~Alters(p)
  <2>1. s.op = "index"
    BY <1>6, <1>10 DEF Throws
  <2>2. Trailer(v, n)
    BY <1>1, <1>7, <2>1 DEF WellOrdered, IndexesSound
  <2>3. Nth(v, k).op \in Adding /\ column \in Named(Nth(v, k)) \cap Wanted
    BY <1>4 DEF LateAt
  <2>4. k # n
    BY <1>7, <2>1, <2>3 DEF Adding, Altering
  <2>5. k > n
    BY <1>1, <1>4, <1>5, <2>4
  <2> QED
    BY <2>2, <2>3, <2>5 DEF Trailer
<1> QED
  BY <1>8, <1>9, <1>10

\* A process comes to throw at an ALTER only when somebody adds its column.
LEMMA NewTrailing ==
    ASSUME WellOrdered, MigrationsTypeOK, NEW p \in Openers, Run(p),
           NEW q \in Openers, ~Trailing(q), Trailing(q)'
    PROVE  \E w \in Versions : In(q, w) /\ \E k \in Numbers(w) :
              Genuine(w, k) /\ Target(Nth(w, k)) \in schema' \ schema
<1>1. Left(p) /\ schema' = SchemaAfter(p)
  BY Ran
<1>2. PICK w \in Versions : In(q, w)' /\ \E k \in Numbers(w) : Ahead(q, k)' /\ Target(Nth(w, k)) \in schema'
  BY DEF Trailing
<1>3. PICK k \in Numbers(w) : Ahead(q, k)' /\ Target(Nth(w, k)) \in schema'
  BY <1>2
<1>4. opening'[q].version = w /\ Stage(q) = w /\ In(q, w)
  BY <1>2, Ran DEF In, Stage
<1>5. /\ k >= opening'[q].next /\ Genuine(w, k)
      /\ Nth(w, k).op = "add lacking" => Nth(w, k).columns[1] \in opening'[q].lacking
  BY <1>3, <1>4 DEF Ahead, Stage
<1>6. SUFFICES ASSUME Target(Nth(w, k)) \in schema PROVE FALSE
  BY <1>3, <1>4, <1>5
<1>7. ~Ahead(q, k)
  BY <1>4, <1>6 DEF Trailing
<1>8. CASE q # p
  <2>1. opening'[q] = opening[q]
    BY <1>8, Ran
  <2> QED
    BY <1>4, <1>5, <1>7, <2>1 DEF Ahead
<1>9. CASE q = p
  <2> DEFINE n == opening[p].next
             s == Upcoming(p)
  <2>1. s = Nth(w, n) /\ n \in Numbers(w)
    BY <1>1, <1>4, <1>9, LeftFacts
  <2>2. n \in Nat /\ k \in Nat /\ k >= n + 1
    <3>1. opening'[p].next = n + 1
      BY Ran
    <3>2. n \in Nat /\ k \in Nat
      BY <2>1, VersionFacts DEF Numbers
    <3> QED
      BY <1>5, <1>9, <3>1, <3>2
  <2>3. k >= n
    BY <2>2
  <2>4. Nth(w, k).op = "add lacking" /\ Nth(w, k).columns[1] \notin opening[p].lacking
    BY <1>4, <1>5, <1>7, <1>9, <2>3 DEF Ahead
  <2>5. Nth(w, k).columns[1] \in opening'[p].lacking
    BY <1>5, <1>9, <2>4
  <2>6. s.op = "inspect" /\ Nth(w, k).columns[1] \in Lacking(s)
    BY <2>4, <2>5, Ran
  <2>7. PICK m \in 1 .. k - 1 : Nth(w, m).op = "inspect" /\ Target(Nth(w, k)) \in Named(Nth(w, m))
    BY <2>4 DEF WellOrdered, GuardsSound
  <2>8. m \in Numbers(w)
    BY <2>7, VersionFacts DEF Numbers
  <2>9. m = n
    BY <2>1, <2>6, <2>7, <2>8 DEF WellOrdered, GuardsSound
  <2>10. Target(Nth(w, k)) = <<s.table, Nth(w, k).columns[1]>>
    BY <2>1, <2>7, <2>9, NamedTable DEF Target
  <2> QED
    BY <1>6, <2>6, <2>10 DEF Lacking, Has
<1> QED
  BY <1>8, <1>9

\* Who adds a column of a version throws at none of its later ALTERs.
LEMMA AdderCarries ==
    ASSUME WellOrdered, MigrationsTypeOK, SchemaSound, NEW p \in Openers, Run(p),
           NEW w \in Versions, Late(w) # {}, NEW k \in Numbers(w),
           Genuine(w, k), Target(Nth(w, k)) \in schema' \ schema
    PROVE  Carried(w)'
<1>1. Left(p) /\ schema' = SchemaAfter(p)
  BY Ran
<1>2. In(p, w) /\ opening[p].next = k /\ Alters(p)
  BY <1>1, AddedBy
<1>3. opening'[p].next = k + 1 /\ opening'[p].version = w
  BY <1>2, Ran DEF In
<1>4. In(p, w)'
  BY <1>3 DEF In, Stage
<1>5. Upcoming(p) = Nth(w, k)
  BY <1>1, <1>2, LeftFacts DEF In
<1>6. schema' = schema \cup {Target(Nth(w, k))}
  <2>1. schema' = schema \cup Named(Nth(w, k))
    BY <1>1, <1>2, <1>5 DEF SchemaAfter, Alters
  <2> QED
    BY <2>1, NamesOne DEF Genuine
<1>7. ASSUME NEW j \in Numbers(w), Ahead(p, j)', Target(Nth(w, j)) \in schema'
      PROVE  FALSE
  <2>1. j >= k + 1 /\ Genuine(w, j)
    BY <1>3, <1>7 DEF Ahead, Stage
  <2>2. k \in Nat /\ j \in Nat
    BY VersionFacts DEF Numbers
  <2>3. k < j /\ j # k
    BY <2>1, <2>2
  <2>4. Target(Nth(w, j)) # Target(Nth(w, k))
    <3>1. Target(Nth(w, k)) \in Named(Nth(w, k)) /\ Nth(w, k).op \in Adding
      BY NamesOne DEF Adding, Genuine
    <3> QED
      BY <2>1, <2>3, <3>1 DEF WellOrdered, Unique
  <2>5. Target(Nth(w, j)) \in schema
    BY <1>6, <1>7, <2>4
  <2>6. ~Dropped(Nth(w, k).table)
    BY AltersStay
  <2> QED
    BY <2>1, <2>3, <2>5, <2>6 DEF SchemaSound
<1>8. ~Trailing(p)'
  <2>1. \A u \in Versions : In(p, u)' => u = w
    BY <1>4 DEF In
  <2> QED
    BY <1>7, <2>1 DEF Trailing
<1> QED
  BY <1>4, <1>8 DEF Carried

\* Who counts on a version is undisturbed, and those behind it find its table.
LEMMA BegunTable ==
    ASSUME WellOrdered, MigrationsTypeOK, SchemaSound,
           \A r \in Openers : Undisturbed(r) => EarlySound(r),
           NEW v \in Versions, Late(v) # {},
           Begun(v) \/ \E r \in Openers : Undisturbed(r) /\ In(r, v)
    PROVE  \A n \in Numbers(v) : Nth(v, n).op \in Altering => HasTable(Nth(v, n).table)
<1>1. \A r \in Openers : Stage(r) \in Nat
  BY MigrationsAssumption DEF MigrationsTypeOK, Stage, Versions
<1>2. \/ \E r \in Openers : Undisturbed(r) /\ (Stage(r) = v \/ Stage(r) > v)
      \/ Plain(v) /\ Late(v) \cap schema # {}
  BY DEF Begun, In
<1>3. \/ \E r \in Openers : EarlySound(r) /\ (Stage(r) = v \/ Stage(r) > v) /\ Stage(r) \in Nat
      \/ Plain(v) /\ Late(v) \cap schema # {}
  BY <1>1, <1>2
<1> QED
  BY <1>3, TableThere

\* Who begins a version throws at once only if unguarded ALTERs were cut short.
LEMMA TrailsAtOnce ==
    ASSUME WellOrdered, NEW p \in Openers, NEW u \in Versions \cup {LastVersion + 1},
           opening'[p] = At(u), schema' = schema, Trailing(p)', u \in Versions => Late(u) # {}
    PROVE  u \in Versions /\ Begun(u)
<1>1. opening'[p].version = u /\ opening'[p].lacking = {}
  BY AtFacts
<1>2. PICK w \in Versions : In(p, w)' /\ \E k \in Numbers(w) : Ahead(p, k)' /\ Target(Nth(w, k)) \in schema'
  BY DEF Trailing
<1>3. w = u
  BY <1>1, <1>2 DEF In, Stage
<1>4. PICK k \in Numbers(u) : Ahead(p, k)' /\ Target(Nth(u, k)) \in schema
  BY <1>2, <1>3
<1>5. Nth(u, k).op = "add" /\ Genuine(u, k) /\ u \in Versions
  BY <1>1, <1>2, <1>3, <1>4 DEF Ahead, Stage, Genuine, Altering
<1>6. Target(Nth(u, k)) \in Late(u)
  BY <1>5, AltersStay
<1> QED
  BY <1>4, <1>5, <1>6 DEF Begun, Plain

\* A version somebody else carries is carried still.
LEMMA OthersCarry ==
    ASSUME NEW p \in Openers, NEW v \in Versions, schema' = schema,
           \A q \in Openers \ {p} : opening'[q] = opening[q],
           \E q \in Openers \ {p} : In(q, v) /\ ~Trailing(q)
    PROVE  Carried(v)'
<1>1. PICK q \in Openers \ {p} : In(q, v) /\ ~Trailing(q)
  OBVIOUS
<1>2. In(q, v)' /\ ~Trailing(q)'
  BY <1>1 DEF In, Stage, Trailing, Ahead
<1> QED
  BY <1>2 DEF Carried

\* Who does not move counts on what it counted on.
LEMMA OthersBegun ==
    ASSUME NEW p \in Openers, NEW v \in Versions, schema' = schema, faults' = faults,
           \A q \in Openers \ {p} : opening'[q] = opening[q] /\ (q \in quiet' => q \in quiet),
           Begun(v)'
    PROVE  Begun(v) \/ (Undisturbed(p)' /\ (Stage(p)' > v \/ (In(p, v)' /\ Trailing(p)')))
<1>1. CASE Plain(v) /\ Late(v) \cap schema # {}
  BY <1>1 DEF Begun
<1>2. ASSUME NEW q \in Openers, Undisturbed(q)', Stage(q)' > v \/ (In(q, v)' /\ Trailing(q)'), q # p
      PROVE  Begun(v)
  <2>1. Undisturbed(q)
    BY <1>2 DEF Undisturbed
  <2>2. Stage(q)' = Stage(q) /\ (In(q, v)' => In(q, v)) /\ (Trailing(q)' => Trailing(q))
    BY <1>2 DEF Stage, In, Trailing, Ahead
  <2> QED
    BY <1>2, <2>1, <2>2 DEF Begun
<1>3. \/ Plain(v) /\ Late(v) \cap schema # {}
      \/ \E q \in Openers : Undisturbed(q)' /\ (Stage(q)' > v \/ (In(q, v)' /\ Trailing(q)'))
  BY DEF Begun
<1> QED
  BY <1>1, <1>2, <1>3

LEMMA VersionRan ==
    ASSUME WellOrdered, MigrationsTypeOK, SchemaSound, NEW p \in Openers, Run(p),
           NEW w \in Versions, VersionSound(w)
    PROVE  VersionSound(w)'
<1>1. Left(p) /\ schema' = SchemaAfter(p) /\ faults' = faults /\ quiet' = quiet
      /\ interrupted' = interrupted
  BY Ran
<1>2. \A q \in Openers : Stage(q)' = Stage(q)
  BY Ran DEF Stage
<1>3. \A column \in Late(w) : column \in schema => column \in schema'
  BY <1>1, Keeps, LateIsWanted
<1> SUFFICES ASSUME Late(w) # {}, Begun(w)', ~Carried(w)'
             PROVE  Late(w) \subseteq schema' \/ Stuck(w)'
  BY DEF VersionSound
<1>4. \A k \in Numbers(w) : ~(Genuine(w, k) /\ Target(Nth(w, k)) \in schema' \ schema)
  BY AdderCarries
<1>5. \A q \in Openers : In(q, w) /\ Trailing(q)' => Trailing(q)
  <2> SUFFICES ASSUME NEW q \in Openers, In(q, w), Trailing(q)', ~Trailing(q) PROVE FALSE
    OBVIOUS
  <2>1. PICK u \in Versions : In(q, u) /\ \E k \in Numbers(u) :
              Genuine(u, k) /\ Target(Nth(u, k)) \in schema' \ schema
    BY NewTrailing
  <2>2. u = w
    BY <2>1 DEF In
  <2> QED
    BY <1>4, <2>1, <2>2
<1>6. Plain(w) /\ Late(w) \cap schema' # {} => Late(w) \cap schema # {}
  <2> SUFFICES ASSUME Plain(w), NEW column \in Late(w), column \in schema', column \notin schema PROVE FALSE
    OBVIOUS
  <2>1. PICK k \in Numbers(w) : column \in LateAt(w, k)
    BY LateIsWanted
  <2>2. Genuine(w, k) /\ column = Target(Nth(w, k))
    BY <2>1, PlainLate
  <2> QED
    BY <1>4, <2>2
<1>7. Begun(w)
  <2>1. CASE Plain(w) /\ Late(w) \cap schema' # {}
    BY <1>6, <2>1 DEF Begun
  <2>2. ASSUME NEW q \in Openers, Undisturbed(q)', Stage(q)' > w \/ (In(q, w)' /\ Trailing(q)')
        PROVE  Begun(w)
    <3>1. Undisturbed(q)
      BY <1>1, <2>2 DEF Undisturbed
    <3>2. In(q, w)' => In(q, w)
      BY <1>2 DEF In
    <3> QED
      BY <1>2, <1>5, <2>2, <3>1, <3>2 DEF Begun
  <2>3. \/ Plain(w) /\ Late(w) \cap schema' # {}
        \/ \E q \in Openers : Undisturbed(q)' /\ (Stage(q)' > w \/ (In(q, w)' /\ Trailing(q)'))
    BY DEF Begun
  <2> QED
    BY <2>1, <2>2, <2>3
<1>8. ~Carried(w)
  <2> SUFFICES ASSUME NEW q \in Openers, In(q, w), ~Trailing(q) PROVE FALSE
    BY DEF Carried
  <2>1. In(q, w)' /\ ~Trailing(q)'
    BY <1>2, <1>5 DEF In
  <2> QED
    BY <2>1 DEF Carried
<1>9. Late(w) \subseteq schema \/ Stuck(w)
  BY <1>7, <1>8 DEF VersionSound
<1> QED
  BY <1>1, <1>3, <1>9 DEF Stuck

LEMMA VersionOpens ==
    ASSUME WellOrdered, MigrationsTypeOK, NEW p \in Openers, OpenDatabase(p),
           NEW w \in Versions, VersionSound(w)
    PROVE  VersionSound(w)'
<1> SUFFICES ASSUME Late(w) # {}, Begun(w)'
             PROVE  Late(w) \subseteq schema' \/ Carried(w)' \/ Stuck(w)'
  BY DEF VersionSound
<1>1. /\ ~Open(p) /\ opening'[p] = At(FirstVersion) /\ schema' = schema /\ faults' = faults
      /\ interrupted' = interrupted
      /\ \A q \in Openers \ {p} : opening'[q] = opening[q] /\ (q \in quiet' => q \in quiet)
  BY DEF OpenDatabase, MigrationsTypeOK
<1>2. FirstVersion \in Versions /\ Stage(p)' = FirstVersion /\ ~(FirstVersion > w)
  BY <1>1, VersionFacts, AtFacts, MigrationsAssumption DEF Stage, Versions
<1>3. Begun(w) \/ (In(p, w)' /\ Trailing(p)')
  BY <1>1, <1>2, OthersBegun
<1>4. Begun(w)
  <2>1. In(p, w)' => w = FirstVersion
    BY <1>2 DEF In
  <2> QED
    BY <1>1, <1>2, <1>3, <2>1, TrailsAtOnce
<1>5. Carried(w) => Carried(w)'
  <2>1. \A q \in Openers : In(q, w) => q # p
    BY <1>1, VersionFacts DEF In, Stage, Open, Closed
  <2> QED
    BY <1>1, <2>1, OthersCarry DEF Carried
<1> QED
  BY <1>1, <1>4, <1>5 DEF VersionSound, Stuck

LEMMA VersionCloses ==
    ASSUME MigrationsTypeOK, NEW p \in Openers, CloseDatabase(p), NEW w \in Versions, VersionSound(w)
    PROVE  VersionSound(w)'
<1> SUFFICES ASSUME Late(w) # {}, Begun(w)'
             PROVE  Late(w) \subseteq schema' \/ Carried(w)' \/ Stuck(w)'
  BY DEF VersionSound
<1>1. /\ Finished(p) /\ opening'[p] = Closed /\ schema' = schema /\ faults' = faults
      /\ interrupted' = interrupted
      /\ \A q \in Openers \ {p} : opening'[q] = opening[q] /\ (q \in quiet' => q \in quiet)
  BY DEF CloseDatabase, MigrationsTypeOK
<1>2. ~(Stage(p)' > w) /\ ~In(p, w)'
  <2>1. Stage(p)' = 0
    BY <1>1 DEF Stage, Closed
  <2>2. w \in Nat /\ 0 \notin Versions
    BY VersionFacts
  <2> QED
    BY <2>1, <2>2 DEF In
<1>3. Begun(w)
  BY <1>1, <1>2, OthersBegun
<1>4. Carried(w) => Carried(w)'
  <2>1. \A q \in Openers : In(q, w) => q # p
    BY <1>1, VersionFacts DEF In, Stage, Finished, Opened, At
  <2> QED
    BY <1>1, <2>1, OthersCarry DEF Carried
<1> QED
  BY <1>1, <1>3, <1>4 DEF VersionSound, Stuck

LEMMA VersionEnds ==
    ASSUME WellOrdered, MigrationsTypeOK, SchemaSound, NEW p \in Openers, EndVersion(p),
           LateSoundFor(p), \A r \in Openers : Undisturbed(r) => EarlySound(r),
           NEW w \in Versions, VersionSound(w)
    PROVE  VersionSound(w)'
<1> SUFFICES ASSUME Late(w) # {}, Begun(w)'
             PROVE  Late(w) \subseteq schema' \/ Carried(w)' \/ Stuck(w)'
  BY DEF VersionSound
<1> DEFINE v == Stage(p)
<1>1. Open(p) /\ ~Finished(p) /\ (Left(p) => Throws(p)) /\ NextVersion(p)
      /\ schema' = schema /\ faults' = faults /\ interrupted' = interrupted /\ quiet' = quiet
  BY DEF EndVersion
<1>2. v \in Versions /\ v + 1 \in Versions \cup {LastVersion + 1} /\ In(p, v)
      /\ opening' = [opening EXCEPT ![p] = At(v + 1)]
  BY <1>1, NextIsAt, InAVersion
<1>3. opening'[p] = At(v + 1) /\ \A q \in Openers \ {p} : opening'[q] = opening[q]
  BY <1>2 DEF MigrationsTypeOK
<1>4. Stage(p)' = v + 1
  BY <1>2, <1>3, AtFacts DEF Stage
<1>5. Begun(w) \/ (Undisturbed(p) /\ w = v)
  <2>1. Begun(w) \/ (Undisturbed(p)' /\ (Stage(p)' > w \/ (In(p, w)' /\ Trailing(p)')))
    BY <1>1, <1>3, OthersBegun
  <2>2. CASE In(p, w)' /\ Trailing(p)'
    <3>1. w = v + 1
      BY <1>4, <2>2 DEF In
    <3> QED
      BY <1>1, <1>2, <1>3, <2>2, <3>1, TrailsAtOnce
  <2>3. CASE Undisturbed(p)' /\ Stage(p)' > w
    <3>1. Undisturbed(p)
      BY <1>1, <2>3 DEF Undisturbed
    <3>2. v \in Nat /\ w \in Nat
      BY <1>2, VersionFacts
    <3>3. v + 1 > w
      BY <1>4, <2>3
    <3>4. v > w \/ v = w
      BY <3>2, <3>3
    <3> QED
      BY <3>1, <3>4 DEF Begun
  <2> QED
    BY <2>1, <2>2, <2>3
<1>6. CASE w = v /\ ~Trailing(p)
  <2>1. Begun(v) \/ \E r \in Openers : Undisturbed(r) /\ In(r, v)
    BY <1>2, <1>5, <1>6
  <2>2. \A n \in Numbers(v) : Nth(v, n).op \in Altering => HasTable(Nth(v, n).table)
    BY <1>2, <1>6, <2>1, BegunTable
  <2>3. Late(v) \subseteq schema
    BY <1>1, <1>6, <2>2, LeavesLate
  <2> QED
    BY <1>1, <1>6, <2>3
<1>7. CASE w # v \/ Trailing(p)
  <2>1. Begun(w)
    <3>1. CASE Undisturbed(p) /\ w = v
      BY <1>2, <1>7, <3>1 DEF Begun
    <3> QED
      BY <1>5, <3>1
  <2>2. Carried(w) => Carried(w)'
    <3>1. \A q \in Openers : In(q, w) /\ ~Trailing(q) => q # p
      BY <1>7 DEF In
    <3> QED
      BY <1>1, <1>3, <3>1, OthersCarry DEF Carried
  <2> QED
    BY <1>1, <2>1, <2>2 DEF VersionSound, Stuck
<1> QED
  BY <1>6, <1>7

\* A fault disturbs everybody, and leaves unguarded ALTERs cut short.
LEMMA VersionFaults ==
    ASSUME MigrationsTypeOK, HistorySound, NEW p \in Openers, Fault(p),
           \A q \in Openers \ {p} : opening'[q] = opening[q],
           NEW w \in Versions, VersionSound(w)
    PROVE  VersionSound(w)'
<1> SUFFICES ASSUME Late(w) # {}, Begun(w)'
             PROVE  Late(w) \subseteq schema' \/ Carried(w)' \/ Stuck(w)'
  BY DEF VersionSound
<1>1. /\ Left(p) /\ Open(p) /\ schema' = schema /\ faults' = faults + 1 /\ faults \in Nat
      /\ interrupted' = interrupted \cup {Stage(p)} /\ quiet' = quiet \ {p}
  BY MigrationsAssumption DEF Fault, Left, Stage, MigrationsTypeOK
<1>2. \A q \in Openers : ~Undisturbed(q)'
  <2>1. faults' # 0
    BY <1>1
  <2>2. \A q \in Openers : q \notin quiet'
    BY <1>1 DEF HistorySound
  <2> QED
    BY <2>1, <2>2 DEF Undisturbed
<1>3. Plain(w) /\ Late(w) \cap schema # {}
  BY <1>1, <1>2 DEF Begun
<1>4. CASE w = Stage(p)
  BY <1>1, <1>3, <1>4 DEF Stuck
<1>5. CASE w # Stage(p)
  <2>1. Begun(w)
    BY <1>3 DEF Begun
  <2>2. Carried(w) => Carried(w)'
    <3>1. \A q \in Openers : In(q, w) => q # p
      BY <1>5 DEF In
    <3> QED
      BY <1>1, <3>1, OthersCarry DEF Carried
  <2> QED
    BY <1>1, <2>1, <2>2 DEF VersionSound, Stuck
<1> QED
  BY <1>4, <1>5

-----------------------------------------------------------------------------
(* The invariant. *)

LEMMA SchemaStill == ASSUME schema' = schema, SchemaSound PROVE SchemaSound'
BY DEF SchemaSound, HasTable, Has

\* Who is undisturbed stays so, and alone.
LEMMA HistoryGoes ==
    ASSUME HistorySound, NEW p \in Openers, Open(p), quiet' \subseteq quiet,
           \A q \in Openers \ {p} : opening'[q] = opening[q],
           faults' = 0 => faults = 0 /\ interrupted' = interrupted
    PROVE  HistorySound'
<1>1. \A q \in Openers : Open(q)' => Open(q)
  BY DEF Open
<1> QED
  BY <1>1 DEF HistorySound

LEMMA MigrationsInvInit == WellOrdered /\ MigrationsInit => MigrationsInv
<1> SUFFICES ASSUME WellOrdered, MigrationsInit PROVE MigrationsInv
  OBVIOUS
<1>1. MigrationsTypeOK
  BY MigrationsInitType
<1>2. schema = OldColumns /\ quiet = {} /\ interrupted = {} /\ \A p \in Openers : opening[p] = Closed
  BY DEF MigrationsInit
<1>3. SchemaSound
  <2>1. \A t, c : Bundled(t, c) /\ HasTable(t) => Has(t, c)
    BY <1>2 DEF Bundled, HasTable, OldTable, Has
  <2>2. \A v \in Versions : \A n, m \in Numbers(v) :
          /\ n < m /\ Genuine(v, n) /\ Genuine(v, m)
          /\ ~Dropped(Nth(v, n).table) /\ Target(Nth(v, m)) \in schema
          => Target(Nth(v, n)) \in schema
    BY <1>2 DEF WellOrdered, OldSound
  <2>3. \A column \in OldColumns : <<column[1], "*">> \in schema
    BY <1>2 DEF WellOrdered, OldSound
  <2> QED
    BY <1>2, <2>1, <2>2, <2>3 DEF SchemaSound
<1>4. HistorySound
  BY <1>2 DEF HistorySound
<1>5. \A p \in Openers : \A v \in Versions : ~In(p, v) /\ ~(v < Stage(p)) /\ ~(Stage(p) > v)
  <2>1. \A v \in Versions : v \in Nat /\ v # 0
    BY VersionFacts
  <2>2. \A p \in Openers : Stage(p) = 0
    BY <1>2 DEF Stage, Closed
  <2> QED
    BY <2>1, <2>2 DEF In
<1>6. \A p \in Openers : LateSoundFor(p) /\ EarlySound(p) /\ IndexSound(p)
  BY <1>5 DEF LateSoundFor, EarlySound, IndexSound
<1>7. ASSUME NEW v \in Versions PROVE VersionSound(v)
  <2> SUFFICES ASSUME Late(v) # {}, Begun(v) PROVE Late(v) \subseteq schema
    BY DEF VersionSound
  <2>1. Plain(v) /\ Late(v) \cap schema # {}
    BY <1>5 DEF Begun
  <2>2. PICK column \in Late(v) : column \in schema
    BY <2>1
  <2>3. PICK k \in Numbers(v) : column \in LateAt(v, k)
    BY LateIsWanted
  <2>4. Genuine(v, k) /\ column = Target(Nth(v, k))
    BY <2>1, <2>3, PlainLate
  <2>5. ASSUME NEW other \in Late(v) PROVE other \in schema
    <3>1. PICK n \in Numbers(v) : other \in LateAt(v, n)
      BY LateIsWanted
    <3>2. Genuine(v, n) /\ other = Target(Nth(v, n))
      BY <2>1, <3>1, PlainLate
    <3> QED
      BY <1>2, <2>1, <2>2, <2>4, <3>2 DEF WellOrdered, OldSound
  <2> QED
    BY <2>5
<1> QED
  BY <1>1, <1>3, <1>4, <1>6, <1>7 DEF MigrationsInv

LEMMA InvOpens ==
    ASSUME WellOrdered, MigrationsInv, MigrationsTypeOK', NEW p \in Openers, OpenDatabase(p)
    PROVE  MigrationsInv'
<1>1. /\ ~Open(p) /\ opening'[p] = At(FirstVersion) /\ schema' = schema /\ faults' = faults
      /\ interrupted' = interrupted
      /\ \A q \in Openers \ {p} : opening'[q] = opening[q]
      /\ quiet' = {} \/ (quiet' = {p} /\ \A q \in Openers : ~Open(q))
  BY DEF OpenDatabase, MigrationsInv, MigrationsTypeOK
<1>2. FirstVersion \in Versions /\ \A v \in Versions : ~(v < FirstVersion)
  BY VersionFacts, MigrationsAssumption DEF Versions
<1>3. SchemaSound'
  BY <1>1, SchemaStill DEF MigrationsInv
<1>4. HistorySound'
  <2>1. \A q \in Openers \ {p} : Open(q)' => Open(q)
    BY <1>1 DEF Open
  <2> QED
    BY <1>1, <2>1 DEF HistorySound, MigrationsInv
<1>5. LateSoundFor(p)' /\ EarlySound(p)' /\ IndexSound(p)'
  BY <1>1, <1>2, LateArrives, EarlyArrives, IndexPlaced
<1>6. ASSUME NEW q \in Openers, q # p
      PROVE  LateSoundFor(q)' /\ (Undisturbed(q)' => EarlySound(q)' /\ IndexSound(q)')
  <2>1. Undisturbed(q)' => Undisturbed(q)
    BY <1>1, <1>6 DEF Undisturbed
  <2> QED
    BY <1>1, <1>6, <2>1, LateStays, EarlyStays, IndexStays DEF MigrationsInv
<1>7. \A v \in Versions : VersionSound(v)'
  BY VersionOpens DEF MigrationsInv
<1> QED
  BY <1>3, <1>4, <1>5, <1>6, <1>7 DEF MigrationsInv

LEMMA InvRuns ==
    ASSUME WellOrdered, MigrationsInv, MigrationsTypeOK', NEW p \in Openers, Run(p)
    PROVE  MigrationsInv'
<1>1. /\ Left(p) /\ Open(p) /\ faults' = faults /\ quiet' = quiet /\ interrupted' = interrupted
      /\ \A q \in Openers \ {p} : opening'[q] = opening[q]
  BY Ran DEF Left, MigrationsInv
<1>2. SchemaSound'
  BY SchemaRan DEF MigrationsInv
<1>3. HistorySound'
  BY <1>1, HistoryGoes DEF MigrationsInv
<1>4. ASSUME NEW q \in Openers
      PROVE  LateSoundFor(q)' /\ (Undisturbed(q)' => EarlySound(q)' /\ IndexSound(q)')
  <2>1. Undisturbed(q)' => Undisturbed(q)
    BY <1>1 DEF Undisturbed
  <2>2. Undisturbed(q) /\ q # p => EarlySound(p)
    <3>1. quiet \subseteq Openers
      BY DEF MigrationsInv, MigrationsTypeOK
    <3>2. Undisturbed(q) /\ q # p => Undisturbed(p)
      BY <1>1 DEF Undisturbed, HistorySound, MigrationsInv
    <3> QED
      BY <3>2 DEF MigrationsInv
  <2>3. LateSoundFor(q)'
    BY LateRan DEF MigrationsInv
  <2>4. Undisturbed(q) => EarlySound(q)'
    BY EarlyRan DEF MigrationsInv
  <2>5. Undisturbed(q) => IndexSound(q)'
    BY <2>2, IndexRan DEF MigrationsInv
  <2> QED
    BY <2>1, <2>3, <2>4, <2>5
<1>5. \A v \in Versions : VersionSound(v)'
  BY VersionRan DEF MigrationsInv
<1> QED
  BY <1>2, <1>3, <1>4, <1>5 DEF MigrationsInv

LEMMA InvEnds ==
    ASSUME WellOrdered, MigrationsInv, MigrationsTypeOK', NEW p \in Openers, EndVersion(p)
    PROVE  MigrationsInv'
<1> DEFINE v == Stage(p)
<1>1. Open(p) /\ ~Finished(p) /\ (Left(p) => Throws(p)) /\ NextVersion(p)
      /\ schema' = schema /\ faults' = faults /\ interrupted' = interrupted /\ quiet' = quiet
  BY DEF EndVersion
<1>2. v \in Versions /\ v + 1 \in Versions \cup {LastVersion + 1}
      /\ opening'[p] = At(v + 1) /\ \A q \in Openers \ {p} : opening'[q] = opening[q]
  BY <1>1, NextIsAt DEF MigrationsInv, MigrationsTypeOK
<1>3. SchemaSound'
  BY <1>1, SchemaStill DEF MigrationsInv
<1>4. HistorySound'
  BY <1>1, <1>2, HistoryGoes DEF MigrationsInv
<1>5. LateSoundFor(p)' /\ IndexSound(p)'
  BY <1>2, LateArrives, IndexPlaced
<1>6. Undisturbed(p)' => EarlySound(p)'
  <2> SUFFICES ASSUME Undisturbed(p)' PROVE EarlySound(p)'
    OBVIOUS
  <2>1. EarlySound(p) /\ IndexSound(p)
    BY <1>1 DEF Undisturbed, MigrationsInv
  <2>2. Early(v) \subseteq schema
    BY <1>1, <2>1, LeavesEarly DEF MigrationsInv
  <2>3. ASSUME NEW w \in Versions, w < v + 1 PROVE Early(w) \subseteq schema
    <3>1. w \in Nat /\ v \in Nat
      BY <1>2, VersionFacts
    <3>2. w < v \/ w = v
      BY <2>3, <3>1
    <3> QED
      BY <2>1, <2>2, <3>2 DEF EarlySound
  <2> QED
    BY <1>1, <1>2, <2>3, EarlyArrives
<1>7. ASSUME NEW q \in Openers, q # p
      PROVE  LateSoundFor(q)' /\ (Undisturbed(q)' => EarlySound(q)' /\ IndexSound(q)')
  <2>1. Undisturbed(q)' => Undisturbed(q)
    BY <1>1 DEF Undisturbed
  <2> QED
    BY <1>1, <1>2, <1>7, <2>1, LateStays, EarlyStays, IndexStays DEF MigrationsInv
<1>8. \A w \in Versions : VersionSound(w)'
  BY VersionEnds DEF MigrationsInv
<1> QED
  BY <1>3, <1>4, <1>5, <1>6, <1>7, <1>8 DEF MigrationsInv

LEMMA InvCloses ==
    ASSUME WellOrdered, MigrationsInv, MigrationsTypeOK', NEW p \in Openers, CloseDatabase(p)
    PROVE  MigrationsInv'
<1>1. /\ Open(p) /\ opening'[p] = Closed /\ schema' = schema /\ faults' = faults
      /\ interrupted' = interrupted /\ quiet' \subseteq quiet
      /\ \A q \in Openers \ {p} : opening'[q] = opening[q]
  <2>1. Opened # Closed
    BY AtFacts DEF Opened
  <2> QED
    BY <2>1 DEF CloseDatabase, Finished, Open, MigrationsInv, MigrationsTypeOK
<1>2. SchemaSound'
  BY <1>1, SchemaStill DEF MigrationsInv
<1>3. HistorySound'
  BY <1>1, HistoryGoes DEF MigrationsInv
<1>4. LateSoundFor(p)' /\ EarlySound(p)' /\ IndexSound(p)'
  BY <1>1, LateCloses, EarlyCloses, IndexPlaced
<1>5. ASSUME NEW q \in Openers, q # p
      PROVE  LateSoundFor(q)' /\ (Undisturbed(q)' => EarlySound(q)' /\ IndexSound(q)')
  <2>1. Undisturbed(q)' => Undisturbed(q)
    BY <1>1 DEF Undisturbed
  <2> QED
    BY <1>1, <1>5, <2>1, LateStays, EarlyStays, IndexStays DEF MigrationsInv
<1>6. \A v \in Versions : VersionSound(v)'
  BY VersionCloses DEF MigrationsInv
<1> QED
  BY <1>2, <1>3, <1>4, <1>5, <1>6 DEF MigrationsInv

LEMMA InvFaults ==
    ASSUME WellOrdered, MigrationsInv, MigrationsTypeOK', NEW p \in Openers, Fault(p),
           \A q \in Openers \ {p} : opening'[q] = opening[q], LateSoundFor(p)'
    PROVE  MigrationsInv'
<1>1. /\ Open(p) /\ schema' = schema /\ faults' # 0 /\ quiet' = quiet \ {p}
  <2>1. faults \in Nat
    BY MigrationsAssumption DEF MigrationsInv, MigrationsTypeOK
  <2> QED
    BY <2>1 DEF Fault, Left
<1>2. SchemaSound'
  BY <1>1, SchemaStill DEF MigrationsInv
<1>3. HistorySound'
  BY <1>1, HistoryGoes DEF MigrationsInv
<1>4. \A q \in Openers : ~Undisturbed(q)'
  BY <1>1 DEF Undisturbed, HistorySound, MigrationsInv
<1>5. \A q \in Openers : LateSoundFor(q)'
  BY <1>1, LateStays DEF MigrationsInv
<1>6. \A v \in Versions : VersionSound(v)'
  BY VersionFaults DEF MigrationsInv
<1> QED
  BY <1>2, <1>3, <1>4, <1>5, <1>6 DEF MigrationsInv

LEMMA MigrationsInvStep ==
    WellOrdered /\ MigrationsInv /\ [MigrationsNext]_migrationVars => MigrationsInv'
<1> SUFFICES ASSUME WellOrdered, MigrationsInv, [MigrationsNext]_migrationVars PROVE MigrationsInv'
  OBVIOUS
<1>1. MigrationsTypeOK /\ MigrationsTypeOK'
  BY MigrationsTypeStep DEF MigrationsInv
<1>2. CASE UNCHANGED migrationVars
  <2>1. schema' = schema /\ opening' = opening /\ faults' = faults
        /\ quiet' = quiet /\ interrupted' = interrupted
    BY <1>2 DEF migrationVars
  <2>2. SchemaSound' /\ HistorySound'
    BY <2>1, SchemaStill DEF MigrationsInv, HistorySound, Open
  <2>3. \A q \in Openers : LateSoundFor(q)' /\ (Undisturbed(q)' => EarlySound(q)' /\ IndexSound(q)')
    BY <2>1, LateStays, EarlyStays, IndexStays DEF MigrationsInv, Undisturbed
  <2>4. \A v \in Versions : VersionSound(v)'
    <3>1. \A q \in Openers : \A v \in Versions : /\ Stage(q)' = Stage(q) /\ (In(q, v)' <=> In(q, v))
                                                /\ (Undisturbed(q)' <=> Undisturbed(q))
      BY <2>1 DEF In, Stage, Undisturbed
    <3>2. \A q \in Openers : Trailing(q)' <=> Trailing(q)
      BY <2>1 DEF Trailing, Ahead, In, Stage
    <3>3. \A v \in Versions : (Carried(v)' <=> Carried(v)) /\ (Begun(v)' => Begun(v)) /\ (Stuck(v)' <=> Stuck(v))
      BY <2>1, <3>1, <3>2 DEF Carried, Begun, Stuck
    <3> QED
      BY <2>1, <3>3 DEF MigrationsInv, VersionSound
  <2> QED
    BY <1>1, <2>2, <2>3, <2>4 DEF MigrationsInv
<1>3. ASSUME NEW p \in Openers, Locked(p) PROVE MigrationsInv'
  <2>1. Fault(p) /\ Left(p) /\ schema' = schema /\ LateSoundFor(p) /\ Open(p) /\ ~Finished(p)
    BY <1>3 DEF Locked, Fault, Left, MigrationsInv
  <2>2. CASE Upcoming(p).op = "tried" /\ opening' = [opening EXCEPT ![p].next = @ + 1]
    <3>1. \A q \in Openers \ {p} : opening'[q] = opening[q]
      BY <1>1, <2>2 DEF MigrationsTypeOK
    <3> QED
      BY <1>1, <2>1, <2>2, <3>1, LateTried, InvFaults
  <2>3. CASE opening' = [opening EXCEPT ![p] = Closed]
    <3>1. opening'[p] = Closed /\ \A q \in Openers \ {p} : opening'[q] = opening[q]
      BY <1>1, <2>3 DEF MigrationsTypeOK
    <3> QED
      BY <1>1, <2>1, <3>1, LateCloses, InvFaults
  <2>4. CASE NextVersion(p)
    <3>1. opening'[p] = At(Stage(p) + 1) /\ Stage(p) + 1 \in Versions \cup {LastVersion + 1}
          /\ \A q \in Openers \ {p} : opening'[q] = opening[q]
      BY <1>1, <2>1, <2>4, NextIsAt DEF MigrationsTypeOK
    <3> QED
      BY <1>1, <2>1, <3>1, LateArrives, InvFaults
  <2> QED
    BY <1>3, <2>2, <2>3, <2>4 DEF Locked
<1>4. ASSUME NEW p \in Openers, Crash(p) PROVE MigrationsInv'
  <2>1. Fault(p) /\ opening'[p] = Closed /\ \A q \in Openers \ {p} : opening'[q] = opening[q]
    BY <1>1, <1>4 DEF Crash, MigrationsTypeOK
  <2> QED
    BY <1>1, <2>1, LateCloses, InvFaults
<1> QED
  BY <1>1, <1>2, <1>3, <1>4, InvOpens, InvRuns, InvEnds, InvCloses DEF MigrationsNext

LEMMA MigrationsInvariant == ASSUME WellOrdered PROVE MigrationsSpec => []MigrationsInv
<1>1. MigrationsInit => MigrationsInv
  BY MigrationsInvInit
<1>2. MigrationsInv /\ [MigrationsNext]_migrationVars => MigrationsInv'
  BY MigrationsInvStep
<1> QED
  BY <1>1, <1>2, PTL DEF MigrationsSpec

-----------------------------------------------------------------------------
(* What it says of a process that is done. *)

\* Every wanted column is an old one or belongs to a version: that of an ALTER which
\* always throws comes with its table.
LEMMA WantedSomewhere ==
    ASSUME WellOrdered, NEW column \in Wanted
    PROVE  column \in OldColumns \/ \E v \in Versions : column \in Early(v) \/ column \in Late(v)
<1>1. column \in NamedBy(Adding \ {"tried"})
  BY DEF Wanted
<1>2. PICK v \in Versions : \E s \in Statements(v) : s.op \in Adding \ {"tried"} /\ column \in Named(s)
  BY <1>1 DEF NamedBy
<1>3. PICK k \in Numbers(v) : Nth(v, k).op \in Adding \ {"tried"} /\ column \in Named(Nth(v, k))
  BY <1>2, VersionFacts
<1>4. CASE IsLate(v, k) /\ ~Redundant(v, k)
  BY <1>3, <1>4 DEF LateAt, Late
<1>5. CASE ~IsLate(v, k)
  <2>1. Nth(v, k).op = "create"
    BY <1>3, <1>5, AlterIsLate DEF Adding
  <2> QED
    BY <1>3, <1>5, <2>1 DEF EarlyAt, Early
<1>6. CASE Redundant(v, k)
  <2> DEFINE t == Nth(v, k).table
  <2>1. Nth(v, k).op = "add" /\ Bundled(t, Nth(v, k).columns[1])
    BY <1>6 DEF Redundant
  <2>2. column = <<t, Nth(v, k).columns[1]>>
    <3>1. Named(Nth(v, k)) = {Target(Nth(v, k))}
      BY <2>1, NamesOne DEF Altering
    <3> QED
      BY <1>3, <3>1 DEF Target
  <2>3. OldTable(t) \/ \E w \in Versions : <<t, "*">> \in Early(w)
    BY <2>1 DEF WellOrdered, TablesSound, Bundled, Altering
  <2>4. CASE OldTable(t)
    BY <2>1, <2>2, <2>4 DEF Bundled
  <2>5. ASSUME NEW w \in Versions, <<t, "*">> \in Early(w) PROVE column \in Early(w)
    <3>1. PICK m \in Numbers(w) : <<t, "*">> \in EarlyAt(w, m)
      BY <2>5, EarlyIsWanted
    <3>2. Nth(w, m).op = "create" /\ ~IsLate(w, m) /\ <<t, "*">> \in Named(Nth(w, m))
      BY <3>1 DEF EarlyAt
    <3>3. Creating(w, m, t)
      BY <3>2, NamedTable DEF Creating
    <3>4. column \in Named(Nth(w, m))
      BY <2>1, <2>2, <3>3 DEF Bundled
    <3> QED
      BY <3>2, <3>4 DEF EarlyAt, Early
  <2> QED
    BY <2>3, <2>4, <2>5
<1> QED
  BY <1>4, <1>5, <1>6

LEMMA LateAdds ==
    ASSUME WellOrdered, NEW v \in Versions, Plain(v), NEW column \in Late(v)
    PROVE  column \in Unguarded(v)
<1>1. PICK k \in Numbers(v) : column \in LateAt(v, k)
  BY LateIsWanted
<1>2. /\ Nth(v, k).op = "add" /\ Genuine(v, k) /\ column = Target(Nth(v, k))
      /\ column \in Named(Nth(v, k))
  BY <1>1, PlainLate DEF LateAt
<1>3. Nth(v, k) \in Statements(v)
  BY VersionFacts
<1>4. column \in Columns("add", v)
  BY <1>2, <1>3 DEF Columns
<1>5. ASSUME column \in NamedBy({"create"}) PROVE FALSE
  <2>1. PICK w \in Versions : \E s \in Statements(w) : s.op = "create" /\ column \in Named(s)
    BY <1>5 DEF NamedBy
  <2>2. PICK m \in Numbers(w) : Nth(w, m).op = "create" /\ column \in Named(Nth(w, m))
    BY <2>1, VersionFacts
  <2>3. v = w /\ k = m
    BY <1>2, <2>2 DEF WellOrdered, Unique, Adding
  <2> QED
    BY <1>2, <2>2, <2>3
<1> QED
  BY <1>4, <1>5 DEF Unguarded

LEMMA DoneIsComplete ==
    ASSUME WellOrdered, MigrationsInv, NEW p \in Openers, Finished(p), Undisturbed(p),
           \A q \in Openers : Open(q) => Finished(q), NEW column \in Wanted \ schema
    PROVE  \E v \in interrupted : column \in Unguarded(v) /\ Unguarded(v) \cap schema # {}
<1>1. Stage(p) = LastVersion + 1 /\ \A v \in Versions : v < Stage(p) /\ Stage(p) > v
  BY MigrationsAssumption DEF Finished, Opened, At, Stage, Versions
<1>2. EarlySound(p)
  BY DEF MigrationsInv
<1>3. PICK v \in Versions : column \in Early(v) \/ column \in Late(v)
  <2>1. column \notin OldColumns
    BY DEF MigrationsInv, SchemaSound, Wanted
  <2> QED
    BY <2>1, WantedSomewhere
<1>4. column \in Late(v)
  BY <1>1, <1>2, <1>3 DEF EarlySound
<1>5. Begun(v)
  BY <1>1 DEF Begun
<1>6. ~Carried(v)
  <2> SUFFICES ASSUME NEW q \in Openers, In(q, v) PROVE FALSE
    BY DEF Carried
  <2>1. Stage(q) = v /\ v # 0 /\ v # LastVersion + 1
    BY VersionFacts DEF In
  <2>2. Open(q) /\ ~Finished(q)
    BY <2>1 DEF Open, Finished, Closed, Opened, At, Stage
  <2> QED
    BY <2>2
<1>7. Stuck(v)
  BY <1>4, <1>5, <1>6 DEF MigrationsInv, VersionSound
<1> QED
  BY <1>4, <1>7, LateAdds DEF Stuck

\* An open that nothing disturbed repairs what crashes, lock timeouts and races left
\* undone, but for the unguarded ALTERs of a version cut short between them.
THEOREM RepairsInvariant == ASSUME WellOrdered PROVE MigrationsSpec => []OpenRepairs
<1>1. MigrationsInv => OpenRepairs
  <2> SUFFICES ASSUME MigrationsInv, NEW p \in quiet, Finished(p), NEW column \in Wanted \ schema
               PROVE  \E v \in interrupted : /\ column \in Unguarded(v)
                                             /\ Unguarded(v) \cap schema # {}
    BY DEF OpenRepairs
  <2>1. p \in Openers /\ Undisturbed(p)
    BY DEF MigrationsInv, MigrationsTypeOK, Undisturbed
  <2>2. \A q \in Openers : Open(q) => Finished(q)
    BY DEF MigrationsInv, HistorySound
  <2> QED
    BY <2>1, <2>2, DoneIsComplete
<1> QED
  BY <1>1, MigrationsInvariant, PTL

\* Without faults any number of processes may open at the same time.
THEOREM RaceInvariant == ASSUME WellOrdered PROVE MigrationsSpec => []RaceIsHarmless
<1>1. MigrationsInv => RaceIsHarmless
  <2> SUFFICES ASSUME MigrationsInv, faults = 0, \A p \in Openers : Open(p) => Finished(p),
                      NEW p \in Openers, Open(p), NEW column \in Wanted, column \notin schema
               PROVE  FALSE
    BY DEF RaceIsHarmless
  <2>1. interrupted = {}
    BY DEF MigrationsInv, HistorySound
  <2>2. Finished(p) /\ Undisturbed(p)
    BY DEF Undisturbed
  <2> QED
    BY <2>1, <2>2, DoneIsComplete
<1> QED
  BY <1>1, MigrationsInvariant, PTL
=============================================================================
