--------------------------- MODULE SessionProofs ----------------------------
(***************************************************************************)
(* Theorems about the services around a session, for every set of          *)
(* sessions, tools, jobs, tasks, files and domains: the anti-bypass gate,  *)
(* the checklist, the skill gate, the session map and the knowledge        *)
(* pipeline.  Each is a specification of its own here; at the end they are *)
(* composed, with the dispatch queue, as MCSessions does.                  *)
(***************************************************************************)
EXTENDS MCSessions, DispatchGrantsProofs

-----------------------------------------------------------------------------
(* The anti-bypass gate: what is counted against a tool and what is under way *)
(* of it, one tool of one session at a time.                                  *)

\* LimitHolds, of one tool.
Held(count, started, missed) ==
    count + started + 1 <= SoftRejectionThreshold + MaxAtOnce + missed

GuidanceInv ==
    /\ GuidanceTypeOK
    /\ LimitHolds
    /\ \A s \in Callers : rejections[s][Question] = 0

LEMMA GuidanceConstants ==
    /\ SoftRejectionThreshold \in Nat \ {0} /\ MaxAtOnce \in Nat /\ MaxUnread \in Nat
    /\ Question \in Tools
BY GuidanceAssumption DEF Tools

LEMMA GuidanceInvInit == GuidanceInit => GuidanceInv
<1> SUFFICES ASSUME GuidanceInit PROVE GuidanceInv
  OBVIOUS
<1>1. GuidanceTypeOK
  BY GuidanceConstants DEF GuidanceInit, GuidanceTypeOK, Zeros
<1>2. \A s \in Callers, t \in Tools :
         rejections[s][t] = 0 /\ inFlight[s][t] = 0 /\ unread[s][t] = 0
  BY DEF GuidanceInit, Zeros
<1>3. LimitHolds
  BY <1>2, GuidanceConstants DEF LimitHolds
<1> QED
  BY <1>1, <1>2, <1>3, GuidanceConstants DEF GuidanceInv

\* What a step has to be like for one tool of one session, the others staying as
\* they are.
LEMMA ToolStep ==
    ASSUME GuidanceInv, NEW s \in Callers, NEW t \in Tools,
           NEW count \in Nat, NEW started \in 0 .. MaxAtOnce, NEW missed \in 0 .. MaxUnread,
           rejections' = [rejections EXCEPT ![s][t] = count],
           inFlight' = [inFlight EXCEPT ![s][t] = started],
           unread' = [unread EXCEPT ![s][t] = missed],
           Held(count, started, missed),
           t = Question => count = 0
    PROVE  GuidanceInv'
<1>1. GuidanceTypeOK'
  BY DEF GuidanceInv, GuidanceTypeOK
<1>2. /\ rejections'[s][t] = count /\ inFlight'[s][t] = started /\ unread'[s][t] = missed
      /\ \A r \in Callers, u \in Tools : r # s \/ u # t =>
            /\ rejections'[r][u] = rejections[r][u]
            /\ inFlight'[r][u] = inFlight[r][u] /\ unread'[r][u] = unread[r][u]
  BY DEF GuidanceInv, GuidanceTypeOK
<1>3. LimitHolds'
  <2> SUFFICES ASSUME NEW r \in Callers, NEW u \in Tools
               PROVE  Held(rejections'[r][u], inFlight'[r][u], unread'[r][u])
    BY DEF LimitHolds, Held
  <2>1. CASE r = s /\ u = t
    BY <1>2, <2>1
  <2>2. CASE r # s \/ u # t
    BY <1>2, <2>2 DEF GuidanceInv, LimitHolds, Held
  <2> QED
    BY <2>1, <2>2
<1>4. ASSUME NEW r \in Callers PROVE rejections'[r][Question] = 0
  <2>1. CASE r = s /\ Question = t
    BY <1>2, <2>1
  <2>2. CASE r # s \/ Question # t
    BY <1>2, <2>2, GuidanceConstants DEF GuidanceInv
  <2> QED
    BY <2>1, <2>2
<1> QED
  BY <1>1, <1>3, <1>4 DEF GuidanceInv

LEMMA GuidanceInvStep == GuidanceInv /\ [GuidanceNext]_guidanceVars => GuidanceInv'
<1> SUFFICES ASSUME GuidanceInv, [GuidanceNext]_guidanceVars PROVE GuidanceInv'
  OBVIOUS
<1> USE GuidanceConstants
<1>1. CASE UNCHANGED guidanceVars
  <2>1. UNCHANGED <<rejections, inFlight, unread>>
    BY <1>1 DEF guidanceVars
  <2>2. GuidanceTypeOK' /\ LimitHolds'
    BY <2>1 DEF GuidanceInv, GuidanceTypeOK, LimitHolds
  <2> QED
    BY <2>1, <2>2 DEF GuidanceInv
<1>2. ASSUME NEW s \in Callers, NEW t \in Tools
      PROVE  /\ rejections[s][t] \in Nat /\ inFlight[s][t] \in 0 .. MaxAtOnce
             /\ unread[s][t] \in 0 .. MaxUnread
             /\ Held(rejections[s][t], inFlight[s][t], unread[s][t])
             /\ rejections = [rejections EXCEPT ![s][t] = rejections[s][t]]
             /\ unread = [unread EXCEPT ![s][t] = unread[s][t]]
             /\ t = Question => rejections[s][t] = 0
  BY DEF GuidanceInv, GuidanceTypeOK, LimitHolds, Held
<1>3. ASSUME NEW s \in Callers, NEW t \in Tools, Before(s, t)
      PROVE  GuidanceInv'
  <2> DEFINE started == inFlight[s][t] + 1
  <2>1. /\ started \in 0 .. MaxAtOnce
        /\ inFlight' = [inFlight EXCEPT ![s][t] = started]
        /\ rejections' = [rejections EXCEPT ![s][t] = rejections[s][t]]
    BY <1>2, <1>3 DEF Before
  <2>2. CASE ~Blocks(s, t) /\ UNCHANGED unread
    <3>1. rejections[s][t] < SoftRejectionThreshold
      BY <1>2, <2>2 DEF Blocks, RejectionBlocks
    <3>2. Held(rejections[s][t], started, unread[s][t])
      BY <1>2, <2>1, <3>1 DEF Held
    <3>3. unread' = [unread EXCEPT ![s][t] = unread[s][t]]
      BY <1>2, <2>2
    <3>4. /\ rejections[s][t] \in Nat /\ unread[s][t] \in 0 .. MaxUnread
          /\ t = Question => rejections[s][t] = 0
      BY <1>2
    <3> HIDE DEF started
    <3> QED
      BY <2>1, <3>2, <3>3, <3>4, ToolStep
  <2>3. CASE /\ unread[s][t] < MaxUnread
             /\ unread' = [unread EXCEPT ![s][t] = @ + 1]
    <3> DEFINE missed == unread[s][t] + 1
    <3>1. missed \in 0 .. MaxUnread /\ unread' = [unread EXCEPT ![s][t] = missed]
      BY <1>2, <2>3
    <3>2. Held(rejections[s][t], started, missed)
      BY <1>2 DEF Held
    <3> QED
      BY <1>2, <2>1, <3>1, <3>2, ToolStep
  <2> QED
    BY <1>3, <2>2, <2>3 DEF Before
<1>4. ASSUME NEW s \in Callers, NEW t \in Tools, Ends(s, t),
             \/ UNCHANGED rejections
             \/ t # Question /\ CountRejection(s, t)
      PROVE  GuidanceInv'
  <2> DEFINE started == inFlight[s][t] - 1
  <2>1. /\ started \in 0 .. MaxAtOnce
        /\ inFlight' = [inFlight EXCEPT ![s][t] = started]
        /\ unread' = [unread EXCEPT ![s][t] = unread[s][t]]
    BY <1>2, <1>4 DEF Ends
  <2>2. CASE UNCHANGED rejections
    <3>1. Held(rejections[s][t], started, unread[s][t])
      BY <1>2 DEF Held
    <3>2. rejections' = [rejections EXCEPT ![s][t] = rejections[s][t]]
      BY <1>2, <2>2
    <3>3. /\ rejections[s][t] \in Nat /\ unread[s][t] \in 0 .. MaxUnread
          /\ t = Question => rejections[s][t] = 0
      BY <1>2
    <3> QED
      BY <2>1, <3>1, <3>2, <3>3, ToolStep
  <2>3. CASE t # Question /\ rejections' = [rejections EXCEPT ![s][t] = @ + 1]
    <3> DEFINE count == rejections[s][t] + 1
    <3>1. count \in Nat /\ rejections' = [rejections EXCEPT ![s][t] = count]
      BY <1>2, <2>3
    <3>2. Held(count, started, unread[s][t])
      BY <1>2 DEF Held
    <3> QED
      BY <1>2, <2>1, <2>3, <3>1, <3>2, ToolStep
  <2> QED
    BY <1>4, <2>2, <2>3 DEF CountRejection
<1>5. ASSUME NEW s \in Callers, NEW t \in Tools, NEW rejected \in BOOLEAN,
             After(s, t, rejected)
      PROVE  GuidanceInv'
  BY <1>4, <1>5 DEF After
<1>6. ASSUME NEW s \in Callers, NEW t \in Tools, DeniedLater(s, t)
      PROVE  GuidanceInv'
  BY <1>4, <1>6 DEF DeniedLater
<1>7. ASSUME NEW s \in Callers, CallerDies(s)
      PROVE  GuidanceInv'
  <2>1. /\ rejections' = rejections /\ unread' = unread
        /\ inFlight' = [inFlight EXCEPT ![s] = [t \in Tools |-> 0]]
    BY <1>7 DEF CallerDies
  <2>2. GuidanceTypeOK'
    BY <2>1 DEF GuidanceInv, GuidanceTypeOK
  <2>3. ASSUME NEW r \in Callers, NEW u \in Tools
        PROVE  inFlight'[r][u] \in {0, inFlight[r][u]}
    BY <2>1 DEF GuidanceInv, GuidanceTypeOK
  <2>4. LimitHolds'
    <3> SUFFICES ASSUME NEW r \in Callers, NEW u \in Tools
                 PROVE  Held(rejections[r][u], inFlight'[r][u], unread[r][u])
      BY <2>1 DEF LimitHolds, Held
    <3> QED
      BY <1>2, <2>3 DEF Held
  <2> QED
    BY <2>1, <2>2, <2>4 DEF GuidanceInv
<1> QED
  BY <1>1, <1>3, <1>5, <1>6, <1>7 DEF GuidanceNext

LEMMA GuidanceInvariant == GuidanceSpec => []GuidanceInv
BY GuidanceInvInit, GuidanceInvStep, PTL DEF GuidanceSpec

\* The hooks of all sessions, in any order, count no tool below zero or beyond
\* what is under way.
THEOREM GuidanceTypeInvariant == GuidanceSpec => []GuidanceTypeOK
<1>1. GuidanceInv => GuidanceTypeOK
  BY DEF GuidanceInv
<1> QED
  BY <1>1, GuidanceInvariant, PTL

\* For any threshold and any number of calls at once the limit of soft
\* rejections is passed by no more than the calls it had let in.
THEOREM LimitInvariant == GuidanceSpec => []LimitHolds
<1>1. GuidanceInv => LimitHolds
  BY DEF GuidanceInv
<1> QED
  BY <1>1, GuidanceInvariant, PTL

\* For any number of sessions, tools and rejections the question tool of a
\* session is let through.
THEOREM QuestionOpenInvariant == GuidanceSpec => []QuestionOpen
<1>1. ASSUME GuidanceInv, NEW s \in Callers PROVE ~Blocks(s, Question)
  <2>1. rejections[s][Question] = 0 /\ SoftRejectionThreshold \in Nat \ {0}
    BY <1>1, GuidanceConstants DEF GuidanceInv
  <2> QED
    BY <2>1 DEF Blocks, RejectionBlocks
<1>2. GuidanceInv => QuestionOpen
  BY <1>1 DEF QuestionOpen
<1> QED
  BY <1>2, GuidanceInvariant, PTL

-----------------------------------------------------------------------------
(* The checklist: what no tool marks holds a run back, and what a child takes *)
(* over stays with the run it was taken from.                                 *)

Run == [phase : {0} \cup Phases, status : {"none", "active", "interrupted"},
        job : DagTasks \cup {NoTask}, parent : Workers \cup {NoWorker},
        passed : SUBSET Tracked]

\* How far a run is, of one run.
RunSound(run) ==
    /\ run.phase = 0 => run.passed = {}
    /\ "task_log_written" \notin run.passed
    /\ "task_log_written" \in Tracked => run.phase <= 6
    /\ "dag_entry_verified" \in Tracked \ run.passed => run.phase <= 3

RunsSound ==
    /\ runs \in [Workers -> Run]
    /\ \A s \in Workers : RunSound(runs[s])
    /\ DispatchItemsEarned

ChecklistInv == ChecklistTypeOK /\ RunsSound

\* The eight phases, and where the items stand that the proofs speak of.
LEMMA PhaseFacts ==
    /\ Phases = 1 .. 8 /\ Len(PhaseItems) = 8
    /\ PhaseItems[2] = {"payload_complete", "dispatch_token_created",
                        "session_context_bound"}
    /\ "dag_entry_verified" \in PhaseItems[3]
    /\ "task_log_written" \in PhaseItems[6]
BY DEF Phases, PhaseItems

\* No tool marks an item of the dispatch phase, or either of the two that hold
\* a run back.
LEMMA ToolsMark ==
    /\ WiredByTools \cap DispatchItems = {}
    /\ "mistake_precautions_read" \notin DispatchItems
    /\ {"dag_entry_verified", "task_log_written"} \cap WiredByTools = {}
    /\ {"dag_entry_verified", "task_log_written"} \cap DispatchItems = {}
BY PhaseFacts DEF DispatchItems, ItemsOf, WiredByTools

\* The run a call finds or makes is as sound as the one that is there.
LEMMA RunOfSound ==
    ASSUME ChecklistInv, NEW s \in Workers, NEW role \in Roles,
           NEW job \in DagTasks \cup {NoTask}
    PROVE  /\ RunOf(s, role, job) \in Run /\ RunOf(s, role, job).phase # 0
           /\ RunSound(RunOf(s, role, job))
<1>1. runs[s] \in Run /\ RunSound(runs[s]) /\ NoTask \in DagTasks \cup {NoTask}
  BY DEF ChecklistInv, RunsSound
<1>2. ParentFor(s, role, job) \in Workers \cup {NoWorker}
  <2>1. job # NoTask => payloads[<<job, role>>] \in Workers \cup {NoWorker}
    BY DEF ChecklistInv, ChecklistTypeOK
  <2> QED
    BY <2>1 DEF ParentFor
<1>3. Inherited(ParentFor(s, role, job), job) \subseteq DispatchItems
  BY DEF Inherited
<1>4. DispatchItems \subseteq Tracked /\ PassedAtStart(role) \subseteq Tracked
  BY DEF DispatchItems, ItemsOf, PassedAtStart
<1>5. "task_log_written" \notin PassedAtStart(role)
  BY ToolsMark DEF PassedAtStart
<1>6. CASE runs[s].phase # 0
  BY <1>1, <1>6 DEF RunOf
<1>7. CASE runs[s].phase = 0
  <2>1. RunOf(s, role, job) = NewRun(s, role, job)
    BY <1>7 DEF RunOf
  <2>2. NewRun(s, role, job).passed \in SUBSET Tracked
    BY <1>3, <1>4 DEF NewRun
  <2>3. NewRun(s, role, job) \in Run
    BY <1>2, <2>2, PhaseFacts DEF NewRun, Run
  <2>4. /\ NewRun(s, role, job).phase = 1
        /\ "task_log_written" \notin NewRun(s, role, job).passed
    BY <1>3, <1>5, ToolsMark DEF NewRun
  <2> QED
    BY <2>1, <2>3, <2>4 DEF RunSound
<1> QED
  BY <1>6, <1>7

\* What a run has of the dispatch phase when a call begins to work on it: what
\* it had, what a dispatcher starts with, or what the run of the session that
\* dispatched its job has.
LEMMA RunOfEarned ==
    ASSUME ChecklistInv, NEW s \in Workers, NEW role \in Roles,
           NEW job \in DagTasks \cup {NoTask}, NEW i \in DispatchItems,
           i \in RunOf(s, role, job).passed, role = RoleOf[s]
    PROVE  \/ RoleOf[s] \in Dispatchers \/ s \in dispatched
           \/ LET run == RunOf(s, role, job)
              IN  /\ run.parent # NoWorker /\ run.parent # s
                  /\ run.parent \in Workers
                  /\ runs[run.parent].job = run.job
                  /\ i \in runs[run.parent].passed
<1>a. runs[s] \in Run /\ RunOf(s, role, job) \in Run
  BY RunOfSound DEF ChecklistInv, RunsSound
<1>1. CASE runs[s].phase # 0
  <2>1. RunOf(s, role, job) = runs[s]
    BY <1>1 DEF RunOf
  <2> QED
    BY <1>a, <2>1 DEF ChecklistInv, RunsSound, DispatchItemsEarned, Run
<1>2. CASE runs[s].phase = 0
  <2> DEFINE p == ParentFor(s, role, job)
  <2>1. /\ RunOf(s, role, job).parent = p /\ RunOf(s, role, job).job = job
        /\ RunOf(s, role, job).passed = PassedAtStart(role) \cup Inherited(p, job)
    BY <1>2 DEF RunOf, NewRun
  <2>2. i \in PassedAtStart(role) => RoleOf[s] \in Dispatchers
    BY ToolsMark DEF PassedAtStart
  <2>3. p # s \/ p = NoWorker
    BY DEF ParentFor
  <2>4. i \in Inherited(p, job) =>
          p # NoWorker /\ runs[p].job = job /\ i \in runs[p].passed
    BY DEF Inherited
  <2>5. p \in Workers \cup {NoWorker}
    BY <1>a, <2>1 DEF Run
  <2> HIDE DEF p
  <2> QED
    BY <2>1, <2>2, <2>3, <2>4, <2>5
<1> QED
  BY <1>1, <1>2

\* A call that works on its run, and gives it dispatch items only if it is a
\* dispatch, preserves the invariant.
LEMMA RunChanged ==
    ASSUME ChecklistInv, NEW s \in Workers, NEW role \in Roles,
           NEW job \in DagTasks \cup {NoTask}, NEW run \in Run, RunSound(run),
           runs' = [runs EXCEPT ![s] = run], dispatched \subseteq dispatched',
           run.job = RunOf(s, role, job).job, run.parent = RunOf(s, role, job).parent,
           RunOf(s, role, job).passed \cap DispatchItems \subseteq run.passed,
           \/ s \in dispatched'
           \/ /\ role = RoleOf[s]
              /\ run.passed \cap DispatchItems \subseteq RunOf(s, role, job).passed
    PROVE  RunsSound'
<1>1. /\ runs \in [Workers -> Run] /\ \A u \in Workers : RunSound(runs[u])
      /\ NoWorker \notin Workers
  BY ChecklistAssumption DEF ChecklistInv, RunsSound
<1>2. runs'[s] = run /\ \A u \in Workers \ {s} : runs'[u] = runs[u]
  BY <1>1
<1>3. runs' \in [Workers -> Run] /\ \A u \in Workers : RunSound(runs'[u])
  BY <1>1, <1>2
\* What a run passes on it keeps.
<1>4. ASSUME NEW u \in Workers, NEW i \in DispatchItems, i \in runs[u].passed
      PROVE  runs'[u].job = runs[u].job /\ i \in runs'[u].passed
  <2>1. runs[u].phase # 0
    BY <1>1, <1>4 DEF RunSound
  <2>2. u = s => RunOf(s, role, job) = runs[s]
    BY <2>1 DEF RunOf
  <2> QED
    BY <1>2, <1>4, <2>2
<1>5. ASSUME NEW u \in Workers, NEW i \in DispatchItems, i \in runs'[u].passed
      PROVE  \/ RoleOf[u] \in Dispatchers \/ u \in dispatched'
             \/ LET p == runs'[u].parent
                IN  p # NoWorker /\ p # u /\ runs'[p].job = runs'[u].job /\ i \in runs'[p].passed
  <2>1. CASE u # s
    <3>1. runs'[u] = runs[u] /\ runs[u] \in Run
      BY <1>1, <1>2, <2>1
    <3>2. \/ RoleOf[u] \in Dispatchers \/ u \in dispatched
          \/ LET p == runs[u].parent
             IN  p # NoWorker /\ p # u /\ runs[p].job = runs[u].job /\ i \in runs[p].passed
      BY <1>5, <3>1 DEF ChecklistInv, RunsSound, DispatchItemsEarned
    <3>3. runs[u].parent \in Workers \cup {NoWorker}
      BY <3>1 DEF Run
    <3> QED
      BY <1>4, <3>1, <3>2, <3>3
  <2>2. CASE u = s /\ s \notin dispatched'
    <3>1. role = RoleOf[s] /\ i \in RunOf(s, role, job).passed
      BY <1>2, <1>5, <2>2
    <3>2. \/ RoleOf[s] \in Dispatchers \/ s \in dispatched
          \/ /\ run.parent # NoWorker /\ run.parent # s /\ run.parent \in Workers
             /\ runs[run.parent].job = run.job /\ i \in runs[run.parent].passed
      BY <3>1, RunOfEarned
    <3> QED
      BY <1>2, <1>4, <2>2, <3>2
  <2> QED
    BY <2>1, <2>2
<1>6. DispatchItemsEarned'
  BY <1>5 DEF DispatchItemsEarned
<1> QED
  BY <1>3, <1>6 DEF RunsSound

\* Marking items of a run.
LEMMA WiredSound ==
    ASSUME ChecklistInv, NEW s \in Workers, NEW role \in Roles,
           NEW job \in DagTasks \cup {NoTask}, NEW items,
           WirePassed(s, role, job, items), "task_log_written" \notin items,
           dispatched \subseteq dispatched',
           \/ s \in dispatched'
           \/ role = RoleOf[s] /\ items \cap DispatchItems = {}
    PROVE  RunsSound'
<1> DEFINE old == RunOf(s, role, job)
           run == [old EXCEPT !.passed = @ \cup (items \cap Tracked)]
<1>1. old \in Run /\ old.phase # 0 /\ RunSound(old)
  BY RunOfSound
<1>2. runs' = [runs EXCEPT ![s] = run]
  BY DEF WirePassed
<1> HIDE DEF old
<1>3. /\ run \in Run /\ run.job = old.job /\ run.parent = old.parent
      /\ run.phase = old.phase /\ run.passed = old.passed \cup (items \cap Tracked)
  BY <1>1 DEF Run
<1> HIDE DEF run
<1>4. RunSound(run)
  BY <1>1, <1>3 DEF RunSound
<1> QED
  BY <1>2, <1>3, <1>4, RunChanged DEF old

\* A failed read of the precautions takes back an item that holds nothing back.
LEMMA UnmarkedSound ==
    ASSUME ChecklistInv, NEW s \in Workers, NEW job \in DagTasks \cup {NoTask},
           PrecautionsMissing(s, job)
    PROVE  RunsSound'
<1> DEFINE old == RunOf(s, RoleOf[s], job)
           run == [old EXCEPT !.passed = @ \ {"mistake_precautions_read"}]
<1>a. RoleOf[s] \in Roles
  BY ChecklistAssumption
<1>1. old \in Run /\ old.phase # 0 /\ RunSound(old)
  BY <1>a, RunOfSound
<1>2. runs' = [runs EXCEPT ![s] = run] /\ dispatched' = dispatched
  BY DEF PrecautionsMissing
<1> HIDE DEF old
<1>3. /\ run \in Run /\ run.job = old.job /\ run.parent = old.parent
      /\ run.phase = old.phase /\ run.passed = old.passed \ {"mistake_precautions_read"}
  BY <1>1 DEF Run
<1> HIDE DEF run
<1>4. RunSound(run)
  BY <1>1, <1>3 DEF RunSound
<1>5. old.passed \cap DispatchItems \subseteq run.passed
  BY <1>3, ToolsMark
<1>6. run.passed \subseteq old.passed
  BY <1>3
<1> QED
  BY <1>a, <1>2, <1>3, <1>4, <1>5, <1>6, RunChanged DEF old

\* A run advances over a phase only when what is kept of it is passed.
LEMMA AdvancedSound ==
    ASSUME ChecklistInv, NEW s \in Workers, NEW job \in DagTasks \cup {NoTask},
           Advance(s, job)
    PROVE  RunsSound'
<1> DEFINE old == RunOf(s, RoleOf[s], job)
           done == old.phase < Len(PhaseItems) /\ ItemsOf(old.phase) \subseteq old.passed
           run == [old EXCEPT !.phase = IF done THEN @ + 1 ELSE @]
<1>a. RoleOf[s] \in Roles
  BY ChecklistAssumption
<1>1. old \in Run /\ old.phase # 0 /\ RunSound(old)
  BY <1>a, RunOfSound
<1>2. runs' = [runs EXCEPT ![s] = run] /\ dispatched' = dispatched
  BY DEF Advance
<1> HIDE DEF old
<1>3. old.phase \in 1 .. 8 /\ run.phase = (IF done THEN old.phase + 1 ELSE old.phase)
  BY <1>1, PhaseFacts DEF Run
<1>4. done => old.phase < 8 /\ PhaseItems[old.phase] \cap Tracked \subseteq old.passed
  BY PhaseFacts DEF ItemsOf
<1> HIDE DEF done
<1>5. run.phase \in 1 .. 8
  BY <1>3, <1>4
<1>6. /\ run \in Run /\ run.job = old.job /\ run.parent = old.parent
      /\ run.passed = old.passed
  <2>1. (IF done THEN old.phase + 1 ELSE old.phase) \in {0} \cup Phases
    BY <1>3, <1>4, PhaseFacts
  <2> QED
    BY <1>1, <2>1 DEF Run
<1> HIDE DEF run
<1>7. RunSound(run)
  <2>1. "task_log_written" \in Tracked => run.phase <= 6
    BY <1>1, <1>3, <1>4, PhaseFacts DEF RunSound
  <2>2. "dag_entry_verified" \in Tracked \ run.passed => run.phase <= 3
    BY <1>1, <1>3, <1>4, <1>6, PhaseFacts DEF RunSound
  <2> QED
    BY <1>1, <1>5, <1>6, <2>1, <2>2 DEF RunSound
<1> QED
  BY <1>a, <1>2, <1>6, <1>7, RunChanged DEF old

LEMMA ChecklistInvStep ==
    ChecklistInv /\ [ChecklistNext]_checklistVars => ChecklistInv'
<1> SUFFICES ASSUME ChecklistInv, [ChecklistNext]_checklistVars PROVE ChecklistInv'
  OBVIOUS
<1>a. /\ payloads \in [DagTasks \X Roles -> Workers \cup {NoWorker}]
      /\ hooked \in SUBSET Workers /\ dispatched \in SUBSET Workers
      /\ RunsSound /\ RoleOf \in [Workers -> Roles]
  BY ChecklistAssumption DEF ChecklistInv, ChecklistTypeOK
<1> DEFINE Rest == /\ payloads' \in [DagTasks \X Roles -> Workers \cup {NoWorker}]
                   /\ hooked' \in SUBSET Workers /\ dispatched' \in SUBSET Workers
<1>b. SUFFICES RunsSound' /\ Rest
  BY DEF ChecklistInv, ChecklistTypeOK, RunsSound, Run
<1>c. UNCHANGED <<runs, dispatched>> => RunsSound'
  BY <1>a DEF RunsSound, DispatchItemsEarned
<1>1. CASE UNCHANGED checklistVars
  BY <1>a, <1>c, <1>1 DEF checklistVars
<1>2. ASSUME NEW s \in Workers, BeforeHook(s) PROVE RunsSound' /\ Rest
  BY <1>a, <1>c, <1>2, WiredSound DEF BeforeHook
<1>3. ASSUME NEW s \in Workers, NEW job \in DagTasks \cup {NoTask}, Status(s, job)
      PROVE  RunsSound' /\ Rest
  BY <1>a, <1>3, WiredSound DEF Status
<1>4. ASSUME NEW s \in Workers, NEW job \in DagTasks \cup {NoTask},
             NEW item \in WiredByTools, ToolWires(s, job, item)
      PROVE  RunsSound' /\ Rest
  <2>1. /\ WirePassed(s, RoleOf[s], job, {item})
        /\ UNCHANGED <<payloads, hooked, dispatched>>
    BY <1>4 DEF ToolWires
  <2>2. {item} \cap DispatchItems = {} /\ "task_log_written" \notin {item}
    BY ToolsMark
  <2>3. RunsSound'
    BY <1>a, <2>1, <2>2, WiredSound
  <2> QED
    BY <1>a, <2>1, <2>3
<1>5. ASSUME NEW s \in Workers, NEW job \in DagTasks \cup {NoTask},
             PrecautionsMissing(s, job)
      PROVE  RunsSound' /\ Rest
  BY <1>a, <1>5, UnmarkedSound DEF PrecautionsMissing
<1>6. ASSUME NEW s \in Workers, NEW job \in DagTasks \cup {NoTask}, Advance(s, job)
      PROVE  RunsSound' /\ Rest
  BY <1>a, <1>6, AdvancedSound DEF Advance
<1>7. ASSUME NEW s \in Workers, NEW job \in DagTasks, NEW role \in Roles,
             DispatchChecklist(s, role, job)
      PROVE  RunsSound' /\ Rest
  <2>1. /\ dispatched' = dispatched \cup {s} /\ hooked' = hooked
        /\ payloads' = [payloads EXCEPT ![<<job, role>>] = s] \/ payloads' = payloads
    BY <1>7 DEF DispatchChecklist
  <2>2. Rest
    BY <1>a, <2>1
  <2>3. CASE UNCHANGED runs
    BY <1>a, <2>1, <2>2, <2>3 DEF RunsSound, DispatchItemsEarned
  <2>4. ASSUME NEW items \in SUBSET DispatchItems, WirePassed(s, role, job, items)
        PROVE  RunsSound'
    BY <1>a, <2>1, <2>4, WiredSound, ToolsMark
  <2> QED
    BY <1>7, <2>2, <2>3, <2>4 DEF DispatchChecklist
<1>8. ASSUME NEW s \in Workers, PreflightAutoMark(s) PROVE RunsSound' /\ Rest
  <2>1. PICK items \in { {"agent_scope_resolved"},
                         {"agent_scope_resolved", "domain_resolved",
                          "module_scope_declared"} } :
          WirePassed(s, RoleOf[s], NoTask, items)
    BY <1>8 DEF PreflightAutoMark
  <2>2. items \cap DispatchItems = {} /\ "task_log_written" \notin items
    BY PhaseFacts DEF DispatchItems, ItemsOf
  <2> QED
    BY <1>a, <1>8, <2>1, <2>2, WiredSound DEF PreflightAutoMark
<1>9. CASE InterruptStuck
  <2>1. ASSUME NEW s \in Workers
        PROVE  /\ runs'[s] \in Run /\ runs'[s].phase = runs[s].phase
               /\ runs'[s].job = runs[s].job /\ runs'[s].parent = runs[s].parent
               /\ runs'[s].passed = runs[s].passed
    BY <1>a, <1>9 DEF InterruptStuck, RunsSound, Run
  <2>2. runs' \in [Workers -> Run] /\ dispatched' = dispatched
    BY <1>9, <2>1 DEF InterruptStuck
  <2>3. \A s \in Workers : RunSound(runs'[s])
    BY <1>a, <2>1 DEF RunsSound, RunSound
  <2>4. \A s \in Workers : runs[s].parent \in Workers \cup {NoWorker}
    BY <1>a DEF RunsSound, Run
  <2>5. DispatchItemsEarned'
    BY <1>a, <2>1, <2>2, <2>4 DEF RunsSound, DispatchItemsEarned
  <2> QED
    BY <1>a, <1>9, <2>2, <2>3, <2>5 DEF InterruptStuck, RunsSound
<1> QED
  BY <1>a, <1>1, <1>2, <1>3, <1>4, <1>5, <1>6, <1>7, <1>8, <1>9 DEF ChecklistNext

LEMMA ChecklistInvariant == ChecklistSpec => []ChecklistInv
<1>1. ChecklistInit => ChecklistInv
  BY DEF ChecklistInit, NoRun, ChecklistInv, ChecklistTypeOK, RunsSound, RunSound, Run,
         DispatchItemsEarned
<1> QED
  BY <1>1, ChecklistInvStep, PTL DEF ChecklistSpec

\* Whatever tools, hooks and dispatches do to a run, it keeps its shape.
THEOREM ChecklistTypeInvariant == ChecklistSpec => []ChecklistTypeOK
<1>1. ChecklistInv => ChecklistTypeOK
  BY DEF ChecklistInv
<1> QED
  BY <1>1, ChecklistInvariant, PTL

\* For any number of sessions, jobs and roles, and however many statements of a
\* dispatch fail: nobody has an item of the dispatch phase who did not earn it,
\* dispatch, or take it over from the session that dispatched this very job.
THEOREM DispatchItemsInvariant == ChecklistSpec => []DispatchItemsEarned
<1>1. ChecklistInv => DispatchItemsEarned
  BY DEF ChecklistInv, RunsSound
<1> QED
  BY <1>1, ChecklistInvariant, PTL

\* For any set of tools' calls: no run gets past the sixth phase, and none past
\* the third that was not exempt when it was made.
THEOREM StopsShortInvariant == ChecklistSpec => []StopsShort
<1>1. ChecklistInv => StopsShort
  BY DEF ChecklistInv, RunsSound, RunSound, StopsShort
<1> QED
  BY <1>1, ChecklistInvariant, PTL

-----------------------------------------------------------------------------
(* The skill gate: what the audit calls read in full has been recorded so, and *)
(* an attestation is stored only for files the audit calls read in full.       *)

\* A session's role has read the file in full, whatever it held.
Known(role, f) == \E c \in Contents \cup {NoFile} : <<role, f, c>> \in everRead

SkillInv ==
    /\ SkillTypeOK
    /\ \A role \in ReaderRoles, f \in SkillFiles : audit[<<role, f>>].full => Known(role, f)
    /\ \A s \in Readers : \A a \in skillState[s] :
          \A f \in DOMAIN a.files : Known(ReaderRole[s], f)

\* An attestation under way is about skill files.
LEMMA AttestedFiles ==
    ASSUME NEW a \in Attestations
    PROVE  DOMAIN a.files \subseteq SkillFiles
BY DEF Attestations

LEMMA SkillInvInit == SkillInit => SkillInv
<1> SUFFICES ASSUME SkillInit PROVE SkillInv
  OBVIOUS
<1>1. audit \in [ReaderRoles \X SkillFiles -> [hash : Contents \cup {NoFile},
                                               full : BOOLEAN, recent : BOOLEAN]]
  BY DEF SkillInit, NeverRead
<1>2. content \in [SkillFiles -> Contents \cup {NoFile}] /\ scopeOf \in [Readers -> Scopes]
  BY DEF SkillInit
<1>3. SkillTypeOK
  BY <1>1, <1>2 DEF SkillInit, SkillTypeOK
<1> QED
  BY <1>3 DEF SkillInit, SkillInv, NeverRead

\* What has been read stays read: a step that adds to what was read, to the
\* audit only what was read, and to the attestations only what the audit has.
LEMMA KnownStays ==
    ASSUME SkillInv, everRead \subseteq everRead', UNCHANGED <<audit, skillState>>,
           SkillTypeOK'
    PROVE  SkillInv'
BY DEF SkillInv, Known

LEMMA SkillInvStep == SkillInv /\ [SkillNext]_skillVars => SkillInv'
<1> SUFFICES ASSUME SkillInv, [SkillNext]_skillVars PROVE SkillInv'
  OBVIOUS
<1>a. SkillTypeOK /\ ReaderRole \in [Readers -> ReaderRoles]
  BY SkillAssumption DEF SkillInv
<1>1. CASE UNCHANGED skillVars
  <2>1. SkillTypeOK'
    BY <1>a, <1>1 DEF skillVars, SkillTypeOK
  <2> QED
    BY <1>1, <2>1, KnownStays DEF skillVars
<1>2. ASSUME NEW f \in SkillFiles, Edit(f) PROVE SkillInv'
  <2>1. SkillTypeOK'
    BY <1>a, <1>2 DEF Edit, SkillTypeOK
  <2> QED
    BY <1>2, <2>1, KnownStays DEF Edit
<1>3. CASE Configure
  <2>1. SkillTypeOK'
    BY <1>a, <1>3 DEF Configure, SkillTypeOK
  <2> QED
    BY <1>3, <2>1, KnownStays DEF Configure
<1>4. ASSUME NEW s \in Readers, MapSession(s) PROVE SkillInv'
  <2>1. SkillTypeOK'
    BY <1>a, <1>4 DEF MapSession, SkillTypeOK
  <2> QED
    BY <1>4, <2>1, KnownStays DEF MapSession
<1>5. ASSUME NEW s \in Readers, NEW f \in SkillFiles, ReadTool(s, f) PROVE SkillInv'
  <2>1. SkillTypeOK'
    BY <1>a, <1>5 DEF ReadTool, SkillTypeOK
  <2> QED
    BY <1>5, <2>1, KnownStays DEF ReadTool
<1>6. ASSUME NEW s \in Readers, NEW full \in BOOLEAN, TrackRead(s, full) PROVE SkillInv'
  <2>1. PICK f \in reading[s] :
          LET whole == full \/ content[f] = NoFile
          IN  /\ audit' = [audit EXCEPT ![<<ReaderRole[s], f>>] =
                             [hash |-> content[f], full |-> whole, recent |-> TRUE]]
              /\ everRead' = IF whole THEN everRead \cup {<<ReaderRole[s], f, content[f]>>}
                             ELSE everRead
    BY <1>6 DEF TrackRead
  <2> DEFINE whole == full \/ content[f] = NoFile
             record == [hash |-> content[f], full |-> whole, recent |-> TRUE]
  <2>2. f \in SkillFiles /\ content[f] \in Contents \cup {NoFile} /\ ReaderRole[s] \in ReaderRoles
    BY <1>a DEF SkillTypeOK
  <2>3. audit' = [audit EXCEPT ![<<ReaderRole[s], f>>] = record]
    BY <2>1
  <2>4. everRead' = IF whole THEN everRead \cup {<<ReaderRole[s], f, content[f]>>} ELSE everRead
    BY <2>1
  <2>5. record \in [hash : Contents \cup {NoFile}, full : BOOLEAN, recent : BOOLEAN]
    BY <2>2
  <2>6. record.full = whole
    OBVIOUS
  <2> HIDE DEF record, whole
  <2>7. audit' \in [ReaderRoles \X SkillFiles -> [hash : Contents \cup {NoFile},
                                                  full : BOOLEAN, recent : BOOLEAN]]
    BY <1>a, <2>2, <2>3, <2>5 DEF SkillTypeOK
  <2>8. /\ everRead' \in SUBSET (ReaderRoles \X SkillFiles \X (Contents \cup {NoFile}))
        /\ everRead \subseteq everRead'
        /\ whole => <<ReaderRole[s], f, content[f]>> \in everRead'
    BY <1>a, <2>2, <2>4 DEF SkillTypeOK
  <2>9. /\ reading' = [reading EXCEPT ![s] = {}]
        /\ UNCHANGED <<content, required, scopeOf, attesting, skillState>>
    BY <1>6 DEF TrackRead
  <2>10. SkillTypeOK'
    BY <1>a, <2>7, <2>8, <2>9 DEF SkillTypeOK
  <2>11. ASSUME NEW role \in ReaderRoles, NEW g \in SkillFiles, audit'[<<role, g>>].full
         PROVE  Known(role, g)'
    <3>1. CASE role = ReaderRole[s] /\ g = f
      <4>1. audit'[<<role, g>>] = record
        BY <1>a, <2>2, <2>3, <3>1 DEF SkillTypeOK
      <4> QED
        BY <2>2, <2>6, <2>8, <2>11, <3>1, <4>1 DEF Known
    <3>2. CASE ~(role = ReaderRole[s] /\ g = f)
      <4>1. audit'[<<role, g>>] = audit[<<role, g>>]
        BY <1>a, <2>2, <2>3, <3>2 DEF SkillTypeOK
      <4> QED
        BY <2>8, <2>11, <4>1 DEF SkillInv, Known
    <3> QED
      BY <3>1, <3>2
  <2>12. \A r \in Readers : \A a \in skillState'[r] :
           \A g \in DOMAIN a.files : Known(ReaderRole[r], g)'
    BY <2>8, <2>9 DEF SkillInv, Known
  <2> QED
    BY <2>10, <2>11, <2>12 DEF SkillInv
<1>7. CASE ReadsAge
  <2>1. /\ audit' = [rf \in ReaderRoles \X SkillFiles |-> [audit[rf] EXCEPT !.recent = FALSE]]
        /\ UNCHANGED <<content, required, scopeOf, reading, attesting, skillState, everRead>>
    BY <1>7 DEF ReadsAge
  <2>2. ASSUME NEW rf \in ReaderRoles \X SkillFiles
        PROVE  /\ audit'[rf] \in [hash : Contents \cup {NoFile}, full : BOOLEAN,
                                  recent : BOOLEAN]
               /\ audit'[rf].full = audit[rf].full
    BY <1>a, <2>1 DEF SkillTypeOK
  <2>3. SkillTypeOK'
    <3>1. audit' \in [ReaderRoles \X SkillFiles -> [hash : Contents \cup {NoFile},
                                                    full : BOOLEAN, recent : BOOLEAN]]
      BY <2>1, <2>2
    <3> QED
      BY <1>a, <2>1, <3>1 DEF SkillTypeOK
  <2> QED
    BY <2>1, <2>2, <2>3 DEF SkillInv, Known
<1>8. ASSUME NEW s \in Readers, BeginAttest(s) PROVE SkillInv'
  <2>1. skillState' \in {skillState, [skillState EXCEPT ![s] = {}]}
    BY <1>8 DEF BeginAttest
  <2> DEFINE a == [scope |-> scopeOf[s], files |-> [f \in required |-> content[f]]]
             ready == required # {} /\ \A f \in required : content[f] # NoFile
  <2>2. attesting' = [attesting EXCEPT ![s] = IF ready THEN {a} ELSE {}]
    BY <1>8 DEF BeginAttest
  <2>3. ready => a \in Attestations
    <3>1. required \in SUBSET SkillFiles /\ scopeOf[s] \in Scopes
      BY <1>a DEF SkillTypeOK
    <3>2. ready => [f \in required |-> content[f]] \in [required -> Contents]
      BY <1>a, <3>1 DEF SkillTypeOK
    <3> QED
      BY <3>1, <3>2 DEF Attestations
  <2> HIDE DEF a, ready
  <2>4. attesting' \in [Readers -> SUBSET Attestations]
    BY <1>a, <2>2, <2>3 DEF SkillTypeOK
  <2>5. skillState' \in [Readers -> SUBSET Attestations]
    BY <1>a, <2>1 DEF SkillTypeOK
  <2>6. UNCHANGED <<content, required, scopeOf, reading, audit, everRead>>
    BY <1>8 DEF BeginAttest
  <2>7. SkillTypeOK'
    BY <1>a, <2>4, <2>5, <2>6 DEF SkillTypeOK
  <2>8. \A r \in Readers : skillState'[r] \subseteq skillState[r]
    BY <1>a, <2>1 DEF SkillTypeOK
  <2> QED
    BY <2>6, <2>7, <2>8 DEF SkillInv, Known
<1>9. ASSUME NEW s \in Readers, FinishAttest(s) PROVE SkillInv'
  <2>1. PICK a \in attesting[s] :
          \/ /\ \A f \in DOMAIN a.files : VerifyRead(ReaderRole[s], f)
             /\ skillState' = [skillState EXCEPT ![s] = {a}]
          \/ UNCHANGED skillState
    BY <1>9 DEF FinishAttest
  <2>2. a \in Attestations /\ DOMAIN a.files \subseteq SkillFiles /\ ReaderRole[s] \in ReaderRoles
    BY <1>a, AttestedFiles DEF SkillTypeOK
  <2>3. /\ attesting' = [attesting EXCEPT ![s] = {}]
        /\ UNCHANGED <<content, required, scopeOf, reading, audit, everRead>>
    BY <1>9 DEF FinishAttest
  <2>4. CASE UNCHANGED skillState
    <3>1. SkillTypeOK'
      BY <1>a, <2>3, <2>4 DEF SkillTypeOK
    <3> QED
      BY <2>3, <2>4, <3>1, KnownStays
  <2>5. CASE /\ \A f \in DOMAIN a.files : VerifyRead(ReaderRole[s], f)
             /\ skillState' = [skillState EXCEPT ![s] = {a}]
    <3>1. SkillTypeOK'
      BY <1>a, <2>2, <2>3, <2>5 DEF SkillTypeOK
    <3>2. \A f \in DOMAIN a.files : Known(ReaderRole[s], f)
      BY <2>2, <2>5 DEF SkillInv, VerifyRead
    <3>3. /\ skillState'[s] = {a}
          /\ \A r \in Readers \ {s} : skillState'[r] = skillState[r]
      BY <1>a, <2>5 DEF SkillTypeOK
    <3>4. \A role, f : Known(role, f)' = Known(role, f)
      BY <2>3 DEF Known
    <3>5. \A r \in Readers : \A b \in skillState'[r] :
            \A f \in DOMAIN b.files : Known(ReaderRole[r], f)'
      BY <3>2, <3>3, <3>4 DEF SkillInv
    <3> QED
      BY <2>3, <3>1, <3>4, <3>5 DEF SkillInv
  <2> QED
    BY <2>1, <2>4, <2>5
<1> QED
  BY <1>1, <1>2, <1>3, <1>4, <1>5, <1>6, <1>7, <1>8, <1>9 DEF SkillNext

LEMMA SkillInvariant == SkillSpec => []SkillInv
BY SkillInvInit, SkillInvStep, PTL DEF SkillSpec

\* Edits, reads and attestations in any order leave the audit and the
\* attestations in their shape.
THEOREM SkillTypeInvariant == SkillSpec => []SkillTypeOK
<1>1. SkillInv => SkillTypeOK
  BY DEF SkillInv
<1> QED
  BY <1>1, SkillInvariant, PTL

\* For any number of sessions, roles, files and contents: while a session's
\* tools are open its role has read every required file in full, although files
\* and the configuration change between the read, the attestation and the check.
THEOREM OpenMeansReadInvariant == SkillSpec => []OpenMeansRead
<1>1. ASSUME SkillInv, NEW s \in Readers, Valid(s), NEW f \in required
      PROVE  Known(ReaderRole[s], f)
  <2>1. PICK a \in skillState[s] : a.files = [g \in required |-> content[g]]
    BY <1>1 DEF Valid
  <2> QED
    BY <1>1, <2>1 DEF SkillInv
<1>2. SkillInv => OpenMeansRead
  BY <1>1 DEF OpenMeansRead, Known
<1> QED
  BY <1>2, SkillInvariant, PTL

-----------------------------------------------------------------------------
(* The session map: a write gives a row what it is given and leaves the rest, *)
(* and puts its key before the others.                                        *)

MapSound == sessionMap \in [Keys -> Rows]

\* A row that is written over keeps its job, its domain and its parent.
Kept(old, new) ==
    /\ old.job # None => new.job # None
    /\ old.domain # None => new.domain # None
    /\ old.parent # NoParent => new.parent = old.parent

\* What the upsert makes of a row (dbWriteSessionMap).
LEMMA WrittenRow ==
    ASSUME NEW row \in Rows, NEW agent \in AgentTypes \cup {None, "pending"},
           NEW j \in Jobs \cup {None}, NEW d \in Domains \cup {None},
           NEW parent \in Sessions \cup {NoParent}
    PROVE  /\ Written(row, agent, j, d, parent) \in Rows
           /\ Kept(row, Written(row, agent, j, d, parent))
<1>1. /\ Given(j, row.job) \in Jobs \cup {None}
      /\ Given(d, row.domain) \in Domains \cup {None}
      /\ (IF row.parent = NoParent THEN parent ELSE row.parent) \in Sessions \cup {NoParent}
  BY DEF Given, Rows
<1>2. Written(row, agent, j, d, parent) \in Rows
  BY <1>1 DEF Written, Rows
<1>3. Kept(row, Written(row, agent, j, d, parent))
  BY DEF Kept, Written, Given
<1> QED
  BY <1>2, <1>3

\* What a step has to leave of the map.
RowsKept ==
    /\ MapSound'
    /\ \A k \in Keys : k \notin dayOld /\ sessionMap'[k] # NoMapRow
                         => Kept(sessionMap[k], sessionMap'[k])

\* A key is a session or the slot of a job, and nothing is left of no row.
LEMMA MapFacts ==
    /\ Sessions \subseteq Keys /\ \A j \in Jobs : Slot(j) \in Keys
    /\ NoMapRow \in Rows /\ \A s \in Sessions : Parent[s] \in Sessions \cup {NoParent}
    /\ NoParent \in Sessions \cup {NoParent} /\ AgentTypes \subseteq AgentTypes \cup {None, "pending"}
BY RegistryAssumption DEF Keys, NoMapRow, Rows

LEMMA RowWritten ==
    ASSUME MapSound, NEW k \in Keys, NEW agent \in AgentTypes \cup {None, "pending"},
           NEW j \in Jobs \cup {None}, NEW d \in Domains \cup {None},
           NEW parent \in Sessions \cup {NoParent}, WriteRow(k, agent, j, d, parent)
    PROVE  RowsKept
<1> DEFINE row == Written(sessionMap[k], agent, j, d, parent)
<1>1. row \in Rows /\ Kept(sessionMap[k], row)
  BY WrittenRow DEF MapSound
<1>2. sessionMap' = [sessionMap EXCEPT ![k] = row]
  BY DEF WriteRow
<1> HIDE DEF row
<1>3. sessionMap'[k] = row /\ \A l \in Keys \ {k} : sessionMap'[l] = sessionMap[l]
  BY <1>2 DEF MapSound
<1>4. MapSound'
  BY <1>1, <1>2 DEF MapSound
<1> QED
  BY <1>1, <1>3, <1>4 DEF RowsKept, Kept

LEMMA RegistryStep == MapSound /\ [RegistryNext]_registryVars => RowsKept
<1> SUFFICES ASSUME MapSound, [RegistryNext]_registryVars PROVE RowsKept
  OBVIOUS
<1>a. UNCHANGED sessionMap => RowsKept
  BY DEF RowsKept, Kept, MapSound
<1>1. CASE UNCHANGED registryVars
  BY <1>a, <1>1 DEF registryVars
<1>2. ASSUME NEW s \in Sessions, NEW a \in AgentTypes, SessionCreated(s, a) PROVE RowsKept
  BY <1>2, MapFacts, RowWritten DEF SessionCreated
<1>3. ASSUME NEW s \in Sessions, NEW a \in AgentTypes, ChatMessage(s, a) PROVE RowsKept
  <2> DEFINE kept == IF s \in Orphans THEN NoMapRow ELSE sessionMap[s]
             row == Written(kept, a, kept.job, kept.domain, Parent[s])
  <2>1. sessionMap' = [k \in Keys |-> IF k = s THEN row
                                      ELSE IF k \in Orphans THEN NoMapRow ELSE sessionMap[k]]
    BY <1>3 DEF ChatMessage
  <2>2. kept \in Rows
    BY MapFacts DEF MapSound
  <2>3. row \in Rows /\ Kept(kept, row)
    <3>1. /\ kept.job \in Jobs \cup {None} /\ kept.domain \in Domains \cup {None}
          /\ Parent[s] \in Sessions \cup {NoParent}
          /\ a \in AgentTypes \cup {None, "pending"}
      BY <2>2, MapFacts DEF Rows
    <3> HIDE DEF kept
    <3> QED
      BY <2>2, <3>1, WrittenRow
  <2> HIDE DEF row
  <2>4. MapSound'
    BY <2>1, <2>3, MapFacts DEF MapSound
  <2>5. ASSUME NEW k \in Keys, k \notin dayOld, sessionMap'[k] # NoMapRow
        PROVE  Kept(sessionMap[k], sessionMap'[k])
    <3>1. CASE k = s
      BY <2>1, <2>3, <2>5, <3>1 DEF Orphans
    <3>2. CASE k # s
      <4>1. sessionMap'[k] = sessionMap[k]
        BY <2>1, <2>5, <3>2 DEF Orphans
      <4> QED
        BY <4>1 DEF Kept
    <3> QED
      BY <3>1, <3>2
  <2> QED
    BY <2>4, <2>5 DEF RowsKept
<1>4. ASSUME NEW s \in Sessions, NEW a \in AgentTypes, NEW d \in Domains, NEW j \in Jobs,
             RegisterDispatch(s, j, a, d)
      PROVE  RowsKept
  <2> DEFINE agent == IF sessionMap[s].agent = None THEN "pending" ELSE sessionMap[s].agent
             mine == Written(sessionMap[s], agent, j, d, NoParent)
             slot == Written(sessionMap[Slot(j)], a, j, d, NoParent)
  <2>1. s \in Keys /\ Slot(j) \in Keys
    BY MapFacts
  <2>2. sessionMap' = [sessionMap EXCEPT ![s] = mine, ![Slot(j)] = slot]
    BY <1>4 DEF RegisterDispatch
  <2>3. mine \in Rows /\ Kept(sessionMap[s], mine)
    <3>1. sessionMap[s] \in Rows /\ agent \in AgentTypes \cup {None, "pending"}
      BY <2>1 DEF MapSound, Rows
    <3> HIDE DEF agent
    <3> QED
      BY <3>1, WrittenRow
  <2>4. slot \in Rows /\ Kept(sessionMap[Slot(j)], slot)
    BY <2>1, WrittenRow DEF MapSound
  <2> HIDE DEF agent, mine, slot
  <2>5. /\ sessionMap'[Slot(j)] = slot /\ sessionMap'[s] \in {mine, slot}
        /\ s # Slot(j) => sessionMap'[s] = mine
        /\ \A k \in Keys \ {s, Slot(j)} : sessionMap'[k] = sessionMap[k]
    BY <2>1, <2>2 DEF MapSound
  <2>6. MapSound'
    BY <2>1, <2>2, <2>3, <2>4 DEF MapSound
  <2> QED
    BY <2>3, <2>4, <2>5, <2>6 DEF RowsKept, Kept
<1>5. ASSUME NEW s \in Sessions, NEW a \in AgentTypes, NEW d \in Domains,
             NEW j \in Jobs \cup {None}, DeclareScope(s, a, j, d)
      PROVE  RowsKept
  <2>1. WriteRow(s, a, j, d, NoParent)
    BY <1>5 DEF DeclareScope
  <2> QED
    BY <2>1, MapFacts, RowWritten
<1>6. ASSUME NEW s \in Sessions, NEW j \in Jobs, EnqueueJob(s, j) PROVE RowsKept
  BY <1>a, <1>6 DEF EnqueueJob
<1>7. CASE DayPasses
  BY <1>a, <1>7 DEF DayPasses
<1>8. CASE Compact
  <2>1. PICK gone : sessionMap' = [k \in Keys |-> IF k \in gone THEN NoMapRow
                                                  ELSE sessionMap[k]]
    BY <1>8 DEF Compact, DeleteRows
  <2>2. MapSound'
    BY <2>1, MapFacts DEF MapSound
  <2> QED
    BY <2>1, <2>2 DEF RowsKept, Kept
<1> QED
  BY <1>1, <1>2, <1>3, <1>4, <1>5, <1>6, <1>7, <1>8 DEF RegistryNext

LEMMA MapInvariant == RegistrySpec => []MapSound
<1>1. RegistryInit => MapSound
  BY MapFacts DEF RegistryInit, MapSound
<1>2. MapSound /\ [RegistryNext]_registryVars => MapSound'
  BY RegistryStep DEF RowsKept
<1> QED
  BY <1>1, <1>2, PTL DEF RegistrySpec

\* For any number of sessions and jobs and any limit of the map: hooks,
\* dispatches and declarations that know less of a session than its row leave
\* there what they do not know, in whatever order they come.
THEOREM NothingForgottenStays == RegistrySpec => NothingForgotten
<1>1. ASSUME MapSound, [RegistryNext]_registryVars
      PROVE  [\A k \in Keys :
                LET old == sessionMap[k]
                    new == sessionMap'[k]
                IN  old # NoMapRow /\ new # NoMapRow /\ k \notin dayOld =>
                      /\ old.job # None => new.job # None
                      /\ old.domain # None => new.domain # None
                      /\ old.parent # NoParent => new.parent = old.parent]_registryVars
  BY <1>1, RegistryStep DEF RowsKept, Kept
<1> QED
  BY <1>1, MapInvariant, PTL DEF RegistrySpec, NothingForgotten

\* The order of the last writes is one also without some keys, and with one key
\* moved to its front.
LEMMA WithoutLinear ==
    ASSUME NEW order \in SUBSET (Keys \X Keys), Linear(order), NEW gone
    PROVE  /\ Without(order, gone) \in SUBSET (Keys \X Keys)
           /\ Linear(Without(order, gone))
           /\ Ordered(Without(order, gone)) = Ordered(order) \ gone
<1> DEFINE rest == Without(order, gone)
<1>1. rest \in SUBSET (Keys \X Keys)
  BY DEF Without
<1>2. \A k, l \in Keys : <<k, l>> \in rest <=> <<k, l>> \in order /\ k \notin gone /\ l \notin gone
  BY DEF Without
<1> HIDE DEF rest
<1>3. Ordered(rest) = Ordered(order) \ gone
  BY <1>2 DEF Ordered
<1>4. Linear(rest)
  BY <1>2, <1>3 DEF Linear, Ordered
<1> QED
  BY <1>1, <1>3, <1>4 DEF rest

LEMMA TouchedLinear ==
    ASSUME NEW order \in SUBSET (Keys \X Keys), Linear(order), NEW k \in Keys
    PROVE  /\ Touched(order, k) \in SUBSET (Keys \X Keys)
           /\ Linear(Touched(order, k))
           /\ Ordered(Touched(order, k)) = Ordered(order) \cup {k}
<1> DEFINE rest == Without(order, {k})
           touched == Touched(order, k)
<1>1. /\ rest \in SUBSET (Keys \X Keys) /\ Linear(rest)
      /\ Ordered(rest) = Ordered(order) \ {k}
  BY WithoutLinear
<1>2. \A l \in Keys : <<k, l>> \notin rest /\ <<l, k>> \notin rest
  BY DEF Without
<1>3. Ordered(order) \subseteq Keys
  BY DEF Ordered
<1>4. \A l, m \in Keys :
         <<l, m>> \in touched <=> <<l, m>> \in rest \/ (l = k /\ m \in Ordered(order) \cup {k})
  BY DEF Touched
<1>5. touched \in SUBSET (Keys \X Keys)
  BY <1>1, <1>3 DEF Touched
<1> HIDE DEF rest, touched
<1>6. Ordered(touched) = Ordered(order) \cup {k}
  <2>1. \A l \in Keys : l \in Ordered(touched) <=> l \in Ordered(rest) \/ l = k
    BY <1>4 DEF Ordered
  <2>2. Ordered(touched) \subseteq Keys
    BY DEF Ordered
  <2> QED
    BY <1>1, <1>3, <2>1, <2>2
<1>7. Linear(touched)
  <2>1. \A l, m \in Keys : <<l, m>> \in touched => l \in Ordered(touched) /\ m \in Ordered(touched)
    BY <1>1, <1>4, <1>6 DEF Linear
  <2>2. \A l, m \in Ordered(touched) :
           /\ <<l, m>> \in touched \/ <<m, l>> \in touched
           /\ <<l, m>> \in touched /\ <<m, l>> \in touched => l = m
    BY <1>1, <1>2, <1>3, <1>4, <1>6 DEF Linear
  <2>3. \A l, m, n \in Ordered(touched) :
           <<l, m>> \in touched /\ <<m, n>> \in touched => <<l, n>> \in touched
    BY <1>1, <1>2, <1>3, <1>4, <1>6, <2>1 DEF Linear
  <2> QED
    BY <2>1, <2>2, <2>3 DEF Linear
<1> QED
  BY <1>5, <1>6, <1>7 DEF touched

\* The keys with a row are those the order is about.
Stored == {k \in Keys : sessionMap[k] # NoMapRow}

OrderSound ==
    /\ recency \in SUBSET (Keys \X Keys) /\ Linear(recency)
    /\ Stored = Ordered(recency)
    /\ dayOld \subseteq Ordered(recency)

\* What a write gives a row is a row.
LEMMA WrittenIsARow ==
    ASSUME NEW row, NEW agent, agent # None, NEW j, NEW d, NEW parent
    PROVE  Written(row, agent, j, d, parent) # NoMapRow
BY DEF Written, NoMapRow

LEMMA OrderWritten ==
    ASSUME MapSound, OrderSound, NEW k \in Keys, NEW agent, agent # None,
           NEW j, NEW d, NEW parent, WriteRow(k, agent, j, d, parent)
    PROVE  OrderSound'
<1> DEFINE row == Written(sessionMap[k], agent, j, d, parent)
<1>1. sessionMap' = [sessionMap EXCEPT ![k] = row] /\ row # NoMapRow
  BY WrittenIsARow DEF WriteRow
<1> HIDE DEF row
<1>2. Stored' = Stored \cup {k}
  BY <1>1 DEF Stored, MapSound
<1> QED
  BY <1>2, TouchedLinear DEF OrderSound, WriteRow

LEMMA OrderStep == MapSound /\ OrderSound /\ [RegistryNext]_registryVars => OrderSound'
<1> SUFFICES ASSUME MapSound, OrderSound, [RegistryNext]_registryVars PROVE OrderSound'
  OBVIOUS
<1>a. \A a \in AgentTypes \cup {"pending"} : a # None
  BY RegistryAssumption
<1>b. UNCHANGED <<sessionMap, recency, dayOld>> => OrderSound'
  BY DEF OrderSound, Stored
<1>1. CASE UNCHANGED registryVars
  BY <1>b, <1>1 DEF registryVars
<1>2. ASSUME NEW s \in Sessions, NEW a \in AgentTypes, SessionCreated(s, a) PROVE OrderSound'
  BY <1>2, <1>a, MapFacts, OrderWritten DEF SessionCreated
<1>3. ASSUME NEW s \in Sessions, NEW a \in AgentTypes, ChatMessage(s, a) PROVE OrderSound'
  <2> DEFINE kept == IF s \in Orphans THEN NoMapRow ELSE sessionMap[s]
             row == Written(kept, a, kept.job, kept.domain, Parent[s])
             rest == Without(recency, Orphans)
  <2>1. /\ sessionMap' = [k \in Keys |-> IF k = s THEN row
                                         ELSE IF k \in Orphans THEN NoMapRow ELSE sessionMap[k]]
        /\ recency' = Touched(rest, s) /\ dayOld' = dayOld \ Sessions
    BY <1>3 DEF ChatMessage
  <2>2. row # NoMapRow
    BY <1>a, WrittenIsARow
  <2>3. /\ rest \in SUBSET (Keys \X Keys) /\ Linear(rest)
        /\ Ordered(rest) = Ordered(recency) \ Orphans
    BY WithoutLinear DEF OrderSound
  <2> HIDE DEF row, rest
  <2>4. Stored' = (Stored \ Orphans) \cup {s}
    BY <2>1, <2>2, MapFacts DEF Stored
  <2>5. /\ recency' \in SUBSET (Keys \X Keys) /\ Linear(recency')
        /\ Ordered(recency') = Ordered(rest) \cup {s}
    BY <2>1, <2>3, MapFacts, TouchedLinear
  <2> QED
    BY <2>1, <2>3, <2>4, <2>5 DEF OrderSound, Orphans
<1>4. ASSUME NEW s \in Sessions, NEW a \in AgentTypes, NEW d \in Domains, NEW j \in Jobs,
             RegisterDispatch(s, j, a, d)
      PROVE  OrderSound'
  <2> DEFINE agent == IF sessionMap[s].agent = None THEN "pending" ELSE sessionMap[s].agent
             mine == Written(sessionMap[s], agent, j, d, NoParent)
             slot == Written(sessionMap[Slot(j)], a, j, d, NoParent)
             first == Touched(recency, s)
  <2>1. s \in Keys /\ Slot(j) \in Keys
    BY MapFacts
  <2>2. /\ sessionMap' = [sessionMap EXCEPT ![s] = mine, ![Slot(j)] = slot]
        /\ recency' = Touched(first, Slot(j)) /\ dayOld' = dayOld \ {s, Slot(j)}
    BY <1>4 DEF RegisterDispatch
  <2>3. agent # None
    BY <1>a
  <2>4. mine # NoMapRow /\ slot # NoMapRow
    BY <1>a, <2>3, WrittenIsARow
  <2>5. /\ first \in SUBSET (Keys \X Keys) /\ Linear(first)
        /\ Ordered(first) = Ordered(recency) \cup {s}
    BY <2>1, TouchedLinear DEF OrderSound
  <2> HIDE DEF agent, mine, slot, first
  <2>6. Stored' = Stored \cup {s, Slot(j)}
    BY <2>1, <2>2, <2>4 DEF Stored, MapSound
  <2>7. /\ recency' \in SUBSET (Keys \X Keys) /\ Linear(recency')
        /\ Ordered(recency') = Ordered(first) \cup {Slot(j)}
    BY <2>1, <2>2, <2>5, TouchedLinear
  <2> QED
    BY <2>2, <2>5, <2>6, <2>7 DEF OrderSound
<1>5. ASSUME NEW s \in Sessions, NEW a \in AgentTypes, NEW d \in Domains,
             NEW j \in Jobs \cup {None}, DeclareScope(s, a, j, d)
      PROVE  OrderSound'
  <2>1. WriteRow(s, a, j, d, NoParent)
    BY <1>5 DEF DeclareScope
  <2> QED
    BY <2>1, <1>a, MapFacts, OrderWritten
<1>6. ASSUME NEW s \in Sessions, NEW j \in Jobs, EnqueueJob(s, j) PROVE OrderSound'
  BY <1>b, <1>6 DEF EnqueueJob
<1>7. CASE DayPasses
  <2>1. UNCHANGED <<sessionMap, recency>> /\ dayOld' \subseteq Ordered(recency)
    BY <1>7 DEF DayPasses, OrderSound, Linear, Ordered
  <2> QED
    BY <2>1 DEF OrderSound, Stored
<1>8. CASE Compact
  <2>1. PICK gone : DeleteRows(gone)
    BY <1>8 DEF Compact
  <2>2. /\ recency' \in SUBSET (Keys \X Keys) /\ Linear(recency')
        /\ Ordered(recency') = Ordered(recency) \ gone
    BY <2>1, WithoutLinear DEF OrderSound, DeleteRows
  <2>3. Stored' = Stored \ gone
    BY <2>1 DEF DeleteRows, Stored, MapSound
  <2> QED
    BY <2>1, <2>2, <2>3 DEF OrderSound, DeleteRows
<1> QED
  BY <1>1, <1>2, <1>3, <1>4, <1>5, <1>6, <1>7, <1>8 DEF RegistryNext

\* The dispatches that are logged were enqueued.
Enqueued ==
    /\ queuedBy \in [Jobs -> SUBSET Sessions]
    /\ logged \subseteq {j \in Jobs : queuedBy[j] # {}}

LEMMA EnqueuedStep == Enqueued /\ [RegistryNext]_registryVars => Enqueued'
<1> SUFFICES ASSUME Enqueued, [RegistryNext]_registryVars PROVE Enqueued'
  OBVIOUS
<1>1. CASE UNCHANGED <<queuedBy, logged>>
  BY <1>1 DEF Enqueued
<1>2. ASSUME NEW s \in Sessions, NEW j \in Jobs, EnqueueJob(s, j) PROVE Enqueued'
  BY <1>2 DEF EnqueueJob, Enqueued
<1>3. ASSUME NEW s \in Sessions, NEW a \in AgentTypes, NEW d \in Domains, NEW j \in Jobs,
             RegisterDispatch(s, j, a, d)
      PROVE  Enqueued'
  BY <1>3 DEF RegisterDispatch, Enqueued
<1> QED
  BY <1>1, <1>2, <1>3
     DEF RegistryNext, registryVars, SessionCreated, ChatMessage, DeclareScope, Compact, DayPasses

LEMMA RegistryInvInit == RegistryInit => MapSound /\ OrderSound /\ Enqueued
<1> SUFFICES ASSUME RegistryInit PROVE MapSound /\ OrderSound /\ Enqueued
  OBVIOUS
<1>1. MapSound /\ Enqueued
  BY MapFacts DEF RegistryInit, MapSound, Enqueued
<1>2. Stored = {} /\ Ordered(recency) = {}
  BY DEF RegistryInit, Stored, Ordered
<1>3. Linear(recency)
  BY <1>2 DEF RegistryInit, Linear
<1> QED
  BY <1>1, <1>2, <1>3 DEF RegistryInit, OrderSound

LEMMA RegistryTypeStep ==
    (MapSound /\ OrderSound /\ Enqueued) => RegistryTypeOK
BY DEF MapSound, OrderSound, Enqueued, Stored, Ordered, RegistryTypeOK

\* However rows are written, cleaned and compacted, the order of the last
\* writes, by which the compaction chooses, is an order of the rows there are.
THEOREM RegistryTypeInvariant == RegistrySpec => []RegistryTypeOK
<1>1. MapSound /\ OrderSound /\ Enqueued /\ [RegistryNext]_registryVars
        => MapSound' /\ OrderSound' /\ Enqueued'
  BY RegistryStep, OrderStep, EnqueuedStep DEF RowsKept
<1> QED
  BY <1>1, RegistryInvInit, RegistryTypeStep, PTL DEF RegistrySpec

-----------------------------------------------------------------------------
(* The pipeline: what has once been read stays read, so an attestation that  *)
(* was true when it was checked is still true when it is stored.             *)

\* A session of agent a has read these files, with opened as what each session
\* has read.
ReadBy(opened, read, a) ==
    \E r \in Scholars :
        ScholarAgent[r] = a /\ read # {} /\ read \subseteq opened[r]

\* What an attestation for domain d claims.
Studied(opened, att, a, d) ==
    ReadBy(opened, att.read, a) /\ (att.checked => MandatoryNamed(d, att.read))

StageSound(k) ==
    pipelineState[k] # NoStage /\ pipelineState[k].verdict # "unattested"
    => Studied(seen, pipelineState[k], k[2], k[3])

AttestSound(a) == Studied(seen, a, a.key[2], a.key[3])

KnowledgeInv ==
    /\ KnowledgeTypeOK
    /\ \A k \in StageKeys : StageSound(k)
    /\ \A s \in Scholars : \A a \in attested[s] : AttestSound(a)

-----------------------------------------------------------------------------
\* The keys of a call are keys of its own agent and domain.
LEMMA KeysOfType ==
    ASSUME KnowledgeTypeOK, NEW s \in Scholars, NEW d \in Topics,
           NEW t \in Studies \cup {NoStudy}, NEW k \in KeysOf(t, s, d)
    PROVE  k \in StageKeys /\ k[2] = ScholarAgent[s] /\ k[3] = d
<1>1. PICK u \in Studies \cup {NoStudy} :
        k = <<IF u = NoStudy THEN s ELSE u, ScholarAgent[s], d>>
  BY DEF KeysOf, TasksOf, KnowledgeTypeOK
<1>2. (IF u = NoStudy THEN s ELSE u) \in Pipelines
  BY DEF Pipelines
<1>3. ScholarAgent[s] \in KnowledgeAgents
  BY DEF KnowledgeAgents
<1> QED
  BY <1>1, <1>2, <1>3 DEF StageKeys

\* What agents have studied they have studied for good.
LEMMA StudiedStays ==
    ASSUME KnowledgeTypeOK, [KnowledgeNext]_knowledgeVars,
           NEW att, NEW a, NEW d, Studied(seen, att, a, d)
    PROVE  Studied(seen', att, a, d)
<1>1. ASSUME NEW r \in Scholars PROVE seen[r] \subseteq seen'[r]
  <2>1. ASSUME NEW s \in Scholars, NEW f \in Pages, ReadPage(s, f)
        PROVE  seen[r] \subseteq seen'[r]
    BY <2>1 DEF ReadPage, KnowledgeTypeOK
  <2>2. (\E s \in Scholars, f \in Pages : ReadPage(s, f)) \/ seen' = seen
    <3>1. CASE UNCHANGED knowledgeVars
      BY <3>1 DEF knowledgeVars
    <3>2. ASSUME NEW s \in Scholars, NEW e \in Topics, NEW t \in Studies \cup {NoStudy},
                 NEW files \in SUBSET Pages,
                 \/ Declare(s, e, t)
                 \/ \E unreadable \in BOOLEAN : Search(s, e, t, files, unreadable)
                 \/ \E verdict \in {"attested", "insufficient"} :
                       CheckAttest(s, e, t, files, verdict)
          PROVE  seen' = seen
      BY <3>2, Zenon DEF Declare, Search, CheckAttest
    <3>3. ASSUME NEW s \in Scholars, StoreAttest(s) \/ Assign(s) PROVE seen' = seen
      BY <3>3 DEF StoreAttest, Assign
    <3> QED
      BY <3>1, <3>2, <3>3 DEF KnowledgeNext
  <2> QED
    BY <2>1, <2>2
<1> QED
  BY <1>1 DEF Studied, ReadBy

\* A discovery leaves the verdict of a row, or makes a row without one.
LEMMA DiscoveredStages ==
    ASSUME KnowledgeTypeOK, NEW k \in StageKeys,
           NEW given \in {"undeclared", "insufficient", "sufficient"},
           NEW files \in SUBSET Pages, Discovered(k, given, files)
    PROVE  /\ pipelineState' \in [StageKeys -> Stage \cup {NoStage}]
           /\ \A j \in StageKeys :
                 /\ pipelineState'[j] # NoStage /\ pipelineState'[j].verdict # "unattested"
                 => /\ pipelineState[j] # NoStage
                    /\ pipelineState[j].verdict # "unattested"
                    /\ pipelineState'[j].read = pipelineState[j].read
                    /\ pipelineState'[j].checked = pipelineState[j].checked
<1> DEFINE row == [found |-> given, files |-> files, verdict |-> "unattested", read |-> {},
                   checked |-> FALSE]
           again == [pipelineState[k] EXCEPT !.found = given, !.files = files]
<1>1. row \in Stage /\ row.verdict = "unattested"
  BY DEF Stage
<1>2. CASE pipelineState[k] = NoStage
  <2>1. pipelineState' = [pipelineState EXCEPT ![k] = row]
    BY <1>2 DEF Discovered
  <2> HIDE DEF row
  <2> QED
    BY <1>1, <2>1 DEF KnowledgeTypeOK
<1>3. CASE pipelineState[k] # NoStage
  <2>1. pipelineState[k] \in Stage
    BY <1>3 DEF KnowledgeTypeOK
  <2>2. again \in Stage
    BY <2>1 DEF Stage
  <2>3. /\ again.verdict = pipelineState[k].verdict /\ again.read = pipelineState[k].read
        /\ again.checked = pipelineState[k].checked
    BY <2>1 DEF Stage
  <2>4. pipelineState' = [pipelineState EXCEPT ![k] = again]
    BY <1>3 DEF Discovered
  <2> HIDE DEF again
  <2> QED
    BY <1>3, <2>2, <2>3, <2>4 DEF KnowledgeTypeOK
<1> QED
  BY <1>2, <1>3

\* A step that changes the table by a discovery, or leaves it, and attestations
\* under way as they are.
LEMMA DiscoveringStep ==
    ASSUME KnowledgeInv, [KnowledgeNext]_knowledgeVars,
           \/ UNCHANGED pipelineState
           \/ \E k \in StageKeys, given \in {"undeclared", "insufficient", "sufficient"},
                 files \in SUBSET Pages : Discovered(k, given, files),
           UNCHANGED attested,
           studyOf' \in [Scholars -> Studies \cup {NoStudy}],
           seen' \in [Scholars -> SUBSET Pages]
    PROVE  KnowledgeInv'
<1>1. /\ pipelineState' \in [StageKeys -> Stage \cup {NoStage}]
      /\ \A j \in StageKeys :
            /\ pipelineState'[j] # NoStage /\ pipelineState'[j].verdict # "unattested"
            => /\ pipelineState[j] # NoStage
               /\ pipelineState[j].verdict # "unattested"
               /\ pipelineState'[j].read = pipelineState[j].read
               /\ pipelineState'[j].checked = pipelineState[j].checked
  BY DiscoveredStages DEF KnowledgeInv, KnowledgeTypeOK
<1>2. ASSUME NEW k \in StageKeys PROVE StageSound(k)'
  <2> SUFFICES ASSUME pipelineState'[k] # NoStage, pipelineState'[k].verdict # "unattested"
               PROVE  Studied(seen', pipelineState'[k], k[2], k[3])
    BY DEF StageSound
  <2>1. Studied(seen, pipelineState[k], k[2], k[3])
    BY <1>1 DEF KnowledgeInv, StageSound
  <2>2. Studied(seen', pipelineState[k], k[2], k[3])
    BY <2>1, StudiedStays DEF KnowledgeInv
  <2> QED
    BY <1>1, <2>2 DEF Studied
<1>3. ASSUME NEW s \in Scholars, NEW a \in attested'[s] PROVE AttestSound(a)'
  BY <1>3, StudiedStays DEF KnowledgeInv, AttestSound
<1> QED
  BY <1>1, <1>2, <1>3 DEF KnowledgeInv, KnowledgeTypeOK

-----------------------------------------------------------------------------
LEMMA KnowledgeInvInit == KnowledgeInit => KnowledgeInv
BY DEF KnowledgeInit, KnowledgeInv, KnowledgeTypeOK, StageSound

LEMMA KnowledgeInvStep ==
    ASSUME KnowledgeInv, [KnowledgeNext]_knowledgeVars
    PROVE  KnowledgeInv'
<1>1. CASE UNCHANGED knowledgeVars
  BY <1>1, DiscoveringStep DEF knowledgeVars, KnowledgeInv, KnowledgeTypeOK
<1>2. ASSUME NEW s \in Scholars, NEW d \in Topics, NEW t \in Studies \cup {NoStudy},
             Declare(s, d, t)
      PROVE  KnowledgeInv'
  <2>1. studyOf' \in [Scholars -> Studies \cup {NoStudy}]
    BY <1>2 DEF Declare, KnowledgeInv, KnowledgeTypeOK
  <2>2. \A k \in KeysOf(t, s, d) : k \in StageKeys
    BY KeysOfType DEF KnowledgeInv
  <2> QED
    BY <1>2, <2>1, <2>2, DiscoveringStep DEF Declare, KnowledgeInv, KnowledgeTypeOK
<1>3. ASSUME NEW s \in Scholars, NEW d \in Topics, NEW t \in Studies \cup {NoStudy},
             NEW files \in SUBSET Pages, NEW unreadable \in BOOLEAN,
             Search(s, d, t, files, unreadable)
      PROVE  KnowledgeInv'
  <2>1. \A k \in KeysOf(t, s, d) : k \in StageKeys
    BY KeysOfType DEF KnowledgeInv
  <2> QED
    BY <1>3, <2>1, DiscoveringStep DEF Search, KnowledgeInv, KnowledgeTypeOK
<1>4. ASSUME NEW s \in Scholars, NEW f \in Pages, ReadPage(s, f)
      PROVE  KnowledgeInv'
  <2>1. seen' \in [Scholars -> SUBSET Pages]
    BY <1>4 DEF ReadPage, KnowledgeInv, KnowledgeTypeOK
  <2> QED
    BY <1>4, <2>1, DiscoveringStep DEF ReadPage, KnowledgeInv, KnowledgeTypeOK
<1>5. ASSUME NEW s \in Scholars, Assign(s)
      PROVE  KnowledgeInv'
  <2>1. studyOf' \in [Scholars -> Studies \cup {NoStudy}]
    BY <1>5 DEF Assign, KnowledgeInv, KnowledgeTypeOK
  <2> QED
    BY <1>5, <2>1, DiscoveringStep DEF Assign, KnowledgeInv, KnowledgeTypeOK
<1>6. ASSUME NEW s \in Scholars, NEW d \in Topics, NEW t \in Studies \cup {NoStudy},
             NEW files \in SUBSET Pages, NEW verdict \in {"attested", "insufficient"},
             CheckAttest(s, d, t, files, verdict)
      PROVE  KnowledgeInv'
  <2>1. PICK k \in KeysOf(t, s, d), checked \in BOOLEAN :
          /\ AttestAllowed(s, k, files, checked)
          /\ attested' = [attested EXCEPT ![s] =
                {[key |-> k, verdict |-> verdict, read |-> files, checked |-> checked]}]
    BY <1>6 DEF CheckAttest
  <2>2. k \in StageKeys /\ k[2] = ScholarAgent[s] /\ k[3] = d
    BY KeysOfType DEF KnowledgeInv
  <2> DEFINE one == [key |-> k, verdict |-> verdict, read |-> files, checked |-> checked]
  <2>3. one \in Attesting
    BY <2>2 DEF Attesting
  <2>4. ReadBy(seen, files, k[2]) /\ (checked => MandatoryNamed(k[3], files))
    BY <2>1, <2>2 DEF AttestAllowed, ReadBy
  <2>5. AttestSound(one)
    BY <2>4 DEF AttestSound, Studied
  <2>6. UNCHANGED <<studyOf, seen, pipelineState>>
    BY <1>6 DEF CheckAttest
  <2>7. attested' = [attested EXCEPT ![s] = {one}]
    BY <2>1
  <2> HIDE DEF one
  <2>8. attested' \in [Scholars -> SUBSET Attesting]
    BY <2>3, <2>7 DEF KnowledgeInv, KnowledgeTypeOK
  <2>9. \A r \in Scholars : \A a \in attested'[r] : AttestSound(a)
    BY <2>5, <2>7 DEF KnowledgeInv, KnowledgeTypeOK
  <2>10. \A a : AttestSound(a)' <=> AttestSound(a)
    BY <2>6 DEF AttestSound
  <2> QED
    BY <2>6, <2>8, <2>9, <2>10 DEF KnowledgeInv, KnowledgeTypeOK, StageSound
<1>7. ASSUME NEW s \in Scholars, StoreAttest(s)
      PROVE  KnowledgeInv'
  <2>1. /\ attested' = [attested EXCEPT ![s] = {}]
        /\ UNCHANGED <<studyOf, seen>>
    BY <1>7 DEF StoreAttest
  <2>2. /\ attested' \in [Scholars -> SUBSET Attesting]
        /\ \A r \in Scholars : attested'[r] \subseteq attested[r]
    BY <2>1 DEF KnowledgeInv, KnowledgeTypeOK
  <2>3. CASE UNCHANGED pipelineState
    BY <2>1, <2>2, <2>3 DEF KnowledgeInv, KnowledgeTypeOK, StageSound, AttestSound
  <2>4. ASSUME NEW a \in attested[s], pipelineState[a.key].found = "sufficient",
               pipelineState' = [pipelineState EXCEPT ![a.key] =
                                   [@ EXCEPT !.verdict = a.verdict, !.read = a.read,
                                             !.checked = a.checked]]
        PROVE  KnowledgeInv'
    <3>1. a \in Attesting /\ AttestSound(a)
      BY DEF KnowledgeInv, KnowledgeTypeOK
    <3>2. /\ a.key \in StageKeys /\ a.verdict \in {"attested", "insufficient"}
          /\ a.read \in SUBSET Pages /\ a.checked \in BOOLEAN
      BY <3>1 DEF Attesting
    <3>3. pipelineState[a.key] \in Stage
      BY <2>4, <3>2 DEF KnowledgeInv, KnowledgeTypeOK, NoStage
    <3> DEFINE row == [pipelineState[a.key] EXCEPT !.verdict = a.verdict, !.read = a.read,
                                                !.checked = a.checked]
    <3>4. row \in Stage /\ row.read = a.read /\ row.checked = a.checked
      BY <3>2, <3>3 DEF Stage
    <3>5. pipelineState' = [pipelineState EXCEPT ![a.key] = row]
      BY <2>4
    <3> HIDE DEF row
    <3>6. pipelineState' \in [StageKeys -> Stage \cup {NoStage}]
      BY <3>4, <3>5 DEF KnowledgeInv, KnowledgeTypeOK
    <3>7. ASSUME NEW k \in StageKeys PROVE StageSound(k)'
      <4>1. CASE k = a.key
        <5>1. pipelineState'[k].read = a.read /\ pipelineState'[k].checked = a.checked
          BY <3>2, <3>4, <3>5, <4>1 DEF KnowledgeInv, KnowledgeTypeOK
        <5>2. Studied(seen, a, k[2], k[3])
          BY <3>1, <4>1 DEF AttestSound
        <5>3. Studied(seen', pipelineState'[k], k[2], k[3])
          BY <2>1, <5>1, <5>2 DEF Studied
        <5> QED
          BY <5>3 DEF StageSound
      <4>2. CASE k # a.key
        <5>1. pipelineState'[k] = pipelineState[k]
          BY <3>5, <4>2 DEF KnowledgeInv, KnowledgeTypeOK
        <5> QED
          BY <2>1, <5>1 DEF KnowledgeInv, StageSound
      <4> QED
        BY <4>1, <4>2
    <3> QED
      BY <2>1, <2>2, <3>6, <3>7 DEF KnowledgeInv, KnowledgeTypeOK, AttestSound
  <2> QED
    BY <1>7, <2>3, <2>4 DEF StoreAttest
<1> QED
  BY <1>1, <1>2, <1>3, <1>4, <1>5, <1>6, <1>7 DEF KnowledgeNext

LEMMA KnowledgeInvariant == KnowledgeSpec => []KnowledgeInv
<1>1. KnowledgeInv /\ [KnowledgeNext]_knowledgeVars => KnowledgeInv'
  BY KnowledgeInvStep
<1> QED
  BY <1>1, KnowledgeInvInit, PTL DEF KnowledgeSpec

\* Whatever the tools of several processes do to a row of the pipeline, it keeps
\* its shape.
THEOREM KnowledgeTypeInvariant == KnowledgeSpec => []KnowledgeTypeOK
<1>1. KnowledgeInv => KnowledgeTypeOK
  BY DEF KnowledgeInv
<1> QED
  BY <1>1, KnowledgeInvariant, PTL

\* For any number of sessions, tasks and domains an attestation on record was
\* earned by a session of its agent, although it is stored after the discovery it
\* was compared with was read.
THEOREM AttestedWasReadInvariant == KnowledgeSpec => []AttestedWasRead
<1>1. KnowledgeInv => AttestedWasRead
  BY DEF KnowledgeInv, StageSound, Studied, ReadBy, AttestedWasRead
<1> QED
  BY <1>1, KnowledgeInvariant, PTL

-----------------------------------------------------------------------------
(* The composition.  A behaviour of it is one of every service: of the chosen *)
(* one, and for the others one in which nothing happens.                      *)

LEMMA EachServiceRuns ==
    SessionsSpec => /\ GrantsSpec /\ RegistrySpec /\ ChecklistSpec
                    /\ SkillSpec /\ GuidanceSpec /\ KnowledgeSpec
<1>1. SessionsInit => /\ GrantsInit /\ RegistryInit /\ ChecklistInit
                      /\ SkillInit /\ GuidanceInit /\ KnowledgeInit
  BY DEF SessionsInit
<1>2. [SessionsNext]_sessionsVars =>
        /\ [GrantsNext]_grantsVars /\ [RegistryNext]_registryVars
        /\ [ChecklistNext]_checklistVars /\ [SkillNext]_skillVars
        /\ [GuidanceNext]_guidanceVars /\ [KnowledgeNext]_knowledgeVars
  BY DEF SessionsNext, Only, sessionsVars
<1> QED
  BY <1>1, <1>2, PTL
     DEF SessionsSpec, GrantsSpec, RegistrySpec, ChecklistSpec, SkillSpec, GuidanceSpec,
         KnowledgeSpec

\* The rows of every service keep their shape, for any sessions, keys, jobs, files
\* and tools at once.
THEOREM SessionsTypeInvariant == SessionsSpec => []SessionsTypeOK
<1>1. part \in Services /\ [SessionsNext]_sessionsVars => (part \in Services)'
  BY DEF SessionsNext, Only, sessionsVars
<1>2. SessionsInit => part \in Services
  BY DEF SessionsInit
<1>3. SessionsSpec => [](part \in Services)
  BY <1>1, <1>2, PTL DEF SessionsSpec
<1>4. SessionsSpec => []GrantsTypeOK
  <2>1. IInv => GrantsTypeOK
    BY DEF IInv
  <2> QED
    BY <2>1, EachServiceRuns, Invariant, PTL
<1>5. /\ part \in Services
      /\ GrantsTypeOK /\ RegistryTypeOK /\ ChecklistTypeOK
      /\ SkillTypeOK /\ GuidanceTypeOK /\ KnowledgeTypeOK
      => SessionsTypeOK
  BY DEF SessionsTypeOK, Services
<1> QED
  BY <1>3, <1>4, <1>5, EachServiceRuns, RegistryTypeInvariant, ChecklistTypeInvariant,
     SkillTypeInvariant, GuidanceTypeInvariant, KnowledgeTypeInvariant, PTL
=============================================================================
