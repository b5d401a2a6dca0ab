------------------------------ MODULE Guidance ------------------------------
(***************************************************************************)
(* The anti-bypass gate (the anti-bypass handlers that guidance-bridge and *)
(* guidance-recovery call, and service/enforcement/tool-tracker.ts): a     *)
(* tool whose results said no too often is not started again in a session. *)
(*                                                                         *)
(* Of what tool-tracker.ts counts only these soft rejections come about.   *)
(* Its other counters live in tool_enforcement, and the INSERT in front of *)
(* every function that writes them names sixteen columns and gives fifteen *)
(* values: SQLite refuses the statement, the function ends in its catch,   *)
(* and there is no row.  So recordAttempt never says to block, recordBlock *)
(* is never called, recordResult never calls a result a failure,           *)
(* rewardReport gives no token, getAwaitingPhase is 0, and the TTL, the    *)
(* orphans, the recovery and clear_guidance have nothing to work on.       *)
(*                                                                         *)
(* A call is a before hook and, if no handler throws, an after hook.  The  *)
(* hooks of a session run in one process and do not pause inside, but      *)
(* calls overlap, and the process may die with some of them under way.     *)
(***************************************************************************)
EXTENDS Naturals

CONSTANTS
    Callers,            \* sessions
    OtherTools,         \* tools besides the question tool
    SoftRejectionThreshold,
    MaxAtOnce,          \* bound: calls of one tool a session has under way
    MaxUnread           \* bound: counts that cannot be read, per session and tool

Question == "question"
Tools == OtherTools \cup {Question}

ASSUME GuidanceAssumption ==
    /\ Question \notin OtherTools
    /\ SoftRejectionThreshold \in Nat \ {0}
    /\ MaxAtOnce \in Nat /\ MaxUnread \in Nat

VARIABLES
    rejections,     \* soft_rejections
    inFlight,       \* how many calls of a tool have passed their before hook
    unread          \* history: how many of its counts could not be read

guidanceVars == <<rejections, inFlight, unread>>

GuidanceTypeOK ==
    /\ rejections \in [Callers -> [Tools -> Nat]]
    /\ inFlight \in [Callers -> [Tools -> 0 .. MaxAtOnce]]
    /\ unread \in [Callers -> [Tools -> 0 .. MaxUnread]]

Zeros == [s \in Callers |-> [t \in Tools |-> 0]]

GuidanceInit == rejections = Zeros /\ inFlight = Zeros /\ unread = Zeros

-----------------------------------------------------------------------------
\* recordAttempt and recordResult, which end in their catch.
AttemptBlocks(s, tool) == FALSE
ResultFailed(s, tool) == FALSE

\* Mutant: one rejection more.
BlocksLate(s, tool) == rejections[s][tool] > SoftRejectionThreshold

\* The limit of soft rejections, which makes no exception for the question tool.
RejectionBlocks(s, tool) == rejections[s][tool] >= SoftRejectionThreshold

\* The two ways the before hook throws; a session is never in the guidance gate.
Blocks(s, tool) ==
    RejectionBlocks(s, tool) \/ (tool # Question /\ AttemptBlocks(s, tool))

\* tool.execute.before lets the call through: the limit is not reached, or the
\* count cannot be read and is taken to be zero.
Before(s, tool) ==
    /\ inFlight[s][tool] < MaxAtOnce
    /\ \/ ~Blocks(s, tool) /\ UNCHANGED unread
       \/ /\ unread[s][tool] < MaxUnread
          /\ unread' = [unread EXCEPT ![s][tool] = @ + 1]
    /\ inFlight' = [inFlight EXCEPT ![s][tool] = @ + 1]
    /\ UNCHANGED rejections

Ends(s, tool) ==
    /\ inFlight[s][tool] > 0
    /\ inFlight' = [inFlight EXCEPT ![s][tool] = @ - 1]
    /\ UNCHANGED unread

\* recordSoftRejection, whose errors are caught: the row may stay as it is.
CountRejection(s, tool) ==
    rejections' \in {rejections, [rejections EXCEPT ![s][tool] = @ + 1]}

\* Mutant: an answer to a question is looked at like any other result.
AfterAny(s, tool, rejected) ==
    /\ Ends(s, tool)
    /\ IF rejected THEN CountRejection(s, tool) ELSE UNCHANGED rejections

\* tool.execute.after: a result that says no is counted, unless it answers a
\* question or is a failure already.
After(s, tool, rejected) ==
    /\ Ends(s, tool)
    /\ IF rejected /\ tool # Question /\ ~ResultFailed(s, tool)
       THEN CountRejection(s, tool) ELSE UNCHANGED rejections

\* A later handler of the chain throws: there is no after hook.
DeniedLater(s, tool) == Ends(s, tool) /\ UNCHANGED rejections

\* The process of a session dies with its calls; the rows stay.
CallerDies(s) ==
    /\ inFlight' = [inFlight EXCEPT ![s] = [t \in Tools |-> 0]]
    /\ UNCHANGED <<rejections, unread>>

GuidanceNext ==
    \E s \in Callers :
        \/ \E t \in Tools : \/ Before(s, t) \/ DeniedLater(s, t)
                            \/ \E rejected \in BOOLEAN : After(s, t, rejected)
        \/ CallerDies(s)

GuidanceSpec == GuidanceInit /\ [][GuidanceNext]_guidanceVars

-----------------------------------------------------------------------------
\* Properties.

\* Whatever a session was denied, its question tool is let through: the limit
\* makes no exception for it (before/anti-bypass.ts, "STOP retrying this tool.
\* Call the "question" tool"), so it rests on what the after hook leaves out.
QuestionOpen == \A s \in Callers : ~Blocks(s, Question)

\* The count is compared before a call and raised after it: what a tool's
\* rejections pass the threshold by are calls that were under way when it was
\* reached, or whose count could not be read, whichever of them end and die in
\* between (getSoftRejectionCount against recordSoftRejection).
LimitHolds ==
    \A s \in Callers, t \in Tools :
        rejections[s][t] + inFlight[s][t] + 1
            <= SoftRejectionThreshold + MaxAtOnce + unread[s][t]

\* "Failures accumulate -> gate locks -> agent calls question -> QoderWork
\* answers -> counters reset": after an answer the session's tools are open.
AnswerReopens ==
    [][\A s \in Callers :
          After(s, Question, FALSE) => \A t \in Tools : ~Blocks(s, t)']_guidanceVars
=============================================================================
