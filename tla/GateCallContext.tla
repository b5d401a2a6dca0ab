-------------------------- MODULE GateCallContext --------------------------
(***************************************************************************)
(* Who calls the gate.  The MCP server sees a tool's arguments but not the *)
(* OpenCode session that called it.  A hook that runs before the tool      *)
(* leaves a row in gate_call_context; the handler looks for the row of its *)
(* call, binds a gate session to the caller and to the caller's parent     *)
(* when it is confirmed, and compares later callers with the binding.      *)
(* Hooks run in the OpenCode process, handlers one at a time in the MCP    *)
(* server; the steps of a handler are the statements the hooks can come    *)
(* between.  What handlers of several servers do to each other is the      *)
(* subject of GateStore.                                                   *)
(***************************************************************************)
EXTENDS Integers

CONSTANTS
  Callers, NoCaller,     \* OpenCode sessions; NoCaller: a null column
  Parent,                \* the session that dispatched each caller, or null
  Privileged,            \* callers run by Orchestrator or Super-Admin
  Gates, NoGate,         \* bound: gate sessions ever created
  Calls, NoCall,         \* bound: tool calls ever made
  Payloads,              \* what the args hash tells apart besides the gate
  HostKeeps,             \* may the host pass the before hook's input object on
                         \* to the after hook (TRUE), or a new one (FALSE)?
  Disturbances           \* "interrupt": sessions are aborted; "statement": a
                         \* statement on a row or a binding may fail;
                         \* "unsaved": the server may die, or its save may
                         \* fail, between a binding and the end of confirm

ASSUME CallContextAssumptions ==
  /\ NoCaller \notin Callers
  /\ Parent \in [Callers -> Callers \cup {NoCaller}]
  /\ Privileged \subseteq Callers
  /\ NoGate \notin Gates /\ NoCall \notin Calls
  /\ Payloads # {}
  /\ HostKeeps \subseteq BOOLEAN
  /\ Disturbances \subseteq {"interrupt", "statement", "unsaved"}

VARIABLES
  ctx,      \* gate_call_context: the pending rows; no handler reads the others
  gates,    \* gate_sessions: status and binding
  calls,    \* each call: where it is, its arguments, what it resolved
  server,   \* the call the MCP server is handling
  confirmers \* history: the callers whose confirm passed each session's guards

vars == <<ctx, gates, calls, server, confirmers>>

-----------------------------------------------------------------------------
(* Rows, calls, sessions *)

Tools == {"check", "confirm", "submit", "approve", "complete"}

MaybeCaller == Callers \cup {NoCaller}

Context == [call : Calls, tool : Tools, gate : Gates \cup {NoGate},
            caller : Callers, parent : MaybeCaller, payload : Payloads]

Identity == [caller : MaybeCaller, parent : MaybeCaller]
Unresolved == [caller |-> NoCaller, parent |-> NoCaller]

GateStatus == {"none", "checked", "armed", "delivered", "recoverable",
               "approved", "completed", "failed", "archived"}
GateRow == [status : GateStatus,
            parent : MaybeCaller, child : MaybeCaller]
NoGateRow == [status |-> "none",
              parent |-> NoCaller, child |-> NoCaller]

\* A call: issued by its session, "recorded" by the hook, "read" once its
\* handler has looked for its row, "bound" inside confirm, "answered" by the
\* server, "closed" after the hook.
Phase == {"new", "recorded", "read", "bound", "answered", "closed"}
Call == [phase : Phase, tool : Tools, combined : BOOLEAN,
         caller : MaybeCaller, gate : Gates \cup {NoGate}, payload : Payloads,
         got : Identity]

Blank(phase) ==
  [phase |-> phase, tool |-> "check", combined |-> FALSE, caller |-> NoCaller,
   gate |-> NoGate, payload |-> CHOOSE p \in Payloads : TRUE,
   got |-> Unresolved]

-----------------------------------------------------------------------------
(* gate_call_context: insert, find, end *)

NewContext(c, tool, gate, caller, parent, payload) ==
  [call |-> c, tool |-> tool, gate |-> gate, caller |-> caller,
   parent |-> parent, payload |-> payload]

\* The rows of a session, which end together: completed once it has confirmed
\* a gate session, interrupted once it is aborted.
OfCaller(s) == {r \in ctx : r.caller = s}

\* Mutant of Exactly: takes some row where several match.
ExactlyGuess(S) ==
  IF S # {}
  THEN LET r == CHOOSE x \in S : TRUE
       IN [caller |-> r.caller, parent |-> r.parent]
  ELSE Unresolved

\* resolveGateCallContextStrict: nothing unless exactly one row matches.
Exactly(S) ==
  IF \E r \in S : S = {r}
  THEN LET r == CHOOSE x \in S : TRUE
       IN [caller |-> r.caller, parent |-> r.parent]
  ELSE Unresolved

\* Mutant of ByCall: looks for the tool and the gate session alone.
ByGate(c, tool, gate) == {r \in ctx : r.tool = tool /\ r.gate = gate}

\* check and confirm know the call id, which the hook puts into their
\* arguments; the other tools only know the hash of their arguments.
ByCall(c, tool, gate) ==
  {r \in ctx : r.call = c /\ r.tool = tool /\ r.gate = gate}
ByArgs(c) ==
  {r \in ctx : /\ r.tool = calls[c].tool /\ r.gate = calls[c].gate
               /\ r.payload = calls[c].payload}

\* A query that fails finds nothing.
Found(S) ==
  {Exactly(S)} \cup {i \in {Unresolved} : "statement" \in Disturbances}

-----------------------------------------------------------------------------
(* The hooks *)

\* Before hook: session_map may not know the caller's parent yet, and the
\* insertion may fail, which is logged and otherwise ignored.  A session may
\* have several calls under way.
Before(c, s, tool, combined, g, p) ==
  /\ calls[c].phase = "new"
  /\ tool = "check" <=> g = NoGate
  /\ combined => tool = "check"
  /\ g # NoGate => gates[g].status # "none"
  /\ calls' = [calls EXCEPT ![c] =
       [Blank("recorded") EXCEPT !.tool = tool, !.caller = s,
          !.combined = combined, !.gate = g, !.payload = p]]
  /\ \/ \E parent \in {Parent[s], NoCaller} :
          ctx' = ctx \cup {NewContext(c, tool, g, s, parent, p)}
     \/ "statement" \in Disturbances /\ UNCHANGED ctx
  /\ UNCHANGED <<gates, server, confirmers>>

\* After hook: completes the row whose id the before hook left in its input
\* object, if the host hands that object on and there is a row.  (A check's row
\* first takes the gate session from the answer; it ends at once.)
After(c) ==
  /\ calls[c].phase = "answered"
  /\ \E kept \in HostKeeps :
       ctx' = IF kept THEN {r \in ctx : r.call # c} ELSE ctx
  /\ calls' = [calls EXCEPT ![c] = Blank("closed")]
  /\ UNCHANGED <<gates, server, confirmers>>

\* A session is aborted: its pending rows are interrupted, whatever its calls
\* are doing.
Interrupt(s) ==
  /\ "interrupt" \in Disturbances
  /\ ctx' = ctx \ OfCaller(s)
  /\ UNCHANGED <<gates, calls, server, confirmers>>

-----------------------------------------------------------------------------
(* The handlers: check and confirm *)

Arrived(c, tools) ==
  /\ calls[c].phase = "recorded" /\ calls[c].tool \in tools
  /\ server \in {NoCall, c}

\* The server's answer; its outcome is no concern of the hooks.
Answer(c) ==
  /\ calls' = [calls EXCEPT ![c] = Blank("answered")]
  /\ server' = NoCall

\* A refusal, an exception, the death of the server before it stores anything.
Refuse(c) ==
  /\ Arrived(c, Tools) \/ calls[c].phase = "read"
  /\ Answer(c)
  /\ UNCHANGED <<ctx, gates, confirmers>>

\* A combined call goes on as a confirm of the session it has created.
Check(c, g) ==
  /\ Arrived(c, {"check"})
  /\ gates[g].status = "none"
  /\ gates' = [gates EXCEPT ![g].status = "checked"]
  /\ IF calls[c].combined
     THEN /\ calls' = [calls EXCEPT ![c].tool = "confirm", ![c].gate = g]
          /\ server' = c
     ELSE Answer(c)
  /\ UNCHANGED <<ctx, confirmers>>

\* The branch that would find a combined call by its check row asks for the
\* argument tool_name, which is not in the schema of the check tool and which
\* the server's parser therefore drops: such a call finds no row.
ReadConfirm(c) ==
  /\ Arrived(c, {"confirm"})
  /\ \E got \in Found(ByCall(c, "confirm", calls[c].gate)) :
       calls' = [calls EXCEPT ![c].phase = "read", ![c].got = got]
  /\ server' = c
  /\ UNCHANGED <<ctx, gates, confirmers>>

Read(c, tool) == calls[c].phase = "read" /\ calls[c].tool = tool

\* Mutant of ConfirmAllowed: an armed session may be confirmed again.
ConfirmAgain(g) == gates[g].status \in {"checked", "armed"}

ConfirmAllowed(g) == gates[g].status = "checked"

\* The binding is a statement of its own, before the session is saved.  A
\* session nobody dispatched is not bound.
Bind(c) ==
  LET k == calls[c]
      g == k.gate
  IN /\ Read(c, "confirm")
     /\ ConfirmAllowed(g)
     /\ \/ /\ k.got.parent # NoCaller
           /\ gates' = [gates EXCEPT ![g].child = k.got.caller,
                                     ![g].parent = k.got.parent]
        \/ /\ k.got.parent = NoCaller \/ "statement" \in Disturbances
           /\ UNCHANGED gates
     /\ calls' = [calls EXCEPT ![c].phase = "bound"]
     /\ confirmers' = [confirmers EXCEPT ![g] = @ \cup {k.caller}]
     /\ UNCHANGED <<ctx, server>>

\* The rows of the session that confirmed, if it is known who that was.
Confirmed(k) == IF k.got # Unresolved THEN OfCaller(k.got.caller) ELSE {}

\* The save leaves the columns of the binding as they are.
Arm(c) ==
  LET k == calls[c]
  IN /\ k.phase = "bound"
     /\ gates' = [gates EXCEPT ![k.gate].status = "armed"]
     /\ ctx' = ctx \ Confirmed(k)
     /\ Answer(c)
     /\ UNCHANGED confirmers

\* The server dies after the binding, or goes on after a save that failed.
Unsaved(c) ==
  LET k == calls[c]
  IN /\ k.phase = "bound"
     /\ "unsaved" \in Disturbances
     /\ ctx' \in {ctx, ctx \ Confirmed(k)}
     /\ Answer(c)
     /\ UNCHANGED <<gates, confirmers>>

-----------------------------------------------------------------------------
(* The handlers: submit, approve, complete, retry *)

ReadArgs(c) ==
  /\ Arrived(c, {"submit", "approve", "complete"})
  /\ calls[c].tool = "submit" => gates[calls[c].gate].status = "armed"
  /\ \E got \in Found(ByArgs(c)) :
       calls' = [calls EXCEPT ![c].phase = "read", ![c].got = got]
  /\ server' = c
  /\ UNCHANGED <<ctx, gates, confirmers>>

\* A caller that was not resolved is not compared with anybody.
CallerIsChild(k) == k.got # Unresolved => gates[k.gate].child = k.got.caller
CallerIsParent(k) ==
  k.got # Unresolved => /\ k.got.caller \in Privileged
                        /\ gates[k.gate].parent = k.got.caller

SetStatus(g, status) == gates' = [gates EXCEPT ![g].status = status]

\* "recoverable": a deliverable is missing.
Submit(c, outcome) ==
  LET k == calls[c]
  IN /\ Read(c, "submit")
     /\ CallerIsChild(k)
     /\ SetStatus(k.gate, outcome)
     /\ Answer(c)
     /\ UNCHANGED <<ctx, confirmers>>

\* Rejected, approved, or approved with a summary and thereby completed.
Approve(c, outcome) ==
  LET k == calls[c]
  IN /\ Read(c, "approve")
     /\ CallerIsParent(k)
     /\ gates[k.gate].status = "delivered"
     /\ SetStatus(k.gate, outcome)
     /\ Answer(c)
     /\ UNCHANGED <<ctx, confirmers>>

\* A session that still owes an approval is refused, and so is an approved one,
\* which has consumed_at set.
CompleteAllowed(g) == gates[g].status = "armed"

\* A blocking rule finds errors or a missing file.
CompleteFails(c, outcome) ==
  LET k == calls[c]
  IN /\ Read(c, "complete")
     /\ CallerIsChild(k) /\ CompleteAllowed(k.gate)
     /\ SetStatus(k.gate, outcome)
     /\ Answer(c)
     /\ UNCHANGED <<ctx, confirmers>>

\* Mutant of Compacted: stores the compactor's own word for an open session.
CompactedActive(r) ==
  IF r.status \in {"checked", "armed", "delivered"}
  THEN [NoGateRow EXCEPT !.status = "active"] ELSE r

\* The compactor rewrites every open session, and the completed ones, without
\* their bindings.
Compacted(r) ==
  IF r.status \in {"checked", "armed", "delivered", "completed"}
  THEN [NoGateRow EXCEPT !.status = r.status] ELSE r

Complete(c) ==
  LET k == calls[c]
  IN /\ Read(c, "complete")
     /\ CallerIsChild(k) /\ CompleteAllowed(k.gate)
     /\ gates' = [g \in Gates |->
                    IF g = k.gate THEN [NoGateRow EXCEPT !.status = "archived"]
                    ELSE Compacted(gates[g])]
     /\ Answer(c)
     /\ UNCHANGED <<ctx, confirmers>>

\* retry_confirm is not hooked: nobody is asked who called it.
Retry(g) ==
  /\ server = NoCall
  /\ gates[g].status = "recoverable"
  /\ SetStatus(g, "armed")
  /\ UNCHANGED <<ctx, calls, server, confirmers>>

-----------------------------------------------------------------------------
Init ==
  /\ ctx = {}
  /\ gates = [g \in Gates |-> NoGateRow]
  /\ calls = [c \in Calls |-> Blank("new")]
  /\ server = NoCall
  /\ confirmers = [g \in Gates |-> {}]

Hook(c) ==
  \/ \E s \in Callers, tool \in Tools, combined \in BOOLEAN,
        g \in Gates \cup {NoGate}, p \in Payloads :
       Before(c, s, tool, combined, g, p)
  \/ After(c)

Handle(c) ==
  \/ Refuse(c)
  \/ \E g \in Gates : Check(c, g)
  \/ ReadConfirm(c) \/ ReadArgs(c)
  \/ Bind(c) \/ Arm(c) \/ Unsaved(c)
  \/ \E outcome \in {"delivered", "recoverable"} : Submit(c, outcome)
  \/ \E outcome \in {"armed", "approved", "completed"} : Approve(c, outcome)
  \/ \E outcome \in {"failed", "recoverable"} : CompleteFails(c, outcome)
  \/ Complete(c)

Next ==
  \/ \E c \in Calls : Hook(c) \/ Handle(c)
  \/ \E s \in Callers : Interrupt(s)
  \/ \E g \in Gates : Retry(g)

Spec == Init /\ [][Next]_vars

-----------------------------------------------------------------------------
(* Properties *)

\* Every variable keeps its shape: a row and a binding always name sessions,
\* and a gate session has a status the gate knows.
TypeOK ==
  /\ ctx \subseteq Context
  /\ gates \in [Gates -> GateRow]
  /\ calls \in [Calls -> Call]
  /\ server \in Calls \cup {NoCall}
  /\ confirmers \in [Gates -> SUBSET Callers]

\* A binding names a session that itself confirmed the gate session, and as
\* its parent the session that dispatched that one: no overlap of hooks,
\* handlers and aborts attributes a confirmation to another session.
BoundToConfirmer ==
  \A g \in Gates :
    LET r == gates[g]
    IN r.child # NoCaller => /\ r.child \in confirmers[g]
                             /\ r.parent = Parent[r.child]

\* Once the gate session is armed its binding may be lost (to the compactor)
\* but never passes to another session.
BindingNeverMoves ==
  [][\A g \in Gates :
       gates[g].status # "checked" =>
         /\ gates[g].child # NoCaller
              => gates'[g].child \in {gates[g].child, NoCaller}
         /\ gates[g].parent # NoCaller
              => gates'[g].parent \in {gates[g].parent, NoCaller}]_vars

\* A handler that looks for its row takes it or nothing, as long as that row
\* has not ended: another call with the same arguments is never taken instead.
OwnRows(c) == {r \in ctx : r.call = c /\ r.tool = calls[c].tool}
Takes(c) == calls[c].phase # "read" /\ calls'[c].phase = "read"
ResolvesOwn ==
  [][\A c \in Calls :
       Takes(c) /\ OwnRows(c) # {}
         => calls'[c].got.caller \in {calls[c].caller, NoCaller}]_vars

\* The blueprint: "Confirm establishes binding".  A session that has been armed
\* is bound to the session that armed it, or to none.
ArmedByBound ==
  [][\A c \in Calls :
       calls[c].phase = "bound" /\ calls'[c].phase = "answered"
         => LET g == calls[c].gate
            IN gates'[g].status = "armed"
                 => gates'[g].child \in {calls[c].caller, NoCaller}]_vars

\* The blueprint: "submit/approve/complete validate caller identity against
\* binding".  Only the bound session moves an armed session on.
OnlyChildSubmits ==
  [][\A g \in Gates :
       /\ gates[g].child # NoCaller
       /\ gates[g].status = "armed" /\ gates'[g].status = "delivered"
       => \E c \in Calls : /\ calls[c].phase = "read" /\ calls[c].gate = g
                           /\ calls'[c].phase = "answered"
                           /\ calls[c].caller = gates[g].child]_vars
=============================================================================
