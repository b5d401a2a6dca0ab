----------------------- MODULE GateCallContextProofs ------------------------
(***************************************************************************)
(* Proofs about caller bindings, for every set of sessions and whatever    *)
(* they dispatched, any number of calls and gate sessions, and every       *)
(* disturbance: aborts, failed statements, deaths of the server.           *)
(***************************************************************************)
EXTENDS GateCallContext, TLAPS

-----------------------------------------------------------------------------
(* The invariants the properties rest on *)

\* A row tells the truth about its call: who made it while it is under way,
\* who dispatched that session if anybody, and, until a handler has looked for
\* it, the arguments.
RowTrue(r) ==
  LET k == calls[r.call]
  IN /\ k.phase # "new"
     /\ r.parent \in {Parent[r.caller], NoCaller}
     /\ k.phase \notin {"answered", "closed"} => r.caller = k.caller
     /\ k.phase = "recorded" /\ k.tool # "confirm"
          => r.tool = k.tool /\ r.gate = k.gate /\ r.payload = k.payload
RowsTrue == \A r \in ctx : RowTrue(r)

\* A call under way has a caller, and that is whom a confirmation resolves.
GotTrue(k) ==
  /\ k.phase \notin {"new", "answered", "closed"} => k.caller \in Callers
  /\ k.phase = "read" /\ k.tool = "confirm" /\ k.got # Unresolved
       => /\ k.got.caller = k.caller
          /\ k.got.parent \in {Parent[k.caller], NoCaller}
ResolvedTrue == \A c \in Calls : GotTrue(calls[c])

-----------------------------------------------------------------------------
(* Identities *)

\* Looking for a row finds the only one there is, or nothing
\* (resolveGateCallContextStrict).
LEMMA ExactlyOne ==
  ASSUME NEW S
  PROVE  \/ Exactly(S) = Unresolved
         \/ \E r \in S :
              /\ S = {r}
              /\ Exactly(S) = [caller |-> r.caller, parent |-> r.parent]
<1>1. CASE \E r \in S : S = {r}
  <2>1. PICK r \in S : S = {r}
    BY <1>1
  <2>2. (CHOOSE x \in S : TRUE) = r
    BY <2>1
  <2> QED BY <1>1, <2>1, <2>2 DEF Exactly
<1>2. CASE ~\E r \in S : S = {r}
  BY <1>2 DEF Exactly
<1> QED BY <1>1, <1>2

\* What a handler finds is an identity.
LEMMA FoundType ==
  ASSUME NEW S \in SUBSET Context
  PROVE  Found(S) \subseteq Identity
<1>1. Unresolved \in Identity
  BY DEF Unresolved, Identity, MaybeCaller
<1>2. \A r \in S : [caller |-> r.caller, parent |-> r.parent] \in Identity
  BY DEF Context, Identity, MaybeCaller
<1> QED BY <1>1, <1>2, ExactlyOne DEF Found

\* A blank call is a call.
LEMMA BlankType == ASSUME NEW phase \in Phase PROVE Blank(phase) \in Call
<1>1. (CHOOSE p \in Payloads : TRUE) \in Payloads
  BY CallContextAssumptions
<1>2. Unresolved \in Identity
  BY DEF Unresolved, Identity, MaybeCaller
<1> QED BY <1>1, <1>2 DEF Blank, Call, Tools, MaybeCaller

\* The row of a gate session that does not exist is a row.
LEMMA NoGateRowType == NoGateRow \in GateRow
BY DEF NoGateRow, GateRow, GateStatus, MaybeCaller

-----------------------------------------------------------------------------
(* Type correctness *)

\* The end of a handler.
LEMMA AnswerType ==
  ASSUME TypeOK, NEW c \in Calls, Answer(c)
  PROVE  calls' \in [Calls -> Call] /\ server' \in Calls \cup {NoCall}
<1>1. calls[c] \in Call /\ Blank("answered") \in Call
  BY BlankType DEF TypeOK, Phase
<1> QED BY <1>1 DEF Answer, TypeOK

\* A handler that moves a gate session on.
LEMMA SetStatusType ==
  ASSUME TypeOK, NEW g, NEW status \in GateStatus, SetStatus(g, status)
  PROVE  gates' \in [Gates -> GateRow]
BY DEF TypeOK, SetStatus, GateRow

\* The row of a call (recordGateCallContext).
LEMMA NewContextType ==
  ASSUME NEW c \in Calls, NEW tool \in Tools, NEW g \in Gates \cup {NoGate},
         NEW s \in Callers, NEW parent \in MaybeCaller, NEW p \in Payloads
  PROVE  NewContext(c, tool, g, s, parent, p) \in Context
BY DEF NewContext, Context

\* Every variable keeps its shape: no interleaving of hooks, handlers and
\* aborts stores a row or a binding without a session in it.
LEMMA TypeStep == TypeOK /\ ResolvedTrue /\ [Next]_vars => TypeOK'
<1> SUFFICES ASSUME TypeOK, ResolvedTrue, [Next]_vars PROVE TypeOK'
  OBVIOUS
<1>1. CASE UNCHANGED vars
  BY <1>1 DEF vars, TypeOK
<1>2. ASSUME NEW s \in Callers, Interrupt(s) PROVE TypeOK'
  BY <1>2 DEF Interrupt, TypeOK
<1>3. ASSUME NEW g \in Gates, Retry(g) PROVE TypeOK'
  BY <1>3, SetStatusType DEF Retry, TypeOK, GateStatus
<1>4. ASSUME NEW c \in Calls, Hook(c) \/ Handle(c) PROVE TypeOK'
  <2> calls[c] \in Call /\ calls \in [Calls -> Call]
    BY DEF TypeOK
  <2> calls[c].gate \in Gates \cup {NoGate} /\ calls[c].payload \in Payloads
    BY DEF Call
  <2>1. ASSUME NEW s \in Callers, NEW tool \in Tools, NEW combined \in BOOLEAN,
               NEW g \in Gates \cup {NoGate}, NEW p \in Payloads,
               Before(c, s, tool, combined, g, p)
        PROVE  TypeOK'
    <3> DEFINE call == [Blank("recorded") EXCEPT !.tool = tool, !.caller = s,
                          !.combined = combined, !.gate = g, !.payload = p]
    <3>1. call \in Call
      <4>1. Blank("recorded") \in Call
        BY BlankType DEF Phase
      <4>2. s \in MaybeCaller
        BY DEF MaybeCaller
      <4> QED BY <4>1, <4>2 DEF Call
    <3>2. \A parent \in {Parent[s], NoCaller} : parent \in MaybeCaller
      BY CallContextAssumptions DEF MaybeCaller
    <3>3. ctx' \subseteq Context
      <4>1. \/ \E parent \in {Parent[s], NoCaller} :
                 ctx' = ctx \cup {NewContext(c, tool, g, s, parent, p)}
            \/ ctx' = ctx
        BY <2>1 DEF Before
      <4>2. \A parent \in {Parent[s], NoCaller} :
              NewContext(c, tool, g, s, parent, p) \in Context
        BY <3>2, NewContextType
      <4> QED BY <4>1, <4>2 DEF TypeOK
    <3>4. calls' \in [Calls -> Call]
      BY <2>1, <3>1 DEF Before
    <3> QED BY <2>1, <3>3, <3>4 DEF Before, TypeOK
  <2>2. CASE After(c)
    <3>1. Blank("closed") \in Call
      BY BlankType DEF Phase
    <3> QED BY <2>2, <3>1 DEF After, TypeOK
  <2>3. CASE Refuse(c)
    BY <2>3, AnswerType DEF Refuse, TypeOK
  <2>4. ASSUME NEW g \in Gates, Check(c, g) PROVE TypeOK'
    <3>1. gates' \in [Gates -> GateRow]
      BY <2>4 DEF Check, TypeOK, GateRow, GateStatus
    <3>2. CASE calls[c].combined
      <4>1. [calls[c] EXCEPT !.tool = "confirm", !.gate = g] \in Call
        BY DEF Call, Tools
      <4>2. calls' = [calls EXCEPT ![c] =
                        [calls[c] EXCEPT !.tool = "confirm", !.gate = g]]
        BY <2>4, <3>2 DEF Check
      <4> QED BY <2>4, <3>1, <3>2, <4>1, <4>2 DEF Check, TypeOK
    <3>3. CASE ~calls[c].combined
      BY <2>4, <3>1, <3>3, AnswerType DEF Check, TypeOK
    <3> QED BY <3>2, <3>3
  <2>5. CASE ReadConfirm(c) \/ ReadArgs(c)
    <3> DEFINE Reads(got) ==
                 calls' = [calls EXCEPT ![c].phase = "read", ![c].got = got]
    <3>1. PICK S \in SUBSET Context : \E got \in Found(S) : Reads(got)
      <4>1. /\ ByCall(c, "confirm", calls[c].gate) \in SUBSET Context
            /\ ByArgs(c) \in SUBSET Context
        BY DEF ByCall, ByArgs, TypeOK
      <4> QED BY <2>5, <4>1 DEF ReadConfirm, ReadArgs
    <3>2. PICK got \in Identity : Reads(got)
      BY <3>1, FoundType
    <3>3. [calls[c] EXCEPT !.phase = "read", !.got = got] \in Call
      BY <3>2 DEF Call, Phase
    <3>4. calls' \in [Calls -> Call]
      BY <3>2, <3>3
    <3> QED BY <2>5, <3>4 DEF ReadConfirm, ReadArgs, TypeOK
  <2>6. CASE Bind(c)
    <3> DEFINE k == calls[c]
    <3>1. k.got.caller \in MaybeCaller /\ k.got.parent \in MaybeCaller
      BY DEF Call, Identity
    <3>2. gates' \in [Gates -> GateRow]
      <4>1. ASSUME NEW g \in Gates,
                   gates' = [gates EXCEPT ![k.gate].child = k.got.caller,
                                          ![k.gate].parent = k.got.parent]
            PROVE  gates'[g] \in GateRow
        <5>1. gates[g] \in GateRow
          BY DEF TypeOK
        <5> QED BY <3>1, <4>1, <5>1 DEF TypeOK, GateRow
      <4>2. \/ gates' = [gates EXCEPT ![k.gate].child = k.got.caller,
                                      ![k.gate].parent = k.got.parent]
            \/ gates' = gates
        BY <2>6 DEF Bind
      <4> QED BY <4>1, <4>2 DEF TypeOK
    <3>3. [k EXCEPT !.phase = "bound"] \in Call
      BY DEF Call, Phase
    <3>4. calls' \in [Calls -> Call]
      BY <2>6, <3>3 DEF Bind
    <3>5. confirmers' \in [Gates -> SUBSET Callers]
      <4>1. k.caller \in Callers
        BY <2>6 DEF Bind, Read, ResolvedTrue, GotTrue
      <4>2. confirmers' = [confirmers EXCEPT ![k.gate] = @ \cup {k.caller}]
        BY <2>6 DEF Bind
      <4> QED BY <4>1, <4>2 DEF TypeOK
    <3> QED BY <2>6, <3>2, <3>4, <3>5 DEF Bind, TypeOK
  <2>7. ASSUME NEW outcome \in {"delivered", "recoverable"}, Submit(c, outcome)
        PROVE  TypeOK'
    BY <2>7, AnswerType, SetStatusType DEF Submit, TypeOK, GateStatus
  <2>8. ASSUME NEW outcome \in {"armed", "approved", "completed"},
                Approve(c, outcome)
         PROVE  TypeOK'
    BY <2>8, AnswerType, SetStatusType DEF Approve, TypeOK, GateStatus
  <2>9. ASSUME NEW outcome \in {"failed", "recoverable"},
                CompleteFails(c, outcome)
         PROVE  TypeOK'
    BY <2>9, AnswerType, SetStatusType DEF CompleteFails, TypeOK, GateStatus
  <2>10. CASE Complete(c)
    <3>1. \A g \in Gates : gates'[g] \in GateRow
      BY <2>10, NoGateRowType
         DEF Complete, Compacted, TypeOK, GateRow, GateStatus
    <3>2. gates' \in [Gates -> GateRow]
      BY <2>10, <3>1 DEF Complete
    <3> QED BY <2>10, <3>2, AnswerType DEF Complete, TypeOK
  <2>11. CASE Arm(c) \/ Unsaved(c)
    <3>1. ctx' \subseteq Context /\ Answer(c) /\ confirmers' = confirmers
      BY <2>11 DEF Arm, Unsaved, TypeOK
    <3>2. gates' \in [Gates -> GateRow]
      BY <2>11 DEF Arm, Unsaved, TypeOK, GateRow, GateStatus
    <3> QED BY <3>1, <3>2, AnswerType DEF TypeOK
  <2> QED BY <1>4, <2>1, <2>2, <2>3, <2>4, <2>5, <2>6, <2>7, <2>8, <2>9,
             <2>10, <2>11 DEF Hook, Handle
<1> QED BY <1>1, <1>2, <1>3, <1>4 DEF Next

-----------------------------------------------------------------------------
(* Rows and what handlers resolve *)

\* A handler that answers, and may end rows, leaves the others true.
LEMMA AnswerTrue ==
  ASSUME TypeOK, RowsTrue, ResolvedTrue, NEW c \in Calls, Answer(c),
         ctx' \subseteq ctx
  PROVE  RowsTrue' /\ ResolvedTrue'
<1>1. /\ calls'[c].phase = "answered"
      /\ \A d \in Calls : d # c => calls'[d] = calls[d]
  BY DEF Answer, Blank, TypeOK
<1>2. RowsTrue'
  <2> SUFFICES ASSUME NEW r \in ctx' PROVE RowTrue(r)'
    BY DEF RowsTrue
  <2>1. RowTrue(r) /\ r.call \in Calls
    BY DEF RowsTrue, TypeOK, Context
  <2> QED BY <1>1, <2>1 DEF RowTrue
<1>3. ResolvedTrue'
  BY <1>1 DEF ResolvedTrue, GotTrue
<1> QED BY <1>2, <1>3

\* A handler that has looked for a row leaves the rows alone and takes what it
\* found.
LEMMA TakeTrue ==
  ASSUME TypeOK, RowsTrue, NEW c \in Calls, NEW k \in Call,
         calls[c].phase \notin {"new", "answered", "closed"},
         k.phase \in {"read", "bound"} \/ k.tool = "confirm",
         k.phase \notin {"new", "answered", "closed"},
         k.caller = calls[c].caller,
         calls' = [calls EXCEPT ![c] = k], ctx' = ctx
  PROVE  RowsTrue'
<1> SUFFICES ASSUME NEW r \in ctx' PROVE RowTrue(r)'
  BY DEF RowsTrue
<1>1. RowTrue(r) /\ r.call \in Calls
  BY DEF RowsTrue, TypeOK, Context
<1> QED BY <1>1 DEF RowTrue, TypeOK

\* The identity a row of a call gives is that of the call's own session.
LEMMA OwnIdentity ==
  ASSUME TypeOK, RowsTrue, NEW c \in Calls,
         calls[c].phase \notin {"answered", "closed"},
         NEW S \in SUBSET ctx, \A r \in S : r.call = c
  PROVE  \A i \in Found(S) :
           i # Unresolved => /\ i.caller = calls[c].caller
                             /\ i.parent \in {Parent[calls[c].caller], NoCaller}
<1>1. \A r \in S : /\ r.caller = calls[c].caller
                   /\ r.parent \in {Parent[calls[c].caller], NoCaller}
  BY DEF RowsTrue, RowTrue
<1> QED BY <1>1, ExactlyOne DEF Found

\* Rows are true, and confirmations resolve their own callers, whatever comes
\* between a hook and its handler.
LEMMA TrueStep ==
  TypeOK /\ RowsTrue /\ ResolvedTrue /\ [Next]_vars
    => RowsTrue' /\ ResolvedTrue'
<1> SUFFICES ASSUME TypeOK, RowsTrue, ResolvedTrue, [Next]_vars
             PROVE  RowsTrue' /\ ResolvedTrue'
  OBVIOUS
<1>1. CASE UNCHANGED vars
  BY <1>1 DEF vars, RowsTrue, RowTrue, ResolvedTrue, GotTrue
<1>2. ASSUME NEW s \in Callers, Interrupt(s) PROVE RowsTrue' /\ ResolvedTrue'
  BY <1>2 DEF Interrupt, RowsTrue, RowTrue, ResolvedTrue, GotTrue
<1>3. ASSUME NEW g \in Gates, Retry(g) PROVE RowsTrue' /\ ResolvedTrue'
  BY <1>3 DEF Retry, RowsTrue, RowTrue, ResolvedTrue, GotTrue
<1>4. ASSUME NEW c \in Calls, Hook(c) \/ Handle(c)
      PROVE  RowsTrue' /\ ResolvedTrue'
  <2> calls[c] \in Call /\ calls \in [Calls -> Call]
    BY DEF TypeOK
  <2> \A r \in ctx : RowTrue(r) /\ r.call \in Calls
    BY DEF RowsTrue, TypeOK, Context
  <2>1. ASSUME NEW s \in Callers, NEW tool \in Tools, NEW combined \in BOOLEAN,
               NEW g \in Gates \cup {NoGate}, NEW p \in Payloads,
               Before(c, s, tool, combined, g, p)
        PROVE  RowsTrue' /\ ResolvedTrue'
    <3>1. /\ calls'[c].phase = "recorded" /\ calls'[c].tool = tool
          /\ calls'[c].caller = s /\ calls'[c].gate = g
          /\ calls'[c].payload = p
      BY <2>1 DEF Before, Blank
    <3>2. \A d \in Calls : d # c => calls'[d] = calls[d]
      BY <2>1 DEF Before
    <3>3. \A r \in ctx : r.call # c
      BY <2>1 DEF Before, RowTrue
    <3>4. \/ \E parent \in {Parent[s], NoCaller} :
               ctx' = ctx \cup {NewContext(c, tool, g, s, parent, p)}
          \/ ctx' = ctx
      BY <2>1 DEF Before
    <3>5. ASSUME NEW r \in ctx' PROVE RowTrue(r)'
      <4>1. CASE r \in ctx
        BY <4>1, <3>2, <3>3 DEF RowTrue
      <4>2. CASE r \notin ctx
        BY <4>2, <3>1, <3>4 DEF RowTrue, NewContext
      <4> QED BY <4>1, <4>2
    <3> QED BY <3>1, <3>2, <3>5 DEF RowsTrue, ResolvedTrue, GotTrue
  <2>2. CASE After(c)
    <3>1. calls'[c].phase = "closed" /\ ctx' \subseteq ctx
      BY <2>2 DEF After, Blank
    <3>2. \A d \in Calls : d # c => calls'[d] = calls[d]
      BY <2>2 DEF After
    <3>3. ASSUME NEW r \in ctx' PROVE RowTrue(r)'
      BY <3>1, <3>2 DEF RowTrue
    <3> QED BY <3>1, <3>2, <3>3 DEF RowsTrue, ResolvedTrue, GotTrue
  <2>3. CASE Refuse(c)
    BY <2>3, AnswerTrue DEF Refuse, Arrived
  <2>4. ASSUME NEW g \in Gates, Check(c, g) PROVE RowsTrue' /\ ResolvedTrue'
    <3> DEFINE k == [calls[c] EXCEPT !.tool = "confirm", !.gate = g]
    <3>1. CASE calls[c].combined
      <4>1. calls' = [calls EXCEPT ![c] = k] /\ ctx' = ctx
        BY <2>4, <3>1 DEF Check
      <4>2. k \in Call
        BY DEF Call, Tools
      <4>3. RowsTrue'
        BY <2>4, <4>1, <4>2, TakeTrue DEF Check, Arrived, Call
      <4>4. ResolvedTrue'
        <5>1. k.phase = "recorded" /\ k.caller = calls[c].caller
          BY <2>4 DEF Check, Arrived, Call
        <5>2. calls[c].caller \in Callers
          BY <2>4 DEF Check, Arrived, ResolvedTrue, GotTrue
        <5> QED BY <4>1, <5>1, <5>2 DEF ResolvedTrue, GotTrue
      <4> QED BY <4>3, <4>4
    <3>2. CASE ~calls[c].combined
      BY <2>4, <3>2, AnswerTrue DEF Check, Arrived
    <3> QED BY <3>1, <3>2
  <2>5. CASE ReadConfirm(c)
    <3> DEFINE S == ByCall(c, "confirm", calls[c].gate)
    <3>1. PICK got \in Found(S) :
            calls' = [calls EXCEPT ![c].phase = "read", ![c].got = got]
      BY <2>5 DEF ReadConfirm
    <3> DEFINE k == [calls[c] EXCEPT !.phase = "read", !.got = got]
    <3>2. /\ calls' = [calls EXCEPT ![c] = k] /\ ctx' = ctx
          /\ calls[c].phase = "recorded"
      BY <2>5, <3>1 DEF ReadConfirm, Arrived
    <3>3. S \in SUBSET Context /\ S \in SUBSET ctx /\ \A r \in S : r.call = c
      BY DEF TypeOK, ByCall
    <3>4. k \in Call
      BY <3>3, FoundType DEF Call, Phase
    <3>5. RowsTrue'
      BY <3>2, <3>4, TakeTrue DEF Call
    <3>6. got # Unresolved
            => /\ got.caller = calls[c].caller
               /\ got.parent \in {Parent[calls[c].caller], NoCaller}
      BY <3>2, <3>3, OwnIdentity
    <3>7. k.phase = "read" /\ k.got = got /\ k.caller = calls[c].caller
      BY DEF Call
    <3>8. ResolvedTrue'
      BY <3>2, <3>6, <3>7 DEF ResolvedTrue, GotTrue
    <3> QED BY <3>5, <3>8
  <2>6. CASE ReadArgs(c)
    <3>1. PICK got \in Found(ByArgs(c)) :
            calls' = [calls EXCEPT ![c].phase = "read", ![c].got = got]
      BY <2>6 DEF ReadArgs
    <3> DEFINE k == [calls[c] EXCEPT !.phase = "read", !.got = got]
    <3>2. /\ calls' = [calls EXCEPT ![c] = k] /\ ctx' = ctx
          /\ calls[c].phase = "recorded" /\ calls[c].tool # "confirm"
      BY <2>6, <3>1 DEF ReadArgs, Arrived
    <3>3. k \in Call
      <4>1. ByArgs(c) \in SUBSET Context
        BY DEF TypeOK, ByArgs
      <4> QED BY <4>1, FoundType DEF Call, Phase
    <3>4. RowsTrue'
      BY <3>2, <3>3, TakeTrue DEF Call
    <3>5. ResolvedTrue'
      BY <3>2 DEF ResolvedTrue, GotTrue, Call
    <3> QED BY <3>4, <3>5
  <2>7. CASE Bind(c)
    <3> DEFINE k == [calls[c] EXCEPT !.phase = "bound"]
    <3>1. /\ calls' = [calls EXCEPT ![c] = k] /\ ctx' = ctx
          /\ calls[c].phase = "read" /\ calls[c].tool = "confirm"
      BY <2>7 DEF Bind, Read
    <3>2. k \in Call /\ k.phase = "bound" /\ k.caller = calls[c].caller
      BY DEF Call, Phase
    <3>3. RowsTrue'
      BY <3>1, <3>2, TakeTrue
    <3>4. ResolvedTrue'
      BY <3>1, <3>2 DEF ResolvedTrue, GotTrue
    <3> QED BY <3>3, <3>4
  <2>8. ASSUME NEW outcome,
                \/ Arm(c) \/ Unsaved(c)
                \/ Submit(c, outcome) \/ Approve(c, outcome)
                \/ CompleteFails(c, outcome) \/ Complete(c)
         PROVE  RowsTrue' /\ ResolvedTrue'
    BY <2>8, AnswerTrue
       DEF Arm, Unsaved, Submit, Approve, CompleteFails, Complete
  <2> QED BY <1>4, <2>1, <2>2, <2>3, <2>4, <2>5, <2>6, <2>7, <2>8
            DEF Hook, Handle
<1> QED BY <1>1, <1>2, <1>3, <1>4 DEF Next

\* The statements in which a handler looks for its row, or gives up looking.
LEMMA TakeSteps ==
  ASSUME TypeOK, [Next]_vars, NEW c \in Calls, Takes(c)
  PROVE  ReadConfirm(c) \/ ReadArgs(c)
<1> calls \in [Calls -> Call] /\ calls'[c] # calls[c]
  BY DEF TypeOK, Takes
<1> DEFINE Reads(d) == ReadConfirm(d) \/ ReadArgs(d)
<1>1. ~UNCHANGED vars /\ \A s \in Callers : ~Interrupt(s)
  BY DEF vars, Interrupt
<1>2. \A g \in Gates : ~Retry(g)
  BY DEF Retry
<1>3. PICK d \in Calls : Hook(d) \/ Handle(d)
  BY <1>1, <1>2 DEF Next
<1>4. Answer(d) => calls'[c] = calls[c] \/ calls'[c].phase = "answered"
  BY DEF Answer, Blank
<1>5. CASE Hook(d)
  <2>1. ASSUME NEW s \in Callers, NEW tool \in Tools, NEW combined \in BOOLEAN,
               NEW g \in Gates \cup {NoGate}, NEW p \in Payloads,
               Before(d, s, tool, combined, g, p)
        PROVE  FALSE
    <3>1. calls'[c] = calls[c] \/ calls'[c].phase = "recorded"
      BY <2>1 DEF Before, Blank
    <3> QED BY <3>1 DEF Takes
  <2>2. CASE After(d)
    BY <2>2 DEF After, Takes, Blank
  <2> QED BY <1>5, <2>1, <2>2 DEF Hook
<1>6. CASE Handle(d)
  <2>1. ASSUME NEW g \in Gates, Check(d, g) PROVE FALSE
    <3> DEFINE k == [calls[d] EXCEPT !.tool = "confirm", !.gate = g]
    <3>1. calls[d] \in Call /\ calls[d].phase = "recorded"
      BY <2>1 DEF Check, Arrived
    <3>2. k.phase = "recorded"
      BY <3>1 DEF Call
    <3>3. calls'[c] \in {calls[c], k} \/ calls'[c].phase = "answered"
      BY <1>4, <2>1 DEF Check
    <3> QED BY <3>2, <3>3 DEF Takes
  <2>2. \/ Refuse(d)
        \/ Arm(d) \/ Unsaved(d)
        \/ \E outcome : Submit(d, outcome) \/ Approve(d, outcome)
                          \/ CompleteFails(d, outcome)
        \/ Complete(d)
        => FALSE
    BY <1>4 DEF Refuse, Arm, Unsaved, Submit, Approve, CompleteFails, Complete,
                Takes
  <2>3. ~Bind(d)
    <3> DEFINE k == [calls[d] EXCEPT !.phase = "bound"]
    <3>1. k.phase = "bound"
      BY DEF Call
    <3>2. Bind(d) => calls'[c] \in {calls[c], k}
      BY DEF Bind
    <3> QED BY <3>1, <3>2 DEF Takes
  <2>4. Reads(d)
    BY <1>6, <2>1, <2>2, <2>3 DEF Handle
  <2>5. d # c => calls'[c] = calls[c]
    BY <2>4 DEF ReadConfirm, ReadArgs
  <2> QED BY <2>4, <2>5
<1> QED BY <1>3, <1>5, <1>6

-----------------------------------------------------------------------------
(* Bindings *)

\* The actions that change a gate session's row or note a confirmation.
LEMMA GateSteps ==
  ASSUME [Next]_vars
  PROVE  \/ UNCHANGED <<gates, confirmers>>
         \/ \E g \in Gates : Retry(g)
         \/ \E c \in Calls :
              \/ \E g \in Gates : Check(c, g)
              \/ Bind(c) \/ Arm(c)
              \/ \E outcome \in GateStatus :
                   \/ Submit(c, outcome) \/ Approve(c, outcome)
                   \/ CompleteFails(c, outcome)
              \/ Complete(c)
<1>1. UNCHANGED vars => UNCHANGED <<gates, confirmers>>
  BY DEF vars
<1>2. \A s \in Callers : Interrupt(s) => UNCHANGED <<gates, confirmers>>
  BY DEF Interrupt
<1>3. \A c \in Calls : Hook(c) => UNCHANGED <<gates, confirmers>>
  <2>1. ASSUME NEW c \in Calls, NEW s \in Callers, NEW tool \in Tools,
               NEW combined \in BOOLEAN, NEW g \in Gates \cup {NoGate},
               NEW p \in Payloads, Before(c, s, tool, combined, g, p)
        PROVE  UNCHANGED <<gates, confirmers>>
    BY <2>1 DEF Before
  <2>2. \A c \in Calls : After(c) => UNCHANGED <<gates, confirmers>>
    BY DEF After
  <2> QED BY <2>1, <2>2 DEF Hook
<1>4. \A c \in Calls : \/ Refuse(c) \/ ReadConfirm(c)
                       \/ ReadArgs(c) \/ Unsaved(c)
                       => UNCHANGED <<gates, confirmers>>
  BY DEF Refuse, ReadConfirm, ReadArgs, Unsaved
<1>5. {"delivered", "recoverable", "armed", "approved", "completed", "failed"}
        \subseteq GateStatus
  BY DEF GateStatus
<1>6. ASSUME NEW c \in Calls, Handle(c)
      PROVE  \/ \E g \in Gates : Check(c, g)
             \/ Bind(c) \/ Arm(c)
             \/ \E outcome \in GateStatus :
                  \/ Submit(c, outcome) \/ Approve(c, outcome)
                  \/ CompleteFails(c, outcome)
             \/ Complete(c)
             \/ UNCHANGED <<gates, confirmers>>
  BY <1>4, <1>5, <1>6 DEF Handle
<1> QED BY <1>1, <1>2, <1>3, <1>6, Zenon DEF Next

\* A step but for a confirmation's binding leaves a binding alone, or the
\* compactor erases it; and no confirmation is forgotten.
Same(g) == /\ gates'[g].child = gates[g].child
           /\ gates'[g].parent = gates[g].parent
Erased(g) == gates'[g].child = NoCaller /\ gates'[g].parent = NoCaller

LEMMA BindingSteps ==
  ASSUME TypeOK, [Next]_vars
  PROVE  \/ \E c \in Calls : Bind(c)
         \/ /\ \A g \in Gates : Same(g) \/ Erased(g)
            /\ confirmers' = confirmers
<1> \A g \in Gates : gates[g] \in GateRow
  BY DEF TypeOK
<1>1. CASE UNCHANGED <<gates, confirmers>>
  BY <1>1 DEF Same
<1>2. ASSUME NEW h, NEW status, SetStatus(h, status)
      PROVE  \A g \in Gates : Same(g)
  BY <1>2 DEF SetStatus, Same, TypeOK, GateRow
<1>3. ASSUME NEW g \in Gates, Retry(g)
      PROVE  (\A h \in Gates : Same(h)) /\ confirmers' = confirmers
  BY <1>2, <1>3 DEF Retry
<1>4. ASSUME NEW c \in Calls, NEW outcome,
             \/ Submit(c, outcome) \/ Approve(c, outcome)
             \/ CompleteFails(c, outcome)
      PROVE  (\A h \in Gates : Same(h)) /\ confirmers' = confirmers
  BY <1>2, <1>4 DEF Submit, Approve, CompleteFails
<1>5. ASSUME NEW c \in Calls, NEW g \in Gates, Check(c, g)
      PROVE  (\A h \in Gates : Same(h)) /\ confirmers' = confirmers
  BY <1>5 DEF Check, Same, TypeOK, GateRow
<1>6. ASSUME NEW c \in Calls, Arm(c)
      PROVE  (\A h \in Gates : Same(h)) /\ confirmers' = confirmers
  BY <1>6 DEF Arm, Same, TypeOK, GateRow
<1>7. ASSUME NEW c \in Calls, Complete(c)
      PROVE  /\ \A h \in Gates : Same(h) \/ Erased(h)
             /\ confirmers' = confirmers
  BY <1>7, NoGateRowType
     DEF Complete, Compacted, NoGateRow, GateRow, Same, Erased
<1> QED BY <1>1, <1>3, <1>4, <1>5, <1>6, <1>7, GateSteps

\* A confirmation binds its session to its own caller.
LEMMA BindTrue ==
  ASSUME TypeOK, ResolvedTrue, BoundToConfirmer, NEW c \in Calls, Bind(c)
  PROVE  BoundToConfirmer'
<1> DEFINE k == calls[c]
<1> SUFFICES ASSUME NEW g \in Gates, gates'[g].child # NoCaller
             PROVE  /\ gates'[g].child \in confirmers'[g]
                    /\ gates'[g].parent = Parent[gates'[g].child]
  BY DEF BoundToConfirmer
<1>1. /\ g = k.gate => confirmers'[g] = confirmers[g] \cup {k.caller}
      /\ g # k.gate => confirmers'[g] = confirmers[g]
  BY DEF Bind, TypeOK
<1>2. CASE gates'[g] = gates[g]
  BY <1>1, <1>2 DEF BoundToConfirmer
<1>3. CASE gates'[g] # gates[g]
  <2>1. /\ g = k.gate
        /\ k.got # Unresolved
        /\ gates'[g].child = k.got.caller /\ gates'[g].parent = k.got.parent
    <3>1. /\ k.got.parent # NoCaller
          /\ gates' = [gates EXCEPT ![k.gate].child = k.got.caller,
                                    ![k.gate].parent = k.got.parent]
      BY <1>3 DEF Bind
    <3>2. g = k.gate
      BY <1>3, <3>1 DEF TypeOK
    <3> QED BY <3>1, <3>2 DEF TypeOK, GateRow, Unresolved
  <2>2. /\ k.got.caller = k.caller
        /\ k.got.parent \in {Parent[k.caller], NoCaller}
    BY <2>1 DEF Bind, Read, ResolvedTrue, GotTrue
  <2>3. k.got.parent # NoCaller
    BY <1>3 DEF Bind
  <2> QED BY <1>1, <2>1, <2>2, <2>3
<1> QED BY <1>2, <1>3

-----------------------------------------------------------------------------
(* Theorems *)

IInv == TypeOK /\ RowsTrue /\ ResolvedTrue /\ BoundToConfirmer

\* The inductive invariant: the properties and what they rest on.
LEMMA IInvInvariant == Spec => []IInv
<1>1. Init => IInv
  <2> SUFFICES ASSUME Init PROVE IInv
    OBVIOUS
  <2>1. Blank("new") \in Call /\ Blank("new").phase = "new"
    BY BlankType DEF Phase, Blank
  <2>2. TypeOK
    BY <2>1, NoGateRowType DEF Init, TypeOK
  <2>3. RowsTrue /\ ResolvedTrue
    BY <2>1 DEF Init, RowsTrue, ResolvedTrue, GotTrue
  <2>4. BoundToConfirmer
    BY DEF Init, BoundToConfirmer, NoGateRow
  <2> QED BY <2>2, <2>3, <2>4 DEF IInv
<1>2. IInv /\ [Next]_vars => IInv'
  <2> SUFFICES ASSUME IInv, [Next]_vars PROVE IInv'
    OBVIOUS
  <2>1. TypeOK' /\ RowsTrue' /\ ResolvedTrue'
    BY TypeStep, TrueStep DEF IInv
  <2>2. BoundToConfirmer'
    BY BindTrue, BindingSteps DEF IInv, BoundToConfirmer, Same, Erased
  <2> QED BY <2>1, <2>2 DEF IInv
<1> QED BY <1>1, <1>2, PTL DEF Spec

\* Every variable keeps its shape: no interleaving of hooks, handlers and
\* aborts stores a row or a binding of a session that does not exist.
THEOREM CallersTypeInvariant == Spec => []TypeOK
<1>1. IInv => TypeOK
  BY DEF IInv
<1> QED BY <1>1, IInvInvariant, PTL

\* A gate session is bound to a session that confirmed it and to the session
\* that dispatched that one, whatever aborts, parallel calls, failed writes and
\* deaths of the server come between the hook and the end of the handler.
THEOREM BoundInvariant == Spec => []BoundToConfirmer
<1>1. IInv => BoundToConfirmer
  BY DEF IInv
<1> QED BY <1>1, IInvInvariant, PTL

\* No step takes the binding of a confirmed session to another session.
THEOREM BindingStays == Spec => BindingNeverMoves
<1>1. IInv /\ [Next]_vars
        => \A g \in Gates :
             gates[g].status # "checked" =>
               /\ gates[g].child # NoCaller
                    => gates'[g].child \in {gates[g].child, NoCaller}
               /\ gates[g].parent # NoCaller
                    => gates'[g].parent \in {gates[g].parent, NoCaller}
  <2> SUFFICES ASSUME IInv, [Next]_vars,
                      NEW g \in Gates, gates[g].status # "checked"
               PROVE  Same(g) \/ Erased(g)
    BY DEF Same, Erased
  <2>1. TypeOK
    BY DEF IInv
  <2>2. ASSUME NEW c \in Calls, Bind(c) PROVE Same(g)
    <3>1. g # calls[c].gate
      BY <2>2 DEF Bind, ConfirmAllowed
    <3>2. gates'[g] = gates[g]
      BY <2>1, <2>2, <3>1 DEF Bind, TypeOK
    <3> QED BY <3>2 DEF Same
  <2> QED BY <2>1, <2>2, BindingSteps
<1> QED BY <1>1, IInvInvariant, PTL DEF Spec, BindingNeverMoves

\* A handler that looks for its row while it is still there takes it or
\* nothing, never the row of another call with the same arguments.
THEOREM ResolvesItself == Spec => ResolvesOwn
<1>1. IInv /\ [Next]_vars
        => \A c \in Calls :
             Takes(c) /\ OwnRows(c) # {}
               => calls'[c].got.caller \in {calls[c].caller, NoCaller}
  <2> SUFFICES ASSUME IInv, [Next]_vars, NEW c \in Calls,
                      Takes(c), OwnRows(c) # {}
               PROVE  calls'[c].got.caller \in {calls[c].caller, NoCaller}
    OBVIOUS
  <2> DEFINE k == calls[c]
             Own(i) == i = Unresolved \/ i.caller = k.caller
             Taken(i) == [k EXCEPT !.phase = "read", !.got = i]
  <2> TypeOK /\ RowsTrue
    BY DEF IInv
  <2> k \in Call /\ calls \in [Calls -> Call]
    BY DEF TypeOK
  <2>1. \A i : Taken(i).got = i
    BY DEF Call
  <2>2. CASE ReadConfirm(c)
    <3> DEFINE S == ByCall(c, "confirm", k.gate)
    <3>1. PICK i \in Found(S) : calls' = [calls EXCEPT ![c] = Taken(i)]
      BY <2>2 DEF ReadConfirm
    <3>2. Own(i)
      <4>1. S \in SUBSET ctx /\ \A r \in S : r.call = c
        BY DEF ByCall
      <4>2. k.phase \notin {"answered", "closed"}
        BY <2>2 DEF ReadConfirm, Arrived
      <4> QED BY <4>1, <4>2, OwnIdentity
    <3> HIDE DEF Taken
    <3>3. calls'[c].got = i
      BY <2>1, <3>1
    <3> QED BY <3>2, <3>3 DEF Unresolved
  <2>3. CASE ReadArgs(c)
    <3>1. PICK i \in Found(ByArgs(c)) : calls' = [calls EXCEPT ![c] = Taken(i)]
      BY <2>3 DEF ReadArgs
    <3>2. PICK own \in OwnRows(c) : TRUE
      OBVIOUS
    <3>3. own \in ByArgs(c) /\ own.caller = k.caller
      BY <2>3, <3>2 DEF OwnRows, ReadArgs, Arrived, RowsTrue, RowTrue, ByArgs
    <3>4. Own(i)
      BY <3>1, <3>3, ExactlyOne DEF Found
    <3> HIDE DEF Taken
    <3>5. calls'[c].got = i
      BY <2>1, <3>1
    <3> QED BY <3>4, <3>5 DEF Unresolved
  <2>4. ReadConfirm(c) \/ ReadArgs(c)
    BY TakeSteps
  <2> QED BY <2>2, <2>3, <2>4
<1> QED BY <1>1, IInvInvariant, PTL DEF Spec, ResolvesOwn
=============================================================================
