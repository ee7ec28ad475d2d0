------------------------- MODULE SecurityDecisions -------------------------
(***************************************************************************)
(* Decisions, intents and budgets of a security task in packages/secagent:    *)
(* the search loop (core/autonomous-loop.ts), the gateways that execute its   *)
(* decisions and those of the model (tools/gateway.ts), and the search board  *)
(* (core/search-board.ts).                                                    *)
(*                                                                          *)
(* The state is what replaySecurityState makes of the events in the session.  *)
(* Code between two awaits appends a sequence of events; the process may end  *)
(* behind it, or within it.  A path is a tool with its capability, targets    *)
(* and input, and stands for the candidate that runs it and for the intent    *)
(* that proposes it.  The tool calls of one reply of the model run in         *)
(* parallel, so that several of the operations below are in progress.         *)
(*                                                                          *)
(* Left out: replans (a budget of their own), evidence, findings, and the     *)
(* order of the candidates.  One task, whose scope does not change.           *)
(***************************************************************************)
EXTENDS Naturals, Sequences, FiniteSets, SequencesExt

CONSTANTS Path, None,
          Manual,       \* the paths that the model asks for; the loop does not know them
          Bootstrap,    \* those of the templates
          Capability,   \* of each path
          Derives,      \* of each path, those of the intents that follow from its fact
          Calls,        \* names of tool calls in progress
          Gateway,      \* the gateways of the extensions; the loop has one of its own
          Keyed,        \* those whose actions are named by the tool call that asks for them
          Ops,          \* what is called
          MaxDecisions, MaxToolCalls, MaxBranches,
          Torn,         \* the process may end between two events of one section
          MaxAsked, MaxCrashes, MaxCompletes,    \* bounds: decisions of the model, crashes, completions
          MaxActions                             \* bound: a decision is executed again while there are fewer actions

ASSUME DecisionsAssumption ==
  /\ Manual \subseteq Path /\ Bootstrap \subseteq Path \ Manual /\ None \notin Path
  /\ Derives \in [Path -> SUBSET (Path \ Manual)] /\ \A p \in Path : IsFiniteSet(Derives[p])
  /\ DOMAIN Capability = Path
  /\ Ops \subseteq {"step", "plan", "atomic", "execute", "complete"}
  /\ Torn \in BOOLEAN /\ "loop" \notin Gateway /\ Keyed \subseteq Gateway
  /\ {MaxDecisions, MaxToolCalls, MaxAsked, MaxCrashes, MaxCompletes, MaxActions} \subseteq Nat
  /\ MaxBranches \in Nat \ {0}

VARIABLES state,    \* SecAgentRuntime.state
          calls,    \* what each tool call awaits
          spent     \* how much of the bounds is used up; decisions and actions before the last crash

vars == <<state, calls, spent>>

Ended == {"succeeded", "failed", "contradicted"}

Idle == [at |-> "idle", decision |-> 0, action |-> 0, gateway |-> None]

Init ==
  /\ state = [decisions |-> <<>>, actions |-> <<>>, blocked |-> {}, decisionsUsed |-> 0,
              toolCallsUsed |-> 0, intents |-> [p \in Path |-> [from |-> None, status |-> "none"]]]
  /\ calls = [c \in Calls |-> Idle]
  /\ spent = [crashes |-> 0, completes |-> 0, left |-> 0, done |-> 0]

(***************************************************************************)
(* The events, and what applySecurityEvent does with them.                    *)
(***************************************************************************)
DecisionRecorded(p, intent, origin) ==
  [type |-> "decision", decision |-> [path |-> p, intent |-> intent, origin |-> origin, status |-> "pending"]]
DecisionCompleted(d, result) == [type |-> "completed", id |-> d, status |-> result]
ActionRecorded(a, d, g, st) ==
  [type |-> "action", id |-> a, decision |-> d, gateway |-> g, status |-> st]
IntentUpdated(p, from, st) == [type |-> "intent", path |-> p, from |-> from, status |-> st]
PathRecorded(p) == [type |-> "path", path |-> p]
DecisionPaid == [type |-> "decision-paid"]
ToolCallPaid == [type |-> "tool-call-paid"]

\* upsertSearchIntent: the same intent again takes over the new status, another one of the
\* same path is merged, a dead end stays one.
Upserted(old, e) ==
  IF old.status = "none" \/ (old.from = e.from /\ old.status # "dead-end")
  THEN [from |-> e.from, status |-> e.status]
  ELSE old

Applied(s, e) ==
  CASE e.type = "decision"  -> [s EXCEPT !.decisions = Append(@, e.decision)]
    [] e.type = "completed" -> [s EXCEPT !.decisions[e.id].status = e.status]
    [] e.type = "action"    -> LET a == [decision |-> e.decision, gateway |-> e.gateway, status |-> e.status] IN
                               [s EXCEPT !.actions = IF e.id > Len(@) THEN Append(@, a) ELSE [@ EXCEPT ![e.id] = a]]
    [] e.type = "intent"    -> [s EXCEPT !.intents[e.path] = Upserted(@, e)]
    [] e.type = "path"      -> [s EXCEPT !.blocked = @ \cup {e.path}]
    [] e.type = "decision-paid"  -> [s EXCEPT !.decisionsUsed = @ + 1]
    [] e.type = "tool-call-paid" -> [s EXCEPT !.toolCallsUsed = @ + 1]

\* The states that events take s through, one after the other, and the last of them.
Along(s, events) ==
  LET after[n \in 0..Len(events)] == IF n = 0 THEN s ELSE Applied(after[n - 1], events[n]) IN after
After(s, events) == Along(s, events)[Len(events)]

\* What the next process makes of the session: who had started is unknown.
Replayed(s) ==
  [s EXCEPT !.actions = [a \in DOMAIN @ |-> IF @[a].status = "started" THEN [@[a] EXCEPT !.status = "unknown"]
                                            ELSE @[a]]]

Ends(s) ==
  /\ spent.crashes < MaxCrashes
  /\ state' = Replayed(s)
  /\ calls' = [c \in Calls |-> Idle]
  /\ spent' = [spent EXCEPT !.crashes = @ + 1, !.left = Len(state'.decisions),
                               !.done = Len(state'.actions)]

\* A section appends its events and leaves call c as given, or the process ends before it
\* has appended all of them.
Section(events, c, call) ==
  \/ /\ state' = After(state, events)
     /\ calls' = [calls EXCEPT ![c] = call]
     /\ UNCHANGED spent
  \/ /\ Torn
     /\ \E n \in 1..(Len(events) - 1) : Ends(Along(state, events)[n])

(***************************************************************************)
(* The search board.                                                         *)
(***************************************************************************)
Pending(s) == {d \in DOMAIN s.decisions : s.decisions[d].status = "pending"}

FailedOf(s, p) == {d \in DOMAIN s.decisions : s.decisions[d].status = "failed"
                                              /\ Capability[s.decisions[d].path] = Capability[p]}

Runnable(s, p) == p \notin s.blocked /\ Cardinality(FailedOf(s, p)) < 2

OpenIntents(s) == {p \in Path : s.intents[p].status = "open" /\ Runnable(s, p)}

Succeeded(s, p) == \E d \in DOMAIN s.decisions : s.decisions[d].path = p /\ s.decisions[d].status = "succeeded"

Candidate(p, intent) == [path |-> p, intent |-> intent]

\* generateCandidateActions: templates count only when no open intent can be run.
Candidates(s) ==
  IF OpenIntents(s) # {} THEN {Candidate(p, p) : p \in OpenIntents(s)}
  ELSE {Candidate(p, None) : p \in {q \in Bootstrap : Runnable(s, q) /\ ~Succeeded(s, q)}}

\* A slip: only the number of branches counts.
MayBranchWide(s, intent) == Cardinality(Pending(s)) < MaxBranches

\* branchStartBlockReason.
MayBranch(s, intent) ==
  /\ ~\E d \in Pending(s) : s.decisions[d].intent = intent
  /\ Cardinality(Pending(s)) < MaxBranches

Intent(s, p, st) == IF p = None THEN <<>> ELSE <<IntentUpdated(p, s.intents[p].from, st)>>

\* deriveIntentsFromFact, of the fact that path p has given.
Derived(s, p) ==
  LET new == SetToSeq(Derives[p] \ (s.blocked \cup {p})) IN
  [i \in DOMAIN new |-> IntentUpdated(new[i], Capability[p], "open")]

\* searchEventsAfterDecision, in the state behind its completion.
Memory(s, d) ==
  LET dec == s.decisions[d] IN
  <<PathRecorded(dec.path)>>
  \o (IF dec.status = "succeeded" THEN Intent(s, dec.intent, "resolved") \o Derived(s, dec.path)
      ELSE Intent(s, dec.intent, "dead-end"))

Completion(s, d, result) ==
  LET completed == DecisionCompleted(d, result) IN
  <<completed>> \o Memory(Applied(s, completed), d)

(***************************************************************************)
(* The gateway.                                                              *)
(***************************************************************************)
\* finishDecision.
FinishDecision(s, d, a, g, result) == <<ActionRecorded(a, d, g, result)>> \o Completion(s, d, result)

InFlight(g) == {calls[c].decision : c \in {b \in Calls : calls[b].gateway = g}}

\* A slip: a refusal finishes the audit and not the decision.
BeginRefused(s, d, g, refused) ==
  LET a == Len(s.actions) + 1 IN
  <<ActionRecorded(a, d, g, "planned")>> \o (IF refused THEN <<ActionRecorded(a, d, g, "failed")>> ELSE <<>>)

\* execute, from the action to the first await; `refused' by the scope, a protected path or the
\* budget.
Begin(s, d, g, refused) ==
  LET a == Len(s.actions) + 1 IN
  <<ActionRecorded(a, d, g, "planned")>> \o (IF refused THEN FinishDecision(s, d, a, g, "failed") ELSE <<>>)

Refusals(s) == IF s.toolCallsUsed < MaxToolCalls THEN BOOLEAN ELSE {TRUE}

Waiting(s, d, g, refused) ==
  IF refused THEN Idle
  ELSE [at |-> "waiting", decision |-> d, action |-> Len(s.actions) + 1, gateway |-> g]

Ending(c, result) ==
  Section(FinishDecision(state, calls[c].decision, calls[c].action, calls[c].gateway, result), c, Idle)

\* The approval, the availability of the tool or its preconditions fail.
Reject(c) ==
  /\ calls[c].at = "waiting"
  /\ Ending(c, "failed")

Start(c) ==
  /\ calls[c].at = "waiting"
  /\ Section(<<ToolCallPaid, ActionRecorded(calls[c].action, calls[c].decision, calls[c].gateway, "started")>>,
             c, [calls[c] EXCEPT !.at = "executing"])

Finish(c) ==
  /\ calls[c].at = "executing"
  /\ \E result \in {"succeeded", "failed"} : Ending(c, result)

(***************************************************************************)
(* The operations.                                                           *)
(***************************************************************************)
Begins(c, op) == op \in Ops /\ calls[c].at = "idle"

HasDecision == state.decisionsUsed < MaxDecisions

\* A decision that is recorded, claims its intent, and is executed.
Decide(p, intent, origin) ==
  <<DecisionRecorded(p, intent, origin)>> \o Intent(state, intent, "claimed") \o <<DecisionPaid>>

Run(c, p, intent, origin, g) ==
  LET decided == Decide(p, intent, origin)
      s == After(state, decided)
      d == Len(s.decisions) IN
  \E refused \in Refusals(s) : Section(decided \o Begin(s, d, g, refused), c, Waiting(s, d, g, refused))

\* AutonomousSearchLoop.step.
Step(c) ==
  /\ Begins(c, "step") /\ HasDecision
  /\ \E can \in Candidates(state) :
       /\ MayBranch(state, can.intent)
       /\ Run(c, can.path, can.intent, "loop", "loop")

\* A decision of the model; how many there are is bounded.
MayAsk == HasDecision /\ Cardinality({d \in DOMAIN state.decisions : state.decisions[d].origin # "loop"}) < MaxAsked

\* The tool call has the name of one that has been: there is an action of that name.
Repeats == \E a \in DOMAIN state.actions : state.actions[a].gateway \in Keyed

\* createAtomicDecision and its execution; of a tool call that repeats another one, the decision
\* is recorded and paid for, and nothing is executed.
Atomic(c) ==
  /\ Begins(c, "atomic") /\ MayAsk
  /\ \E p \in Manual :
       \/ \E g \in Keyed : Run(c, p, None, "atomic", g)
       \/ Repeats /\ Section(Decide(p, None, "repeated"), c, Idle)

\* security_plan.
Plan(c) ==
  /\ Begins(c, "plan") /\ MayAsk
  /\ \E p \in Manual : Section(Decide(p, None, "plan"), c, Idle)

\* The model has been told of a decision that it planned, or finds it after a restart.
Known == {d \in Pending(state) : state.decisions[d].origin = "plan" \/ d <= spent.left}

\* A slip: the calls in flight are not looked at.
ExecuteAnyway(c) ==
  /\ Begins(c, "execute") /\ Len(state.actions) < MaxActions
  /\ \E d \in Known, g \in Gateway, refused \in Refusals(state) :
       Section(Begin(state, d, g, refused), c, Waiting(state, d, g, refused))

\* execute, of a decision that exists.
Execute(c) ==
  /\ Begins(c, "execute") /\ Len(state.actions) < MaxActions
  /\ \E d \in Known, g \in Gateway :
       /\ d \notin InFlight(g)
       /\ \E refused \in Refusals(state) :
            Section(Begin(state, d, g, refused), c, Waiting(state, d, g, refused))

\* complete_decision of security_state.
Complete(c) ==
  /\ Begins(c, "complete") /\ spent.completes < MaxCompletes
  /\ \E d \in DOMAIN state.decisions, result \in Ended :
       state' = After(state, Completion(state, d, result))
  /\ spent' = [spent EXCEPT !.completes = @ + 1]
  /\ UNCHANGED calls

Crash == Ends(state)

CallStep(c) == Reject(c) \/ Start(c) \/ Finish(c)

Next ==
  \/ \E c \in Calls : Step(c) \/ Atomic(c) \/ Plan(c) \/ Execute(c) \/ Complete(c) \/ CallStep(c)
  \/ Crash

Spec == Init /\ [][Next]_vars

(***************************************************************************)
(* Properties.                                                              *)
(***************************************************************************)
TypeOK ==
  /\ \A d \in DOMAIN state.decisions :
       /\ state.decisions[d].path \in Path /\ state.decisions[d].intent \in Path \cup {None}
       /\ state.decisions[d].status \in Ended \cup {"pending"}
  /\ \A a \in DOMAIN state.actions :
       /\ state.actions[a].decision \in DOMAIN state.decisions
       /\ state.actions[a].gateway \in Gateway \cup {"loop"}
       /\ state.actions[a].status \in {"planned", "started", "succeeded", "failed", "unknown"}
  /\ \A p \in Path : state.intents[p].status \in {"none", "open", "claimed", "resolved", "dead-end"}
  /\ state.blocked \subseteq Path
  /\ \A c \in Calls : calls[c].at \in {"idle", "waiting", "executing"}

PathOf(a) == state.decisions[state.actions[a].decision].path

\* "the same Intent cannot have two pending decisions" (docs/autonomous-loop.md:23), also when a
\* fact that is found again opens a claimed intent.
OneDecisionPerIntent ==
  \A d, e \in Pending(state) :
    state.decisions[d].intent = state.decisions[e].intent /\ state.decisions[d].intent # None => d = e

\* A pending decision is being executed, or no action of it has been begun because it is planned or
\* its tool call repeats another one, or it was left by a process that has ended: the ways out of
\* the gateway behind the begin of an action complete it, else it would count as a branch for ever.
PendingHasOwner ==
  \A d \in Pending(state) :
    \/ /\ state.decisions[d].origin \in {"plan", "repeated"}
       /\ \A a \in DOMAIN state.actions : state.actions[a].decision # d
    \/ d <= spent.left
    \/ \E c \in Calls : calls[c].decision = d

\* A tool call that is answered leaves no decision of its own behind, which does not hold of one that
\* repeats another: its decision stays pending, and counts as a branch until it is completed by hand.
RepeatsLeaveNothing == \A d \in Pending(state) : state.decisions[d].origin # "repeated"

\* The tool calls that have started stay within their budget, which does not hold of calls
\* that overlap.
BudgetKept == state.toolCallsUsed <= MaxToolCalls

\* No path of the loop succeeds twice, which does not hold when a process ends between the
\* completion of a decision and the events of its memory.
NoRepeatedSuccess ==
  \A a, b \in DOMAIN state.actions :
    /\ PathOf(a) = PathOf(b) /\ PathOf(a) \notin Manual
    /\ state.actions[a].status = "succeeded" /\ state.actions[b].status = "succeeded"
    => a = b

\* The loop does not choose the path of an action again whose end is unknown ("not replayed
\* after a restart", plan.md:10).
UnknownIsNotRepeated ==
  \A a \in DOMAIN state.actions : state.actions[a].status = "unknown" =>
    \A d \in DOMAIN state.decisions :
      d > state.actions[a].decision => state.decisions[d].path # PathOf(a) \/ PathOf(a) \in Manual

\* Two actions of this process for one decision, which both run or have given a result.
BothExecute(a, b) ==
  /\ a > spent.done /\ b > spent.done
  /\ state.actions[a].decision = state.actions[b].decision
  /\ {state.actions[a].status, state.actions[b].status} \subseteq {"started", "succeeded"}

\* "rejects concurrent execution of the same decision" (gateway-replanning.test.ts:216): a
\* gateway executes a decision once in a process, whatever calls name it and wait, are refused or
\* end, and whatever the other gateways make of the decision.
ExecutedOnce ==
  \A a, b \in DOMAIN state.actions :
    BothExecute(a, b) /\ state.actions[a].gateway = state.actions[b].gateway => a = b

\* The same of all gateways together, which does not hold.
ExecutedByOne == \A a, b \in DOMAIN state.actions : BothExecute(a, b) => a = b

\* A result is not replaced by another one.
ResultsStand ==
  [][\A d \in DOMAIN state.decisions :
       state.decisions[d].status \in Ended => state'.decisions[d].status = state.decisions[d].status]_vars

=============================================================================
