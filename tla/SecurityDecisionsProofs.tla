----------------------- MODULE SecurityDecisionsProofs -----------------------
(***************************************************************************)
(* Theorems about SecurityDecisions, for any number of calls, paths,       *)
(* gateways, decisions and crashes.                                        *)
(*                                                                         *)
(* What a section of code leaves behind is the state at the end of its     *)
(* events, or at any of them if the process ends there. Along lists these  *)
(* states; the lemmas about it say what sequences of events do that record *)
(* no decision (Quiet), and the operations are then described by a few     *)
(* facts each (FinishStep and so on), of which alone the invariant speaks. *)
(***************************************************************************)
EXTENDS SecurityDecisions, FiniteSetTheorems, SequenceTheorems, FunctionTheorems, NaturalsInduction,
        WellFoundedInduction, TLAPS

(* Numbers.                                                                *)

\* A set of numbers that has members has a least one.
LEMMA LeastNumber ==
  ASSUME NEW T, T \subseteq Nat, T # {}
  PROVE  \E m \in T : \A n \in T : m <= n
<1>1. IsWellFoundedOn(OpToRel(<, Nat), Nat)
  BY NatLessThanWellFounded
<1>2. \E x \in T : \A y \in T : ~ (<<y, x>> \in OpToRel(<, Nat))
  BY <1>1, WFMin
<1>3. PICK m \in T : \A y \in T : ~ (<<y, m>> \in OpToRel(<, Nat))
  BY <1>2
<1>4. ASSUME NEW n \in T PROVE m <= n
  <2>1. ~ (n < m) BY <1>3 DEF OpToRel
  <2> QED BY <2>1
<1> QED BY <1>4

\* Induction up to a bound, over a set of numbers.
LEMMA CountingUp ==
  ASSUME NEW N \in Nat, NEW T, 0 \in T, \A n \in 0..N : n \in T /\ n < N => n + 1 \in T
  PROVE  0..N \subseteq T
<1> DEFINE Missed == {n \in 0..N : n \notin T}
<1>1. ASSUME Missed # {} PROVE FALSE
  <2>1. PICK m \in Missed : \A n \in Missed : m <= n
    BY <1>1, LeastNumber, Missed \subseteq Nat
  <2>2. m # 0 /\ m \in 0..N
    BY <2>1
  <2>3. m - 1 \in 0..N /\ m - 1 < N /\ m - 1 + 1 = m
    BY <2>2
  <2>4. m - 1 \in T
    BY <2>1, <2>3
  <2> QED BY <2>1, <2>3, <2>4
<1> QED BY <1>1

-----------------------------------------------------------------------------
(* What a sequence of events does.                                         *)

\* The state behind event k, out of the one before it.
Onward(s, events, f, k) == IF k = 0 THEN s ELSE Applied(f[k - 1], events[k])

\* There is such a function: it is built up from its first members.
LEMMA OnwardExists ==
  ASSUME NEW s, NEW events, NEW N \in Nat
  PROVE  \E f : f = [k \in 0..N |-> Onward(s, events, f, k)]
<1> DEFINE T == {n \in Nat : \E f : f = [k \in 0..n |-> Onward(s, events, f, k)]}
<1>1. 0 \in T
  <2> DEFINE g == [k \in 0..0 |-> s]
  <2>1. g = [k \in 0..0 |-> Onward(s, events, g, k)]
    BY DEF Onward
  <2> QED BY <2>1
<1>2. ASSUME NEW n \in 0..N, n \in T, n < N PROVE n + 1 \in T
  <2>1. PICK f : f = [k \in 0..n |-> Onward(s, events, f, k)]
    BY <1>2
  <2> DEFINE g == [k \in 0..(n + 1) |-> IF k = n + 1 THEN Onward(s, events, f, k) ELSE f[k]]
  <2>2. ASSUME NEW k \in 0..(n + 1) PROVE g[k] = Onward(s, events, g, k)
    <3>1. CASE k = 0
      BY <3>1, <2>1, n \in Nat DEF Onward
    <3>2. CASE k # 0
      <4>1. k - 1 \in 0..(n + 1) /\ k - 1 # n + 1 /\ k - 1 \in 0..n
        BY <3>2, n \in Nat
      <4>2. g[k - 1] = f[k - 1]
        BY <4>1
      <4>3. Onward(s, events, g, k) = Onward(s, events, f, k)
        <5> HIDE DEF g
        <5> QED BY <4>2, <3>2 DEF Onward
      <4>4. CASE k = n + 1
        BY <4>4, <4>3
      <4>5. CASE k # n + 1
        <5>1. k \in 0..n BY <4>5, n \in Nat
        <5>2. g[k] = f[k] BY <4>5
        <5>3. f[k] = Onward(s, events, f, k)
          <6> HIDE DEF g
          <6> QED BY <5>1, <2>1
        <5> QED BY <4>3, <5>2, <5>3
      <4> QED BY <4>4, <4>5
    <3> QED BY <3>1, <3>2
  <2>3. g = [k \in 0..(n + 1) |-> g[k]]
    OBVIOUS
  <2>4. g = [k \in 0..(n + 1) |-> Onward(s, events, g, k)]
    <3> HIDE DEF g
    <3> QED BY <2>2, <2>3
  <2>5. n + 1 \in Nat
    BY n \in 0..N
  <2> HIDE DEF g
  <2> QED BY <2>4, <2>5
<1>3. 0..N \subseteq T
  <2> HIDE DEF T
  <2> QED BY <1>1, <1>2, CountingUp
<1> QED BY <1>3

\* Along, step by step.
LEMMA AlongStep ==
  ASSUME NEW s, NEW events, Len(events) \in Nat
  PROVE  /\ Along(s, events)[0] = s
         /\ \A k \in 1..Len(events) : Along(s, events)[k] = Applied(Along(s, events)[k - 1], events[k])
<1>1. \E f : f = [k \in 0..Len(events) |-> IF k = 0 THEN s ELSE Applied(f[k - 1], events[k])]
  <2>1. PICK f : f = [k \in 0..Len(events) |-> Onward(s, events, f, k)]
    BY OnwardExists
  <2> QED BY <2>1 DEF Onward
<1> DEFINE after[k \in 0..Len(events)] == IF k = 0 THEN s ELSE Applied(after[k - 1], events[k])
<1>2. Along(s, events) = after
  BY DEF Along
<1>3. after = [k \in 0..Len(events) |-> IF k = 0 THEN s ELSE Applied(after[k - 1], events[k])]
  BY <1>1
<1> HIDE DEF after
<1>4. ASSUME NEW k \in 1..Len(events) PROVE k \in 0..Len(events) /\ k # 0
  OBVIOUS
<1>5. 0 \in 0..Len(events)
  OBVIOUS
<1>6. after[0] = s
  BY <1>3, <1>5
<1>7. ASSUME NEW k \in 1..Len(events) PROVE after[k] = Applied(after[k - 1], events[k])
  BY <1>3, <1>4
<1> QED BY <1>2, <1>6, <1>7

LEMMA AlongNext ==
  ASSUME NEW s, NEW events, NEW n \in Nat, Len(events) \in Nat, n < Len(events)
  PROVE  Along(s, events)[n + 1] = Applied(Along(s, events)[n], events[n + 1])
<1> DEFINE k == n + 1
<1>1. k \in 1..Len(events) /\ k - 1 = n
  OBVIOUS
<1> HIDE DEF k
<1>2. Along(s, events)[k] = Applied(Along(s, events)[k - 1], events[k])
  BY <1>1, AlongStep
<1>3. Along(s, events)[k] = Applied(Along(s, events)[n], events[k])
  BY <1>1, <1>2
<1> QED BY <1>3 DEF k

\* Two sequences of events, one behind the other.
Joins(u, x, y) == u = x \o y

LEMMA JoinsIs ==
  ASSUME NEW s, NEW E, NEW x \in Seq(E), NEW y \in Seq(E), NEW u, Joins(u, x, y)
  PROVE  /\ Len(x) \in Nat /\ Len(y) \in Nat /\ Len(u) \in Nat /\ Len(u) = Len(x) + Len(y)
         /\ u \in Seq(E)
         /\ \A k \in 1..Len(x) : u[k] = x[k]
         /\ \A k \in 1..Len(y) : u[Len(x) + k] = y[k]
<1>1. u \in Seq(E) /\ Len(u) = Len(x) + Len(y)
  BY ConcatProperties DEF Joins
<1>2. \A k \in 1..Len(x) : u[k] = x[k]
  BY ConcatProperties DEF Joins
<1>3. \A k \in 1..Len(y) : u[Len(x) + k] = y[k]
  BY ConcatProperties DEF Joins
<1> QED BY <1>1, <1>2, <1>3

LEMMA AlongFore ==
  ASSUME NEW s, NEW E, NEW x \in Seq(E), NEW y \in Seq(E), NEW u, Joins(u, x, y), NEW j \in 0..Len(x)
  PROVE  Along(s, u)[j] = Along(s, x)[j]
<1> DEFINE T1 == {k \in Nat : Along(s, u)[k] = Along(s, x)[k]}
<1>0. /\ Len(x) \in Nat /\ Len(y) \in Nat /\ Len(u) \in Nat /\ Len(u) = Len(x) + Len(y)
      /\ \A k \in 1..Len(x) : u[k] = x[k]
  BY JoinsIs
<1>1. 0 \in T1
  BY <1>0, AlongStep
<1>2. ASSUME NEW n \in 0..Len(x), n \in T1, n < Len(x) PROVE n + 1 \in T1
  <2>1. n \in Nat /\ n < Len(u) /\ n + 1 \in 1..Len(x) /\ n + 1 \in Nat /\ Len(u) \in Nat
    BY <1>0, <1>2
  <2>2. Along(s, u)[n + 1] = Applied(Along(s, u)[n], u[n + 1])
    BY <2>1, AlongNext
  <2>3. Along(s, x)[n + 1] = Applied(Along(s, x)[n], x[n + 1])
    BY <1>0, <1>2, <2>1, AlongNext
  <2>4. u[n + 1] = x[n + 1] /\ Along(s, u)[n] = Along(s, x)[n]
    BY <1>0, <1>2, <2>1
  <2> QED BY <2>1, <2>2, <2>3, <2>4
<1>3. 0..Len(x) \subseteq T1
  <2> HIDE DEF T1
  <2> QED BY <1>0, <1>1, <1>2, CountingUp
<1> QED BY <1>3

LEMMA AlongBehind ==
  ASSUME NEW s, NEW E, NEW x \in Seq(E), NEW y \in Seq(E), NEW u, Joins(u, x, y), NEW j \in 0..Len(y)
  PROVE  Along(s, u)[Len(x) + j] = Along(After(s, x), y)[j]
<1> DEFINE T2 == {k \in Nat : Along(s, u)[Len(x) + k] = Along(After(s, x), y)[k]}
<1>0. /\ Len(x) \in Nat /\ Len(y) \in Nat /\ Len(u) \in Nat /\ Len(u) = Len(x) + Len(y)
      /\ \A k \in 1..Len(y) : u[Len(x) + k] = y[k]
  BY JoinsIs
<1>4. 0 \in T2
  <2>1. Along(After(s, x), y)[0] = After(s, x)
    BY <1>0, AlongStep
  <2>2. Along(s, u)[Len(x)] = Along(s, x)[Len(x)]
    <3>1. Len(x) \in 0..Len(x)
      BY <1>0
    <3> HIDE DEF T2
    <3> QED BY <3>1, AlongFore
  <2>3. Len(x) + 0 = Len(x)
    BY <1>0
  <2> QED BY <2>1, <2>2, <2>3 DEF After
<1>5. ASSUME NEW n \in 0..Len(y), n \in T2, n < Len(y) PROVE n + 1 \in T2
  <2> DEFINE k == Len(x) + n
  <2>1. n \in Nat /\ k \in Nat /\ k < Len(u) /\ n + 1 \in 1..Len(y) /\ n + 1 \in Nat /\ k + 1 = Len(x) + (n + 1)
    BY <1>0, <1>5
  <2>2. Along(s, u)[k] = Along(After(s, x), y)[n]
    BY <1>5
  <2> HIDE DEF k
  <2>a. Len(u) \in Nat
    BY <1>0
  <2>3. Along(s, u)[k + 1] = Applied(Along(s, u)[k], u[k + 1])
    BY <2>a, <2>1, AlongNext
  <2>4. Along(After(s, x), y)[n + 1] = Applied(Along(After(s, x), y)[n], y[n + 1])
    BY <1>0, <1>5, <2>1, AlongNext
  <2>5. u[k + 1] = y[n + 1]
    BY <1>0, <2>1
  <2>6. Along(s, u)[Len(x) + (n + 1)] = Along(After(s, x), y)[n + 1]
    BY <2>1, <2>2, <2>3, <2>4, <2>5
  <2> QED BY <2>1, <2>6
<1>6. 0..Len(y) \subseteq T2
  <2> HIDE DEF T2
  <2> QED BY <1>0, <1>4, <1>5, CountingUp
<1> QED BY <1>6

LEMMA AfterBoth ==
  ASSUME NEW s, NEW E, NEW x \in Seq(E), NEW y \in Seq(E), NEW u, Joins(u, x, y)
  PROVE  After(s, u) = After(After(s, x), y)
<1>1. Len(y) \in 0..Len(y) /\ Len(u) = Len(x) + Len(y)
  BY JoinsIs
<1>2. Along(s, u)[Len(x) + Len(y)] = Along(After(s, x), y)[Len(y)]
  BY <1>1, AlongBehind
<1>3. Along(s, u)[Len(u)] = Along(After(s, x), y)[Len(y)]
  BY <1>1, <1>2
<1> QED BY ONLY <1>3 DEF After

LEMMA AfterNothing ==
  ASSUME NEW s
  PROVE  After(s, <<>>) = s
<1>1. Len(<<>>) = 0
  OBVIOUS
<1> QED BY <1>1, AlongStep, 0 \in Nat DEF After

LEMMA AfterOne ==
  ASSUME NEW s, NEW e
  PROVE  After(s, <<e>>) = Applied(s, e)
<1> DEFINE x == <<e>>
<1>1. Len(x) = 1 /\ x[1] = e /\ 1 - 1 = 0 /\ 1 \in 1..1
  OBVIOUS
<1> HIDE DEF x
<1>2. Along(s, x)[0] = s /\ Along(s, x)[1] = Applied(Along(s, x)[1 - 1], x[1])
  BY <1>1, AlongStep
<1> QED BY <1>1, <1>2 DEF After, x

ActionStatus == {"planned", "started", "succeeded", "failed", "unknown"}
IntentStatus == {"none", "open", "claimed", "resolved", "dead-end"}
Source == {None} \cup {Capability[p] : p \in Path}
Decision == [path : Path, intent : Path \cup {None}, origin : {"loop", "atomic", "plan", "repeated"},
             status : Ended \cup {"pending"}]
\* Who executes: the gateway of an extension, or that of the loop.
Executor == Gateway \cup {"loop"}
Action == [decision : Nat, gateway : Executor, status : ActionStatus]
States == [decisions : Seq(Decision), actions : Seq(Action), blocked : SUBSET Path,
           decisionsUsed : Nat, toolCallsUsed : Nat,
           intents : [Path -> [from : Source, status : IntentStatus]]]

\* A state whose actions belong to its decisions.
Well(s) ==
  /\ s \in States
  /\ \A a \in DOMAIN s.actions : s.actions[a].decision \in 1..Len(s.decisions)

\* The events that record no decision and ask nothing of other decisions than the D there are.
Completions(D) == [type : {"completed"}, id : 1..D, status : Ended]
Actions(D) == [type : {"action"}, id : Nat \ {0}, decision : 1..D, gateway : Executor, status : ActionStatus]
Notes == [type : {"intent"}, path : Path, from : Source, status : IntentStatus]
           \cup [type : {"path"}, path : Path]
Payments == {DecisionPaid, ToolCallPaid}
Quiet(D) == Completions(D) \cup Actions(D) \cup Notes \cup Payments

\* t has the decisions of s, of which none is pending again.
Calm(s, t) ==
  /\ Len(t.decisions) = Len(s.decisions)
  /\ \A d \in 1..Len(s.decisions) :
       /\ t.decisions[d].path = s.decisions[d].path
       /\ t.decisions[d].intent = s.decisions[d].intent
       /\ t.decisions[d].origin = s.decisions[d].origin
       /\ t.decisions[d].status = "pending" => s.decisions[d].status = "pending"

\* What Applied does, by the type of the event.
LEMMA AppliedIs ==
  ASSUME NEW s, NEW e
  PROVE  /\ e.type = "decision" => Applied(s, e) = [s EXCEPT !.decisions = Append(@, e.decision)]
         /\ e.type = "completed" => Applied(s, e) = [s EXCEPT !.decisions[e.id].status = e.status]
         /\ e.type = "action" =>
              Applied(s, e) = [s EXCEPT !.actions =
                IF e.id > Len(@) THEN Append(@, [decision |-> e.decision, gateway |-> e.gateway, status |-> e.status])
                ELSE [@ EXCEPT ![e.id] = [decision |-> e.decision, gateway |-> e.gateway, status |-> e.status]]]
         /\ e.type = "intent" => Applied(s, e) = [s EXCEPT !.intents[e.path] = Upserted(@, e)]
         /\ e.type = "path" => Applied(s, e) = [s EXCEPT !.blocked = @ \cup {e.path}]
         /\ e.type = "decision-paid" => Applied(s, e) = [s EXCEPT !.decisionsUsed = @ + 1]
         /\ e.type = "tool-call-paid" => Applied(s, e) = [s EXCEPT !.toolCallsUsed = @ + 1]
BY DEF Applied

LEMMA CalmItself == ASSUME NEW s PROVE Calm(s, s)
BY DEF Calm

LEMMA CalmThrough ==
  ASSUME NEW s, NEW t, NEW u, Calm(s, t), Calm(t, u)
  PROVE  Calm(s, u)
BY DEF Calm

\* A completion ends a decision.
LEMMA CompletedIs ==
  ASSUME NEW s, Well(s), NEW d \in 1..Len(s.decisions), NEW st \in Ended
  PROVE  LET t == Applied(s, DecisionCompleted(d, st)) IN
         /\ Well(t) /\ Calm(s, t)
         /\ t.decisions = [s.decisions EXCEPT ![d] = [@ EXCEPT !.status = st]]
         /\ t.actions = s.actions
<1> DEFINE e == DecisionCompleted(d, st)
           t == Applied(s, e)
<1>1. e.type = "completed" /\ e.id = d /\ e.status = st
  BY DEF DecisionCompleted
<1>2. t = [s EXCEPT !.decisions[d].status = st]
  BY DEF Applied, DecisionCompleted
<1> HIDE DEF e, t
<1>3. /\ s \in States /\ s.decisions \in Seq(Decision) /\ Len(s.decisions) \in Nat
      /\ d \in DOMAIN s.decisions /\ s.decisions[d] \in Decision
  BY DEF Well, States
<1>4. /\ t.decisions = [s.decisions EXCEPT ![d] = [@ EXCEPT !.status = st]]
      /\ t.actions = s.actions /\ t.blocked = s.blocked /\ t.intents = s.intents
      /\ t.decisionsUsed = s.decisionsUsed /\ t.toolCallsUsed = s.toolCallsUsed
      /\ t = [s EXCEPT !.decisions = [s.decisions EXCEPT ![d] = [@ EXCEPT !.status = st]]]
  BY <1>2, <1>3 DEF States
<1> DEFINE new == [s.decisions[d] EXCEPT !.status = st]
           ds == [s.decisions EXCEPT ![d] = new]
<1>5. new \in Decision /\ new.path = s.decisions[d].path /\ new.intent = s.decisions[d].intent
      /\ new.origin = s.decisions[d].origin /\ new.status # "pending"
  BY <1>3 DEF Decision, Ended
<1> HIDE DEF new
<1>6. /\ ds \in Seq(Decision) /\ Len(ds) = Len(s.decisions)
      /\ \A x \in 1..Len(s.decisions) : ds[x] = IF x = d THEN new ELSE s.decisions[x]
  BY <1>3, <1>5
<1>7. t.decisions = ds /\ t = [s EXCEPT !.decisions = ds]
  BY <1>4 DEF new
<1> HIDE DEF ds
<1>8. t \in States
  BY <1>3, <1>6, <1>7 DEF States
<1>9. Well(t)
  BY <1>4, <1>6, <1>7, <1>8 DEF Well
<1>10. Calm(s, t)
  BY <1>5, <1>6, <1>7 DEF Calm
<1> QED BY <1>4, <1>9, <1>10 DEF t, e

\* An action is recorded, or its status changes.
Recorded(as, a, d, g, st) ==
  IF a > Len(as) THEN Append(as, [decision |-> d, gateway |-> g, status |-> st])
  ELSE [as EXCEPT ![a] = [decision |-> d, gateway |-> g, status |-> st]]

LEMMA ActionIs ==
  ASSUME NEW s, Well(s), NEW a \in Nat \ {0}, NEW d \in 1..Len(s.decisions), NEW g \in Executor,
         NEW st \in ActionStatus
  PROVE  LET t == Applied(s, ActionRecorded(a, d, g, st)) IN
         /\ Well(t) /\ Calm(s, t)
         /\ t.decisions = s.decisions
         /\ t.actions = Recorded(s.actions, a, d, g, st)
<1> DEFINE e == ActionRecorded(a, d, g, st)
           t == Applied(s, e)
           new == [decision |-> d, gateway |-> g, status |-> st]
<1>1. e.type = "action" /\ e.id = a /\ e.decision = d /\ e.status = st
  BY DEF ActionRecorded
<1>2. t = [s EXCEPT !.actions = IF a > Len(@) THEN Append(@, new) ELSE [@ EXCEPT ![a] = new]]
  BY DEF Applied, ActionRecorded
<1> HIDE DEF e, t
<1>3. /\ s \in States /\ s.actions \in Seq(Action) /\ Len(s.actions) \in Nat /\ Len(s.decisions) \in Nat
      /\ DOMAIN s.actions = 1..Len(s.actions)
  BY DEF Well, States
<1>4. new \in Action /\ new.decision = d
  BY <1>3 DEF Action
<1> HIDE DEF new
<1> DEFINE as == IF a > Len(s.actions) THEN Append(s.actions, new) ELSE [s.actions EXCEPT ![a] = new]
<1>5. t = [s EXCEPT !.actions = as]
  BY <1>2, <1>3 DEF States
<1>6. as \in Seq(Action) /\ \A x \in DOMAIN as : as[x].decision \in 1..Len(s.decisions)
  <2>1. \A x \in DOMAIN s.actions : s.actions[x].decision \in 1..Len(s.decisions)
    BY DEF Well
  <2>2. CASE a > Len(s.actions)
    BY <1>3, <1>4, <2>1, <2>2
  <2>3. CASE ~(a > Len(s.actions))
    BY <1>3, <1>4, <2>1, <2>3
  <2> QED BY <2>2, <2>3
<1>7. as = Recorded(s.actions, a, d, g, st)
  BY DEF Recorded, new
<1> HIDE DEF as
<1>8. /\ t.actions = as /\ t.decisions = s.decisions /\ t \in States
  BY <1>3, <1>5, <1>6 DEF States
<1> QED BY <1>6, <1>7, <1>8 DEF Well, Calm, t, e

\* Intents, paths and payments change neither decisions nor actions.
LEMMA NoteIs ==
  ASSUME NEW s, Well(s), NEW e \in Notes \cup Payments
  PROVE  LET t == Applied(s, e) IN
         /\ Well(t) /\ Calm(s, t)
         /\ t.decisions = s.decisions /\ t.actions = s.actions
<1> DEFINE t == Applied(s, e)
<1>0. s \in States /\ DOMAIN s.intents = Path /\ s.intents \in [Path -> [from : Source, status : IntentStatus]]
  BY DEF Well, States
<1>1. CASE e \in [type : {"intent"}, path : Path, from : Source, status : IntentStatus]
  <2>1. /\ e.type = "intent" /\ e.path \in Path /\ e.from \in Source /\ e.status \in IntentStatus
    BY <1>1
  <2>2. t = [s EXCEPT !.intents[e.path] = Upserted(@, e)]
    BY <2>1, AppliedIs
  <2>3. Upserted(s.intents[e.path], e) \in [from : Source, status : IntentStatus]
    BY <1>0, <2>1 DEF Upserted
  <2> DEFINE is == [s.intents EXCEPT ![e.path] = Upserted(s.intents[e.path], e)]
  <2>4. is \in [Path -> [from : Source, status : IntentStatus]]
    BY <1>0, <2>1, <2>3
  <2>5. t = [s EXCEPT !.intents = is]
    BY <1>0, <2>2 DEF States
  <2> HIDE DEF is, t
  <2>6. t \in States /\ t.decisions = s.decisions /\ t.actions = s.actions
    BY <1>0, <2>4, <2>5 DEF States
  <2> QED BY <2>6 DEF Well, Calm, t
<1>2. CASE e \in [type : {"path"}, path : Path]
  <2>1. e.type = "path" /\ e.path \in Path
    BY <1>2
  <2>2. t = [s EXCEPT !.blocked = @ \cup {e.path}]
    BY <2>1, AppliedIs
  <2> HIDE DEF t
  <2>3. t \in States /\ t.decisions = s.decisions /\ t.actions = s.actions
    BY <1>0, <2>1, <2>2 DEF States
  <2> QED BY <2>3 DEF Well, Calm, t
<1>3. CASE e \in Payments
  <2>1. e.type = "decision-paid" \/ e.type = "tool-call-paid"
    BY <1>3 DEF Payments, DecisionPaid, ToolCallPaid
  <2>2. t = [s EXCEPT !.decisionsUsed = @ + 1] \/ t = [s EXCEPT !.toolCallsUsed = @ + 1]
    BY <2>1, AppliedIs
  <2> HIDE DEF t
  <2>a. s.decisionsUsed + 1 \in Nat /\ s.toolCallsUsed + 1 \in Nat
    BY <1>0 DEF States
  <2>b. ASSUME t = [s EXCEPT !.decisionsUsed = @ + 1]
        PROVE  t \in States /\ t.decisions = s.decisions /\ t.actions = s.actions
    <3> DEFINE u == s.decisionsUsed + 1
    <3>1. t = [s EXCEPT !.decisionsUsed = u] /\ u \in Nat
      BY <2>a, <2>b
    <3> HIDE DEF u
    <3> QED BY <3>1, <1>0 DEF States
  <2>c. ASSUME t = [s EXCEPT !.toolCallsUsed = @ + 1]
        PROVE  t \in States /\ t.decisions = s.decisions /\ t.actions = s.actions
    <3> DEFINE u == s.toolCallsUsed + 1
    <3>1. t = [s EXCEPT !.toolCallsUsed = u] /\ u \in Nat
      BY <2>a, <2>c
    <3> HIDE DEF u
    <3> QED BY <3>1, <1>0 DEF States
  <2>3. t \in States /\ t.decisions = s.decisions /\ t.actions = s.actions
    BY <2>b, <2>c, <2>2
  <2> QED BY <2>3 DEF Well, Calm, t
<1> QED BY <1>1, <1>2, <1>3 DEF Notes

\* So all of these keep a state well, and its decisions calm.
LEMMA QuietIs ==
  ASSUME NEW s, Well(s), NEW D, D = Len(s.decisions), NEW e \in Quiet(D)
  PROVE  Well(Applied(s, e)) /\ Calm(s, Applied(s, e))
<1>1. CASE e \in Completions(D)
  <2>1. PICK d \in 1..D, st \in Ended : e = DecisionCompleted(d, st)
    BY <1>1 DEF Completions, DecisionCompleted
  <2> QED BY <2>1, CompletedIs
<1>2. CASE e \in Actions(D)
  <2>1. PICK a \in Nat \ {0}, d \in 1..D, g \in Executor, st \in ActionStatus : e = ActionRecorded(a, d, g, st)
    BY <1>2 DEF Actions, ActionRecorded
  <2> QED BY <2>1, ActionIs
<1>3. CASE e \in Notes \cup Payments
  BY <1>3, NoteIs
<1> QED BY <1>1, <1>2, <1>3 DEF Quiet

\* Along quiet events the state stays well and calm ...
LEMMA AlongQuiet ==
  ASSUME NEW s, Well(s), NEW D, D = Len(s.decisions), NEW events \in Seq(Quiet(D))
  PROVE  /\ \A n \in 0..Len(events) : Well(Along(s, events)[n]) /\ Calm(s, Along(s, events)[n])
         /\ Well(After(s, events)) /\ Calm(s, After(s, events))
<1> DEFINE T == {n \in Nat : Well(Along(s, events)[n]) /\ Calm(s, Along(s, events)[n])}
<1>0. Len(events) \in Nat /\ \A k \in 1..Len(events) : events[k] \in Quiet(D)
  OBVIOUS
<1>1. 0 \in T
  BY <1>0, AlongStep, CalmItself
<1>2. ASSUME NEW n \in 0..Len(events), n \in T, n < Len(events) PROVE n + 1 \in T
  <2>1. n \in Nat /\ n + 1 \in Nat /\ n + 1 \in 1..Len(events) /\ Len(events) \in Nat
    BY <1>0, <1>2
  <2> DEFINE t == Along(s, events)[n]
             e == events[n + 1]
  <2>2. Along(s, events)[n + 1] = Applied(t, e)
    BY <1>2, <2>1, AlongNext
  <2>3. Well(t) /\ Calm(s, t)
    BY <1>2
  <2>4. e \in Quiet(D)
    BY <1>0, <2>1
  <2> HIDE DEF t, e
  <2>5. D = Len(t.decisions)
    BY <2>3 DEF Calm
  <2>6. Well(Applied(t, e)) /\ Calm(t, Applied(t, e))
    BY <2>3, <2>4, <2>5, QuietIs
  <2>7. Calm(s, Applied(t, e))
    BY <2>3, <2>6, CalmThrough
  <2> QED BY <2>1, <2>2, <2>6, <2>7
<1>3. 0..Len(events) \subseteq T
  <2> HIDE DEF T
  <2> QED BY <1>0, <1>1, <1>2, CountingUp
<1>4. Len(events) \in 0..Len(events)
  BY <1>0
<1> QED BY <1>3, <1>4 DEF After

\* ... and notes and payments change neither decisions nor actions.
LEMMA AlongNotes ==
  ASSUME NEW s, Well(s), NEW events \in Seq(Notes \cup Payments)
  PROVE  After(s, events).decisions = s.decisions /\ After(s, events).actions = s.actions
<1> DEFINE Same(t) == Well(t) /\ t.decisions = s.decisions /\ t.actions = s.actions
           T == {n \in Nat : Same(Along(s, events)[n])}
<1>0. Len(events) \in Nat /\ \A k \in 1..Len(events) : events[k] \in Notes \cup Payments
  OBVIOUS
<1>1. 0 \in T
  BY <1>0, AlongStep
<1>2. ASSUME NEW n \in 0..Len(events), n \in T, n < Len(events) PROVE n + 1 \in T
  <2>1. n \in Nat /\ n + 1 \in Nat /\ n + 1 \in 1..Len(events) /\ Len(events) \in Nat
    BY <1>0, <1>2
  <2> DEFINE t == Along(s, events)[n]
             e == events[n + 1]
  <2>2. Along(s, events)[n + 1] = Applied(t, e)
    BY <1>2, <2>1, AlongNext
  <2>3. Same(t)
    BY <1>2
  <2>4. e \in Notes \cup Payments
    BY <1>0, <2>1
  <2> HIDE DEF t, e
  <2>5. Same(Applied(t, e))
    BY <2>3, <2>4, NoteIs
  <2> QED BY <2>1, <2>2, <2>5
<1>3. 0..Len(events) \subseteq T
  <2> HIDE DEF T
  <2> QED BY <1>0, <1>1, <1>2, CountingUp
<1>4. Len(events) \in 0..Len(events)
  BY <1>0
<1> QED BY <1>3, <1>4 DEF After

-----------------------------------------------------------------------------
(* The events of the operations.                                           *)

LEMMA SetAsSeq ==
  ASSUME NEW S, IsFiniteSet(S)
  PROVE  SetToSeq(S) \in Seq(S)
<1>1. PICK f : f \in Bijection(1..Cardinality(S), S)
  BY FS_CardinalityType DEF ExistsBijection
<1>2. f \in [1..Cardinality(S) -> S] /\ IsInjective(f)
  BY <1>1 DEF Bijection, Injection
<1>3. SetToSeq(S) \in [1..Cardinality(S) -> S]
  BY <1>2 DEF SetToSeq
<1>4. Cardinality(S) \in Nat
  BY FS_CardinalityType
<1> QED BY <1>3, <1>4

LEMMA IntentIs ==
  ASSUME NEW s, Well(s), NEW p \in Path \cup {None}, NEW st \in IntentStatus
  PROVE  Intent(s, p, st) \in Seq(Notes)
<1>1. CASE p = None
  BY <1>1 DEF Intent
<1>2. CASE p # None
  <2>1. p \in Path /\ s.intents \in [Path -> [from : Source, status : IntentStatus]]
    BY <1>2 DEF Well, States
  <2>2. IntentUpdated(p, s.intents[p].from, st) \in Notes
    BY <2>1 DEF IntentUpdated, Notes
  <2>3. Intent(s, p, st) = <<IntentUpdated(p, s.intents[p].from, st)>>
    BY <1>2 DEF Intent
  <2> QED BY ONLY <2>2, <2>3
<1> QED BY <1>1, <1>2

LEMMA DerivedIs ==
  ASSUME NEW s, Well(s), NEW p \in Path
  PROVE  Derived(s, p) \in Seq(Notes)
<1> DEFINE S == Derives[p] \ (s.blocked \cup {p})
           new == SetToSeq(S)
<1>1. S \subseteq Path /\ IsFiniteSet(Derives[p])
  BY DecisionsAssumption
<1>2. IsFiniteSet(S)
  BY <1>1, FS_Difference
<1>3. new \in Seq(S)
  BY <1>2, SetAsSeq
<1>4. Derived(s, p) = [i \in DOMAIN new |-> IntentUpdated(new[i], Capability[p], "open")]
  BY DEF Derived
<1> HIDE DEF S, new
<1>5. Len(new) \in Nat /\ DOMAIN new = 1..Len(new) /\ \A i \in DOMAIN new : new[i] \in Path
  BY <1>1, <1>3
<1>6. \A q \in Path : IntentUpdated(q, Capability[p], "open") \in Notes
  BY DecisionsAssumption DEF IntentUpdated, Notes, Source, IntentStatus
<1>7. \A i \in DOMAIN new : IntentUpdated(new[i], Capability[p], "open") \in Notes
  BY <1>5, <1>6
<1> QED BY <1>4, <1>5, <1>7

LEMMA MemoryIs ==
  ASSUME NEW s, Well(s), NEW d \in 1..Len(s.decisions)
  PROVE  Memory(s, d) \in Seq(Notes)
<1> DEFINE dec == s.decisions[d]
<1>1. dec \in Decision
  BY DEF Well, States
<1>2. dec.path \in Path /\ dec.intent \in Path \cup {None}
  BY <1>1 DEF Decision
<1>3. PathRecorded(dec.path) \in Notes
  BY <1>2 DEF PathRecorded, Notes
<1>4. Intent(s, dec.intent, "resolved") \in Seq(Notes) /\ Intent(s, dec.intent, "dead-end") \in Seq(Notes)
  BY <1>2, IntentIs DEF IntentStatus
<1>5. Derived(s, dec.path) \in Seq(Notes)
  BY <1>2, DerivedIs
<1>6. Memory(s, d) = <<PathRecorded(dec.path)>>
        \o (IF dec.status = "succeeded" THEN Intent(s, dec.intent, "resolved") \o Derived(s, dec.path)
            ELSE Intent(s, dec.intent, "dead-end"))
  BY DEF Memory
<1>7. Intent(s, dec.intent, "resolved") \o Derived(s, dec.path) \in Seq(Notes)
  BY <1>4, <1>5, ConcatProperties
<1> DEFINE rest == IF dec.status = "succeeded" THEN Intent(s, dec.intent, "resolved") \o Derived(s, dec.path)
                   ELSE Intent(s, dec.intent, "dead-end")
           x == PathRecorded(dec.path)
<1>8. rest \in Seq(Notes) /\ Memory(s, d) = <<x>> \o rest
  BY <1>4, <1>6, <1>7
<1>9. x \in Notes
  BY <1>3
<1> HIDE DEF rest, x, dec
<1>10. <<x>> \in Seq(Notes)
  BY <1>9
<1>11. <<x>> \o rest \in Seq(Notes)
  BY <1>8, <1>10, ConcatProperties
<1> QED BY <1>8, <1>11

\* One event and others behind it.
LEMMA AlongFirst ==
  ASSUME NEW s, NEW E, NEW e \in E, NEW y \in Seq(E)
  PROVE  /\ <<e>> \o y \in Seq(E) /\ Len(<<e>> \o y) = 1 + Len(y) /\ Len(y) \in Nat
         /\ \A n \in 0..Len(y) : Along(s, <<e>> \o y)[1 + n] = Along(Applied(s, e), y)[n]
         /\ After(s, <<e>> \o y) = After(Applied(s, e), y)
<1> DEFINE x == <<e>>
           u == x \o y
<1>1. x \in Seq(E)
  OBVIOUS
<1>a. Len(x) = 1
  OBVIOUS
<1>b. After(s, x) = Applied(s, e)
  BY AfterOne
<1>j. Joins(u, x, y)
  BY DEF Joins
<1> HIDE DEF x
<1>2. u \in Seq(E)
  BY <1>1, ConcatProperties
<1> HIDE DEF u
<1>3. Len(y) \in Nat /\ Len(u) = Len(x) + Len(y)
  BY <1>1, <1>j, JoinsIs
<1>4. After(s, u) = After(After(s, x), y)
  BY <1>1, <1>j, AfterBoth
<1>6. ASSUME NEW n \in 0..Len(y) PROVE Along(s, u)[1 + n] = Along(Applied(s, e), y)[n]
  <2>1. Along(s, u)[Len(x) + n] = Along(After(s, x), y)[n]
    BY <1>1, <1>j, AlongBehind
  <2> QED BY <2>1, <1>a, <1>b
<1>7. After(s, u) = After(Applied(s, e), y)
  BY <1>b, <1>4
<1>8. Len(u) = 1 + Len(y)
  BY <1>a, <1>3
<1> QED BY ONLY <1>2, <1>3, <1>6, <1>7, <1>8 DEF x, u

\* From t to u decision d has ended.
Completes(t, u, d, st) ==
  /\ u.decisions = [t.decisions EXCEPT ![d] = [@ EXCEPT !.status = st]]
  /\ u.actions = t.actions

\* A completion with its memory, in a state t that has as many decisions as s.
LEMMA CompletionIs ==
  ASSUME NEW s, Well(s), NEW t, Well(t), Len(t.decisions) = Len(s.decisions),
         NEW d \in 1..Len(s.decisions), NEW st \in Ended
  PROVE  /\ Completion(s, d, st) \in Seq(Quiet(Len(s.decisions)))
         /\ Completes(t, After(t, Completion(s, d, st)), d, st)
<1> DEFINE e == DecisionCompleted(d, st)
           y == Memory(Applied(s, e), d)
           D == Len(s.decisions)
<1>1. Completion(s, d, st) = <<e>> \o y
  BY DEF Completion
<1>2. Well(Applied(s, e)) /\ Calm(s, Applied(s, e))
  BY CompletedIs
<1>3. d \in 1..Len(Applied(s, e).decisions)
  BY <1>2 DEF Calm
<1>4. y \in Seq(Notes)
  BY <1>2, <1>3, MemoryIs
<1>5. e \in Quiet(D)
  BY DEF Quiet, Completions, DecisionCompleted
<1>6. Notes \subseteq Quiet(D) /\ Notes \subseteq Notes \cup Payments
  BY DEF Quiet
<1>7. y \in Seq(Quiet(D)) /\ y \in Seq(Notes \cup Payments)
  BY <1>4, <1>6
<1>8. /\ Well(Applied(t, e))
      /\ Applied(t, e).decisions = [t.decisions EXCEPT ![d] = [@ EXCEPT !.status = st]]
      /\ Applied(t, e).actions = t.actions
  BY CompletedIs
<1> HIDE DEF e, y, D
<1>9. <<e>> \o y \in Seq(Quiet(D)) /\ After(t, <<e>> \o y) = After(Applied(t, e), y)
  BY <1>5, <1>7, AlongFirst
<1>10. /\ After(Applied(t, e), y).decisions = Applied(t, e).decisions
       /\ After(Applied(t, e), y).actions = Applied(t, e).actions
  BY <1>7, <1>8, AlongNotes
<1> QED BY <1>1, <1>8, <1>9, <1>10 DEF D, Completes

\* From t to u action a and its decision d have ended.
Finishes(t, u, d, a, g, st) ==
  /\ u.decisions = [t.decisions EXCEPT ![d] = [@ EXCEPT !.status = st]]
  /\ u.actions = Recorded(t.actions, a, d, g, st)

\* The end of an action, and with it of its decision.
LEMMA FinishIs ==
  ASSUME NEW s, Well(s), NEW t, Well(t), Len(t.decisions) = Len(s.decisions),
         NEW d \in 1..Len(s.decisions), NEW a \in Nat \ {0}, NEW g \in Executor, NEW st \in {"succeeded", "failed"}
  PROVE  /\ FinishDecision(s, d, a, g, st) \in Seq(Quiet(Len(s.decisions)))
         /\ Finishes(t, After(t, FinishDecision(s, d, a, g, st)), d, a, g, st)
<1> DEFINE e == ActionRecorded(a, d, g, st)
           y == Completion(s, d, st)
           D == Len(s.decisions)
<1>1. FinishDecision(s, d, a, g, st) = <<e>> \o y
  BY DEF FinishDecision
<1>2. st \in Ended /\ st \in ActionStatus
  BY DEF Ended, ActionStatus
<1>3. /\ Well(Applied(t, e))
      /\ Applied(t, e).decisions = t.decisions
      /\ Applied(t, e).actions = Recorded(t.actions, a, d, g, st)
  BY <1>2, ActionIs
<1>4. e \in Quiet(D)
  BY <1>2 DEF Quiet, Actions, ActionRecorded
<1>5. y \in Seq(Quiet(D)) /\ Completes(Applied(t, e), After(Applied(t, e), y), d, st)
  BY <1>2, <1>3, CompletionIs
<1> HIDE DEF e, y, D
<1>6. <<e>> \o y \in Seq(Quiet(D)) /\ After(t, <<e>> \o y) = After(Applied(t, e), y)
  BY <1>4, <1>5, AlongFirst
<1> QED BY <1>1, <1>3, <1>5, <1>6 DEF D, Finishes, Completes

\* A new action, of a decision whose execution begins or is refused.
NewAction(s, d, g, refused) ==
  LET a == Len(s.actions) + 1 IN
  IF refused THEN Recorded(Recorded(s.actions, a, d, g, "planned"), a, d, g, "failed")
  ELSE Recorded(s.actions, a, d, g, "planned")

LEMMA BeginIs ==
  ASSUME NEW s, Well(s), NEW d \in 1..Len(s.decisions), NEW g \in Executor, NEW refused \in BOOLEAN
  PROVE  /\ Begin(s, d, g, refused) \in Seq(Quiet(Len(s.decisions)))
         /\ After(s, Begin(s, d, g, refused)).decisions =
              IF refused THEN [s.decisions EXCEPT ![d] = [@ EXCEPT !.status = "failed"]] ELSE s.decisions
         /\ After(s, Begin(s, d, g, refused)).actions = NewAction(s, d, g, refused)
<1> DEFINE a == Len(s.actions) + 1
           e == ActionRecorded(a, d, g, "planned")
           y == FinishDecision(s, d, a, g, "failed")
           D == Len(s.decisions)
<1>1. a \in Nat \ {0}
  BY DEF Well, States
<1> HIDE DEF a
<1>2. /\ Well(Applied(s, e))
      /\ Applied(s, e).decisions = s.decisions
      /\ Applied(s, e).actions = Recorded(s.actions, a, d, g, "planned")
  BY <1>1, ActionIs DEF ActionStatus
<1>3. e \in Quiet(D)
  BY <1>1 DEF Quiet, Actions, ActionRecorded, ActionStatus
<1>4. CASE ~refused
  <2>1. Begin(s, d, g, refused) = <<e>>
    BY <1>4 DEF Begin, a
  <2>2. NewAction(s, d, g, refused) = Recorded(s.actions, a, d, g, "planned")
    BY <1>4 DEF NewAction, a
  <2> HIDE DEF e, D
  <2>3. <<e>> \in Seq(Quiet(D)) /\ After(s, <<e>>) = Applied(s, e)
    BY <1>3, AfterOne
  <2> QED BY <1>4, <2>1, <2>2, <2>3, <1>2 DEF D
<1>5. CASE refused
  <2>1. Begin(s, d, g, refused) = <<e>> \o y
    BY <1>5 DEF Begin, a
  <2>2. NewAction(s, d, g, refused) = Recorded(Recorded(s.actions, a, d, g, "planned"), a, d, g, "failed")
    BY <1>5 DEF NewAction, a
  <2>3. /\ y \in Seq(Quiet(D))
        /\ After(Applied(s, e), y).decisions = [Applied(s, e).decisions EXCEPT ![d] = [@ EXCEPT !.status = "failed"]]
        /\ After(Applied(s, e), y).actions = Recorded(Applied(s, e).actions, a, d, g, "failed")
    <3> DEFINE t == Applied(s, e)
               st == "failed"
    <3>1. Well(t) /\ Len(t.decisions) = Len(s.decisions)
      BY <1>2
    <3>2. st \in {"succeeded", "failed"} /\ y = FinishDecision(s, d, a, g, st)
      OBVIOUS
    <3> HIDE DEF t, st, y
    <3>3. FinishDecision(s, d, a, g, st) \in Seq(Quiet(D))
      BY <1>1, <3>1, <3>2, FinishIs
    <3>4. Finishes(t, After(t, FinishDecision(s, d, a, g, st)), d, a, g, st)
      BY <1>1, <3>1, <3>2, FinishIs
    <3> QED BY <3>2, <3>3, <3>4 DEF t, st, Finishes
  <2> HIDE DEF e, y, D
  <2>4. <<e>> \o y \in Seq(Quiet(D)) /\ After(s, <<e>> \o y) = After(Applied(s, e), y)
    BY <1>3, <2>3, AlongFirst
  <2> QED BY <1>5, <2>1, <2>2, <2>3, <2>4, <1>2 DEF D
<1> QED BY <1>4, <1>5

-----------------------------------------------------------------------------
(* What a section leaves behind.                                           *)

\* OneDecisionPerIntent, of any state.
OnePer(s) ==
  \A d, e \in 1..Len(s.decisions) :
    /\ s.decisions[d].status = "pending" /\ s.decisions[e].status = "pending"
    /\ s.decisions[d].intent = s.decisions[e].intent /\ s.decisions[d].intent # None
    => d = e

LEMMA OnePerIs ==
  ASSUME Well(state)
  PROVE  OneDecisionPerIntent <=> OnePer(state)
<1>1. DOMAIN state.decisions = 1..Len(state.decisions)
  BY DEF Well, States
<1> QED BY <1>1 DEF OneDecisionPerIntent, OnePer, Pending

LEMMA CalmKeepsOne ==
  ASSUME NEW s, NEW t, Calm(s, t), OnePer(s)
  PROVE  OnePer(t)
BY DEF Calm, OnePer

\* A decision that is recorded, and nothing else.
Opened(s, p, intent, origin) == Applied(s, DecisionRecorded(p, intent, origin))

Fresh(s, intent) ==
  \A d \in 1..Len(s.decisions) : s.decisions[d].status = "pending" => s.decisions[d].intent # intent

Origin == {"loop", "atomic", "plan", "repeated"}

LEMMA OpenedIs ==
  ASSUME NEW s, Well(s), NEW p \in Path, NEW intent \in Path \cup {None}, NEW origin \in Origin
  PROVE  /\ Well(Opened(s, p, intent, origin))
         /\ Opened(s, p, intent, origin).actions = s.actions
         /\ Len(s.decisions) \in Nat
         /\ Len(Opened(s, p, intent, origin).decisions) = Len(s.decisions) + 1
         /\ \A d \in 1..Len(s.decisions) : Opened(s, p, intent, origin).decisions[d] = s.decisions[d]
         /\ Opened(s, p, intent, origin).decisions[Len(s.decisions) + 1] =
              [path |-> p, intent |-> intent, origin |-> origin, status |-> "pending"]
<1> DEFINE dec == [path |-> p, intent |-> intent, origin |-> origin, status |-> "pending"]
           t == Opened(s, p, intent, origin)
           ds == Append(s.decisions, dec)
<1>1. t = [s EXCEPT !.decisions = Append(@, dec)]
  BY DEF Opened, Applied, DecisionRecorded
<1>2. dec \in Decision
  BY DEF Decision, Origin
<1> HIDE DEF t, dec
<1>3. /\ s \in States /\ s.decisions \in Seq(Decision) /\ Len(s.decisions) \in Nat
  BY DEF Well, States
<1>4. t = [s EXCEPT !.decisions = ds]
  BY <1>1, <1>3 DEF States
<1>5. /\ ds \in Seq(Decision) /\ Len(ds) = Len(s.decisions) + 1
      /\ \A d \in 1..Len(s.decisions) : ds[d] = s.decisions[d]
      /\ ds[Len(s.decisions) + 1] = dec
  BY <1>2, <1>3
<1> HIDE DEF ds
<1>6. t \in States /\ t.decisions = ds /\ t.actions = s.actions
  BY <1>3, <1>4, <1>5 DEF States
<1>7. \A a \in DOMAIN t.actions : t.actions[a].decision \in 1..Len(t.decisions)
  <2>1. \A a \in DOMAIN s.actions : s.actions[a].decision \in 1..Len(s.decisions)
    BY DEF Well
  <2>2. 1..Len(s.decisions) \subseteq 1..Len(ds)
    BY <1>3, <1>5
  <2> QED BY <1>6, <2>1, <2>2
<1>8. Well(t)
  BY <1>6, <1>7 DEF Well
<1> QED BY <1>3, <1>5, <1>6, <1>8 DEF t, dec

LEMMA OpenedKeepsOne ==
  ASSUME NEW s, Well(s), NEW p \in Path, NEW intent \in Path \cup {None}, NEW origin \in Origin,
         OnePer(s), intent = None \/ Fresh(s, intent)
  PROVE  OnePer(Opened(s, p, intent, origin))
<1> DEFINE t == Opened(s, p, intent, origin)
           D == Len(s.decisions)
<1>a. D \in Nat /\ Len(t.decisions) = D + 1
  BY OpenedIs
<1>b. \A d \in 1..D : t.decisions[d] = s.decisions[d]
  BY OpenedIs
<1>c. t.decisions[D + 1] = [path |-> p, intent |-> intent, origin |-> origin, status |-> "pending"]
  BY OpenedIs
<1> HIDE DEF t
<1>1. /\ D \in Nat /\ Len(t.decisions) = D + 1
      /\ \A d \in 1..D : t.decisions[d] = s.decisions[d]
      /\ t.decisions[D + 1].intent = intent
  BY <1>a, <1>b, <1>c
<1>2. ASSUME NEW d \in 1..(D + 1), NEW e \in 1..(D + 1),
             t.decisions[d].status = "pending", t.decisions[e].status = "pending",
             t.decisions[d].intent = t.decisions[e].intent, t.decisions[d].intent # None
      PROVE  d = e
  <2>1. CASE d \in 1..D /\ e \in 1..D
    BY <1>1, <1>2, <2>1 DEF OnePer
  <2>2. CASE d = D + 1 /\ e \in 1..D
    BY <1>1, <1>2, <2>2 DEF Fresh
  <2>3. CASE d \in 1..D /\ e = D + 1
    BY <1>1, <1>2, <2>3 DEF Fresh
  <2>4. CASE d = D + 1 /\ e = D + 1
    BY <2>4
  <2>5. (d \in 1..D \/ d = D + 1) /\ (e \in 1..D \/ e = D + 1)
    BY <1>1
  <2> QED BY <2>1, <2>2, <2>3, <2>4, <2>5
<1> QED BY <1>1, <1>2 DEF OnePer, t

\* The process ends, behind a section or within it.
EndStep == \E s : Well(s) /\ OnePer(s) /\ Ends(s)

\* The section is complete.
Done(events, c, call) ==
  /\ state' = After(state, events)
  /\ calls' = [calls EXCEPT ![c] = call]
  /\ spent' = spent

LEMMA SectionQuiet ==
  ASSUME Well(state), OnePer(state), NEW c, NEW call,
         NEW events \in Seq(Quiet(Len(state.decisions))), Section(events, c, call)
  PROVE  \/ Done(events, c, call) /\ Well(state') /\ Calm(state, state')
         \/ EndStep
<1>1. CASE Done(events, c, call)
  <2>1. Well(After(state, events)) /\ Calm(state, After(state, events))
    BY AlongQuiet
  <2> QED BY <1>1, <2>1 DEF Done
<1>2. ASSUME NEW n \in 1..(Len(events) - 1), Ends(Along(state, events)[n]) PROVE EndStep
  <2>1. n \in 0..Len(events)
    OBVIOUS
  <2>2. Well(Along(state, events)[n]) /\ Calm(state, Along(state, events)[n])
    BY <2>1, AlongQuiet
  <2>3. OnePer(Along(state, events)[n])
    BY <2>2, CalmKeepsOne
  <2> QED BY <1>2, <2>2, <2>3 DEF EndStep
<1> QED BY <1>1, <1>2 DEF Section, Done

LEMMA SectionOpens ==
  ASSUME Well(state), OnePer(state), NEW c, NEW call,
         NEW p \in Path, NEW intent \in Path \cup {None}, NEW origin \in Origin,
         intent = None \/ Fresh(state, intent),
         NEW rest \in Seq(Quiet(Len(state.decisions) + 1)),
         NEW events, events = <<DecisionRecorded(p, intent, origin)>> \o rest, Section(events, c, call)
  PROVE  \/ /\ Done(events, c, call) /\ Well(state')
            /\ Calm(Opened(state, p, intent, origin), state')
            /\ After(state, events) = After(Opened(state, p, intent, origin), rest)
         \/ EndStep
<1> DEFINE e == DecisionRecorded(p, intent, origin)
           u == Opened(state, p, intent, origin)
           D == Len(state.decisions)
           E == Quiet(D + 1) \cup {e}
<1>1. Well(u) /\ Len(u.decisions) = D + 1 /\ OnePer(u)
  BY OpenedIs, OpenedKeepsOne
<1>2. u = Applied(state, e)
  BY DEF Opened
<1>3. e \in E /\ rest \in Seq(E)
  OBVIOUS
<1>4. events = <<e>> \o rest
  OBVIOUS
<1> HIDE DEF e, u, E
<1>5. /\ Len(<<e>> \o rest) = 1 + Len(rest) /\ Len(rest) \in Nat
      /\ After(state, <<e>> \o rest) = After(Applied(state, e), rest)
  BY <1>3, AlongFirst
<1>6. \A n \in 0..Len(rest) : Along(state, <<e>> \o rest)[1 + n] = Along(Applied(state, e), rest)[n]
  BY <1>3, AlongFirst
<1>7. /\ \A n \in 0..Len(rest) : Well(Along(u, rest)[n]) /\ Calm(u, Along(u, rest)[n])
      /\ Well(After(u, rest)) /\ Calm(u, After(u, rest))
  BY <1>1, AlongQuiet
<1>8. CASE Done(events, c, call)
  BY <1>2, <1>4, <1>5, <1>7, <1>8 DEF Done, u
<1>9. ASSUME NEW n \in 1..(Len(events) - 1), Ends(Along(state, events)[n]) PROVE EndStep
  <2> DEFINE m == n - 1
  <2>1. m \in 0..Len(rest) /\ n = 1 + m
    BY <1>4, <1>5
  <2> HIDE DEF m
  <2>2. Along(state, events)[n] = Along(u, rest)[m]
    BY <1>2, <1>4, <1>6, <2>1
  <2>3. Well(Along(u, rest)[m]) /\ Calm(u, Along(u, rest)[m])
    BY <1>7, <2>1
  <2>4. OnePer(Along(u, rest)[m])
    BY <1>1, <2>3, CalmKeepsOne
  <2> QED BY <1>9, <2>2, <2>3, <2>4 DEF EndStep
<1> QED BY <1>8, <1>9 DEF Section, Done

-----------------------------------------------------------------------------
(* What is known of the calls.                                             *)

Call == [at : {"idle", "waiting", "executing"}, decision : Nat, action : Nat,
         gateway : Executor \cup {None}]

Typed ==
  /\ Well(state)
  /\ calls \in [Calls -> Call]
  /\ spent \in [crashes : Nat, completes : Nat, left : 0..Len(state.decisions), done : 0..Len(state.actions)]

\* A call in progress has a decision, and an action of it that its process has begun.
Handed ==
  \A c \in Calls :
    IF calls[c].at = "idle" THEN calls[c] = Idle
    ELSE /\ calls[c].decision \in 1..Len(state.decisions)
         /\ calls[c].action \in 1..Len(state.actions) /\ calls[c].action > spent.done
         /\ state.actions[calls[c].action].decision = calls[c].decision
         /\ state.actions[calls[c].action].gateway = calls[c].gateway /\ calls[c].gateway \in Executor

\* Each call has an action of its own.
OwnActions ==
  \A b, c \in Calls :
    b # c /\ calls[b].at # "idle" /\ calls[c].at # "idle" => calls[b].action # calls[c].action

IInv == Typed /\ Handed /\ OwnActions /\ OneDecisionPerIntent /\ PendingHasOwner

-----------------------------------------------------------------------------
(* What the operations do to decisions and actions.                        *)

\* Action a becomes one of decision d, and nothing else changes.
Put(xs, ys, a, d, g, st) ==
  /\ Len(ys) = IF a = Len(xs) + 1 THEN Len(xs) + 1 ELSE Len(xs)
  /\ ys[a] = [decision |-> d, gateway |-> g, status |-> st]
  /\ \A x \in 1..Len(xs) : x # a => ys[x] = xs[x]

LEMMA RecordedIs ==
  ASSUME NEW xs \in Seq(Action), NEW a \in 1..(Len(xs) + 1), NEW d \in Nat, NEW g \in Executor, NEW st \in ActionStatus
  PROVE  Put(xs, Recorded(xs, a, d, g, st), a, d, g, st) /\ Recorded(xs, a, d, g, st) \in Seq(Action)
<1> DEFINE new == [decision |-> d, gateway |-> g, status |-> st]
<1>1. new \in Action
  BY DEF Action
<1>2. Len(xs) \in Nat /\ DOMAIN xs = 1..Len(xs)
  OBVIOUS
<1> HIDE DEF new
<1>3. CASE a = Len(xs) + 1
  <2>1. Recorded(xs, a, d, g, st) = Append(xs, new)
    BY <1>2, <1>3 DEF Recorded, new
  <2>2. /\ Append(xs, new) \in Seq(Action) /\ Len(Append(xs, new)) = Len(xs) + 1
        /\ Append(xs, new)[Len(xs) + 1] = new /\ \A x \in 1..Len(xs) : Append(xs, new)[x] = xs[x]
    BY <1>1, <1>2
  <2> QED BY <1>3, <2>1, <2>2 DEF Put, new
<1>4. CASE a # Len(xs) + 1
  <2>0. a \in 1..Len(xs) /\ ~(a > Len(xs))
    BY <1>2, <1>4
  <2>1. a \in 1..Len(xs) /\ Recorded(xs, a, d, g, st) = [xs EXCEPT ![a] = new]
    BY <2>0 DEF Recorded, new
  <2> DEFINE ys == [xs EXCEPT ![a] = new]
  <2>2. /\ ys \in Seq(Action) /\ Len(ys) = Len(xs) /\ ys[a] = new
        /\ \A x \in 1..Len(xs) : x # a => ys[x] = xs[x]
    BY <1>1, <1>2, <2>1
  <2> HIDE DEF ys
  <2> QED BY <1>4, <2>1, <2>2 DEF Put, new, ys
<1> QED BY <1>3, <1>4

LEMMA NewActionIs ==
  ASSUME NEW s, Well(s), NEW d \in 1..Len(s.decisions), NEW g \in Executor, NEW refused \in BOOLEAN
  PROVE  Put(s.actions, NewAction(s, d, g, refused), Len(s.actions) + 1, d, g, IF refused THEN "failed" ELSE "planned")
<1> DEFINE xs == s.actions
           a == Len(xs) + 1
           ys == Recorded(xs, a, d, g, "planned")
<1>1. xs \in Seq(Action) /\ Len(xs) \in Nat /\ d \in Nat
  BY DEF Well, States
<1>2. NewAction(s, d, g, refused) = IF refused THEN Recorded(ys, a, d, g, "failed") ELSE ys
  BY DEF NewAction
<1> HIDE DEF xs
<1>a. a \in 1..(Len(xs) + 1) /\ "planned" \in ActionStatus
  BY <1>1 DEF ActionStatus
<1>3. Put(xs, ys, a, d, g, "planned") /\ ys \in Seq(Action)
  BY <1>1, <1>a, RecordedIs
<1> HIDE DEF ys
<1>4. Len(ys) = Len(xs) + 1 /\ a \in 1..(Len(ys) + 1) /\ a # Len(ys) + 1
  BY <1>1, <1>3 DEF Put
<1>5. Put(ys, Recorded(ys, a, d, g, "failed"), a, d, g, "failed")
  BY <1>1, <1>3, <1>4, RecordedIs DEF ActionStatus
<1>6. Put(xs, Recorded(ys, a, d, g, "failed"), a, d, g, "failed")
  BY <1>1, <1>3, <1>4, <1>5 DEF Put
<1> QED BY <1>2, <1>3, <1>6 DEF xs

\* A call ends its action and its decision.
FinishStep(c, st) ==
  /\ calls[c].at # "idle" /\ st \in {"succeeded", "failed"}
  /\ Well(state') /\ Calm(state, state')
  /\ state'.decisions[calls[c].decision].status # "pending"
  /\ Put(state.actions, state'.actions, calls[c].action, calls[c].decision, calls[c].gateway, st)
  /\ calls' = [calls EXCEPT ![c] = Idle] /\ spent' = spent

\* A call starts.
StartStep(c) ==
  /\ calls[c].at = "waiting"
  /\ Well(state') /\ Calm(state, state')
  /\ Put(state.actions, state'.actions, calls[c].action, calls[c].decision, calls[c].gateway, "started")
  /\ calls' = [calls EXCEPT ![c] = [calls[c] EXCEPT !.at = "executing"]] /\ spent' = spent

\* A decision that is there begins, or is refused.
ExecuteStep(c, d, g, refused) ==
  /\ calls[c].at = "idle" /\ d \in Known /\ g \in Gateway /\ d \notin InFlight(g)
  /\ Well(state') /\ Calm(state, state')
  /\ refused => state'.decisions[d].status # "pending"
  /\ Put(state.actions, state'.actions, Len(state.actions) + 1, d, g, IF refused THEN "failed" ELSE "planned")
  /\ calls' = [calls EXCEPT ![c] = Waiting(state, d, g, refused)] /\ spent' = spent

\* A decision is recorded, and begins or is refused.
RunStep(c, p, intent, origin, g, refused) ==
  LET D == Len(state.decisions) + 1 IN
  /\ calls[c].at = "idle" /\ p \in Path /\ intent \in Path \cup {None} /\ origin \in Origin
  /\ (origin = "loop" /\ g = "loop") \/ g \in Gateway
  /\ intent = None \/ Fresh(state, intent)
  /\ Well(state') /\ Calm(Opened(state, p, intent, origin), state')
  /\ refused => state'.decisions[D].status # "pending"
  /\ Put(state.actions, state'.actions, Len(state.actions) + 1, D, g, IF refused THEN "failed" ELSE "planned")
  /\ calls' = [calls EXCEPT ![c] = Waiting(state, D, g, refused)] /\ spent' = spent

\* A decision is recorded, and not executed now.
Later == {"plan", "repeated"}

PlanStep(c, p, origin) ==
  /\ calls[c].at = "idle" /\ p \in Path
  /\ Well(state') /\ Calm(Opened(state, p, None, origin), state')
  /\ state'.actions = state.actions
  /\ calls' = [calls EXCEPT ![c] = Idle] /\ spent' = spent

\* A decision is given a result.
CompleteStep ==
  /\ Well(state') /\ Calm(state, state') /\ state'.actions = state.actions
  /\ calls' = calls /\ spent' = [spent EXCEPT !.completes = @ + 1]

LEMMA EndingIs ==
  ASSUME Typed, Handed, OneDecisionPerIntent, NEW c \in Calls, calls[c].at # "idle",
         NEW st \in {"succeeded", "failed"},
         Ending(c, st)
  PROVE  FinishStep(c, st) \/ EndStep
<1> DEFINE d == calls[c].decision
           a == calls[c].action
           g == calls[c].gateway
           events == FinishDecision(state, d, a, g, st)
<1>1. /\ Well(state) /\ OnePer(state) /\ d \in 1..Len(state.decisions) /\ a \in 1..Len(state.actions)
      /\ state.decisions \in Seq(Decision) /\ state.actions \in Seq(Action) /\ g \in Executor
  BY OnePerIs DEF Typed, Handed, Well, States
<1> HIDE DEF d, a, g
<1>2. a \in Nat \ {0} /\ a \in 1..(Len(state.actions) + 1) /\ d \in Nat /\ st \in ActionStatus /\ st \in Ended
  BY <1>1 DEF ActionStatus, Ended
<1>3. events \in Seq(Quiet(Len(state.decisions))) /\ Finishes(state, After(state, events), d, a, g, st)
  BY <1>1, <1>2, FinishIs
<1>4. Put(state.actions, Recorded(state.actions, a, d, g, st), a, d, g, st)
  BY <1>1, <1>2, RecordedIs
<1>5. Section(events, c, Idle)
  BY DEF Ending, d, a, g
<1> HIDE DEF events
<1>6. (Done(events, c, Idle) /\ Well(state') /\ Calm(state, state')) \/ EndStep
  BY <1>1, <1>3, <1>5, SectionQuiet
<1>7. ASSUME Done(events, c, Idle), Well(state'), Calm(state, state') PROVE FinishStep(c, st)
  <2>1. Finishes(state, state', d, a, g, st) /\ calls' = [calls EXCEPT ![c] = Idle] /\ spent' = spent
    BY <1>3, <1>7 DEF Done
  <2>2. state'.decisions[d].status = st
    BY <1>1, <2>1 DEF Finishes, Decision
  <2>3. st # "pending"
    OBVIOUS
  <2>4. Put(state.actions, state'.actions, a, d, g, st)
    BY <1>4, <2>1 DEF Finishes
  <2> QED BY <1>7, <2>1, <2>2, <2>3, <2>4 DEF FinishStep, d, a, g
<1> QED BY <1>6, <1>7

LEMMA StartIs ==
  ASSUME Typed, Handed, OneDecisionPerIntent, NEW c \in Calls, Start(c)
  PROVE  StartStep(c) \/ EndStep
<1> DEFINE d == calls[c].decision
           a == calls[c].action
           g == calls[c].gateway
           e == ActionRecorded(a, d, g, "started")
           y == <<e>>
           D == Len(state.decisions)
           events == <<ToolCallPaid>> \o y
           call == [calls[c] EXCEPT !.at = "executing"]
<1>1. /\ Well(state) /\ OnePer(state) /\ d \in 1..D /\ a \in 1..Len(state.actions)
      /\ state.decisions \in Seq(Decision) /\ state.actions \in Seq(Action) /\ g \in Executor
  BY OnePerIs DEF Typed, Handed, Well, States, Start
<1>0. Section(<<ToolCallPaid, e>>, c, call) /\ calls[c].at = "waiting"
  BY DEF Start
<1>e. <<ToolCallPaid, e>> = events
  OBVIOUS
<1> HIDE DEF d, a, g
<1>2. a \in Nat \ {0} /\ a \in 1..(Len(state.actions) + 1) /\ d \in Nat /\ "started" \in ActionStatus
  BY <1>1 DEF ActionStatus
<1>3. e \in Quiet(D) /\ ToolCallPaid \in Quiet(D) /\ ToolCallPaid \in Notes \cup Payments
  BY <1>1, <1>2 DEF Quiet, Actions, ActionRecorded, Payments
<1> DEFINE t == Applied(state, ToolCallPaid)
<1>4. Well(t) /\ t.decisions = state.decisions /\ t.actions = state.actions
  BY <1>1, <1>3, NoteIs
<1> HIDE DEF t
<1>5. Applied(t, e).actions = Recorded(t.actions, a, d, g, "started")
  BY <1>1, <1>2, <1>4, ActionIs
<1> HIDE DEF e
<1>6. y \in Seq(Quiet(D)) /\ After(t, y) = Applied(t, e)
  BY <1>3, AfterOne
<1> HIDE DEF y
<1>7. events \in Seq(Quiet(D)) /\ After(state, events) = After(t, y)
  BY <1>3, <1>6, AlongFirst DEF t
<1>8. After(state, events).actions = Recorded(state.actions, a, d, g, "started")
  BY <1>4, <1>5, <1>6, <1>7
<1>9. Put(state.actions, Recorded(state.actions, a, d, g, "started"), a, d, g, "started")
  BY <1>1, <1>2, RecordedIs
<1>10. Section(events, c, call)
  BY <1>0, <1>e
<1> HIDE DEF events, call
<1>11. (Done(events, c, call) /\ Well(state') /\ Calm(state, state')) \/ EndStep
  BY <1>1, <1>7, <1>10, SectionQuiet
<1>12. ASSUME Done(events, c, call), Well(state'), Calm(state, state') PROVE StartStep(c)
  <2>1. Put(state.actions, state'.actions, a, d, g, "started")
    BY <1>8, <1>9, <1>12 DEF Done
  <2> QED BY <1>0, <1>12, <2>1 DEF StartStep, Done, call, a, d, g
<1> QED BY <1>11, <1>12

LEMMA ExecuteIs ==
  ASSUME Typed, Handed, OneDecisionPerIntent, NEW c \in Calls, Execute(c)
  PROVE  \/ \E d \in Nat, g \in Gateway, refused \in BOOLEAN : ExecuteStep(c, d, g, refused)
         \/ EndStep
<1>1. PICK d \in Known, g \in Gateway, refused \in Refusals(state) :
        d \notin InFlight(g) /\ Section(Begin(state, d, g, refused), c, Waiting(state, d, g, refused))
  BY DEF Execute
<1> DEFINE events == Begin(state, d, g, refused)
           call == Waiting(state, d, g, refused)
           D == Len(state.decisions)
<1>a. Well(state) /\ OnePer(state)
  BY OnePerIs DEF Typed
<1>b. refused \in BOOLEAN
  BY DEF Refusals
<1>c. calls[c].at = "idle" /\ g \in Executor
  BY DEF Execute, Begins, Executor
<1>d. DOMAIN state.decisions = 1..D /\ state.decisions \in Seq(Decision)
  BY <1>a DEF Well, States
<1>2. /\ Well(state) /\ OnePer(state) /\ refused \in BOOLEAN /\ calls[c].at = "idle" /\ g \in Executor
      /\ DOMAIN state.decisions = 1..D /\ state.decisions \in Seq(Decision)
  BY <1>a, <1>b, <1>c, <1>d
<1>3. d \in 1..D
  BY <1>2 DEF Known, Pending
<1>4. /\ events \in Seq(Quiet(D))
      /\ After(state, events).decisions =
           IF refused THEN [state.decisions EXCEPT ![d] = [@ EXCEPT !.status = "failed"]] ELSE state.decisions
      /\ After(state, events).actions = NewAction(state, d, g, refused)
  BY <1>2, <1>3, BeginIs
<1>5. Put(state.actions, NewAction(state, d, g, refused), Len(state.actions) + 1, d, g, IF refused THEN "failed" ELSE "planned")
  BY <1>2, <1>3, NewActionIs
<1>6. Section(events, c, call)
  BY <1>1
<1> HIDE DEF events, call
<1>7. (Done(events, c, call) /\ Well(state') /\ Calm(state, state')) \/ EndStep
  BY <1>2, <1>4, <1>6, SectionQuiet
<1>8. ASSUME Done(events, c, call), Well(state'), Calm(state, state') PROVE ExecuteStep(c, d, g, refused)
  <2>1. Put(state.actions, state'.actions, Len(state.actions) + 1, d, g, IF refused THEN "failed" ELSE "planned")
    BY <1>4, <1>5, <1>8 DEF Done
  <2>2. ASSUME refused PROVE state'.decisions[d].status # "pending"
    <3>1. state'.decisions = [state.decisions EXCEPT ![d] = [@ EXCEPT !.status = "failed"]]
      BY <1>4, <1>8, <2>2 DEF Done
    <3>2. d \in DOMAIN state.decisions /\ state.decisions[d] \in Decision
      BY <1>2, <1>3
    <3>3. state'.decisions[d] = [state.decisions[d] EXCEPT !.status = "failed"]
      BY <3>1, <3>2
    <3> QED BY <3>2, <3>3 DEF Decision
  <2> QED BY <1>1, <1>2, <1>8, <2>1, <2>2 DEF ExecuteStep, Done, call
<1>9. d \in Nat
  BY <1>3
<1> QED BY <1>2, <1>7, <1>8, <1>9

\* What Decide appends behind the decision, and what the decision is then.
LEMMA DecideIs ==
  ASSUME Well(state), NEW p \in Path, NEW intent \in Path \cup {None}, NEW origin \in Origin
  PROVE  \E rest \in Seq(Notes \cup Payments) :
           /\ Decide(p, intent, origin) = <<DecisionRecorded(p, intent, origin)>> \o rest
           /\ After(state, Decide(p, intent, origin)) = After(Opened(state, p, intent, origin), rest)
<1> DEFINE e == DecisionRecorded(p, intent, origin)
           i == Intent(state, intent, "claimed")
           rest == i \o <<DecisionPaid>>
           E == Notes \cup Payments \cup {e}
           u == Opened(state, p, intent, origin)
<1>1. i \in Seq(Notes)
  BY IntentIs DEF IntentStatus
<1>2. Decide(p, intent, origin) = (<<e>> \o i) \o <<DecisionPaid>> /\ u = Applied(state, e)
  BY DEF Decide, Opened
<1> HIDE DEF i, e, u
<1>3. i \in Seq(Notes \cup Payments) /\ i \in Seq(E) /\ <<e>> \in Seq(E) /\ e \in E
  BY <1>1
<1>4. <<DecisionPaid>> \in Seq(Notes \cup Payments) /\ <<DecisionPaid>> \in Seq(E)
  BY DEF Payments
<1>5. rest \in Seq(Notes \cup Payments)
  BY <1>3, <1>4, ConcatProperties
<1>6. rest \in Seq(E)
  BY <1>3, <1>4, ConcatProperties
<1>7. (<<e>> \o i) \o <<DecisionPaid>> = <<e>> \o rest
  BY <1>3, <1>4, ConcatAssociative
<1> HIDE DEF rest, E
<1>8. After(state, <<e>> \o rest) = After(Applied(state, e), rest)
  BY <1>3, <1>6, AlongFirst
<1>9. Decide(p, intent, origin) = <<e>> \o rest
  BY <1>2, <1>7
<1>10. After(state, Decide(p, intent, origin)) = After(u, rest)
  BY <1>2, <1>8, <1>9
<1> QED BY <1>5, <1>9, <1>10 DEF e, u

LEMMA RunIs ==
  ASSUME Typed, OneDecisionPerIntent, NEW c \in Calls, calls[c].at = "idle",
         NEW p \in Path, NEW intent \in Path \cup {None}, NEW origin \in Origin, NEW g,
         (origin = "loop" /\ g = "loop") \/ g \in Gateway,
         intent = None \/ Fresh(state, intent), Run(c, p, intent, origin, g)
  PROVE  (\E refused \in BOOLEAN : RunStep(c, p, intent, origin, g, refused)) \/ EndStep
<1> DEFINE e == DecisionRecorded(p, intent, origin)
           u == Opened(state, p, intent, origin)
           decided == Decide(p, intent, origin)
           s == After(state, decided)
           d == Len(s.decisions)
           D == Len(state.decisions)
<1>1. PICK refused \in Refusals(s) : Section(decided \o Begin(s, d, g, refused), c, Waiting(s, d, g, refused))
  BY DEF Run
<1>2. PICK rest \in Seq(Notes \cup Payments) : decided = <<e>> \o rest /\ s = After(u, rest)
  BY DecideIs DEF Typed
<1>3. Well(state) /\ OnePer(state) /\ refused \in BOOLEAN /\ g \in Executor
  BY OnePerIs DEF Typed, Refusals, Executor
<1>4. Well(u) /\ u.actions = state.actions /\ D \in Nat /\ Len(u.decisions) = D + 1
  BY <1>3, OpenedIs
<1> HIDE DEF u, e, decided
<1>5. rest \in Seq(Quiet(D + 1))
  <2>1. Notes \cup Payments \subseteq Quiet(D + 1)
    BY DEF Quiet
  <2> QED BY <1>2, <2>1
<1>6. Well(s) /\ s.decisions = u.decisions /\ s.actions = u.actions
  <2>1. Well(After(u, rest))
    BY <1>4, <1>5, AlongQuiet
  <2>2. After(u, rest).decisions = u.decisions /\ After(u, rest).actions = u.actions
    BY <1>4, AlongNotes
  <2> QED BY <1>2, <2>1, <2>2
<1> HIDE DEF s
<1>7. d = D + 1 /\ d \in 1..Len(s.decisions)
  BY <1>4, <1>6
<1> DEFINE b == Begin(s, d, g, refused)
           call == Waiting(s, d, g, refused)
           all == rest \o b
           events == decided \o b
<1>8. /\ b \in Seq(Quiet(D + 1))
      /\ After(s, b).decisions = IF refused THEN [s.decisions EXCEPT ![d] = [@ EXCEPT !.status = "failed"]] ELSE s.decisions
      /\ After(s, b).actions = NewAction(s, d, g, refused)
  <2>1. /\ b \in Seq(Quiet(Len(s.decisions)))
        /\ After(s, b).decisions = IF refused THEN [s.decisions EXCEPT ![d] = [@ EXCEPT !.status = "failed"]] ELSE s.decisions
        /\ After(s, b).actions = NewAction(s, d, g, refused)
    BY <1>3, <1>6, <1>7, BeginIs
  <2> HIDE DEF b
  <2> QED BY <1>7, <2>1
<1>9. Put(s.actions, NewAction(s, d, g, refused), Len(s.actions) + 1, d, g, IF refused THEN "failed" ELSE "planned")
  BY <1>3, <1>6, <1>7, NewActionIs
<1>10. Section(events, c, call)
  BY <1>1
<1>w. call = Waiting(state, D + 1, g, refused)
  BY <1>4, <1>6, <1>7 DEF Waiting
<1> HIDE DEF b, call, d
<1>11. all \in Seq(Quiet(D + 1)) /\ Joins(all, rest, b)
  BY <1>5, <1>8, ConcatProperties DEF Joins
<1>12. events = <<e>> \o all
  <2> DEFINE E == Quiet(D + 1) \cup {e}
  <2>1. <<e>> \in Seq(E) /\ rest \in Seq(E) /\ b \in Seq(E)
    BY <1>5, <1>8
  <2> HIDE DEF E
  <2>2. (<<e>> \o rest) \o b = <<e>> \o (rest \o b)
    BY <2>1, ConcatAssociative
  <2>3. events = (<<e>> \o rest) \o b
    BY <1>2
  <2> QED BY ONLY <2>2, <2>3
<1> HIDE DEF all, events
<1>13. After(u, all) = After(s, b)
  BY <1>2, <1>5, <1>8, <1>11, AfterBoth
<1>14. \/ /\ Done(events, c, call) /\ Well(state') /\ Calm(u, state')
          /\ After(state, events) = After(u, all)
       \/ EndStep
  BY <1>3, <1>10, <1>11, <1>12, SectionOpens DEF u, e
<1>15. ASSUME Done(events, c, call), Well(state'), Calm(u, state'), After(state, events) = After(u, all)
       PROVE  RunStep(c, p, intent, origin, g, refused)
  <2>1. state' = After(s, b)
    BY <1>13, <1>15 DEF Done
  <2>2. Put(state.actions, state'.actions, Len(state.actions) + 1, D + 1, g, IF refused THEN "failed" ELSE "planned")
    BY <1>4, <1>6, <1>7, <1>8, <1>9, <2>1
  <2>3. ASSUME refused PROVE state'.decisions[D + 1].status # "pending"
    <3>1. state'.decisions = [s.decisions EXCEPT ![d] = [@ EXCEPT !.status = "failed"]]
      BY <1>8, <2>1, <2>3
    <3>2. d \in DOMAIN s.decisions /\ s.decisions[d] \in Decision
      BY <1>6, <1>7 DEF Well, States
    <3>3. state'.decisions[d] = [s.decisions[d] EXCEPT !.status = "failed"]
      BY <3>1, <3>2
    <3> QED BY <1>7, <3>2, <3>3 DEF Decision
  <2>4. calls' = [calls EXCEPT ![c] = Waiting(state, D + 1, g, refused)] /\ spent' = spent
    BY <1>15, <1>w DEF Done
  <2> QED BY <1>15, <2>2, <2>3, <2>4 DEF RunStep, u
<1> QED BY <1>3, <1>14, <1>15

LEMMA StepIs ==
  ASSUME Typed, OneDecisionPerIntent, NEW c \in Calls, Step(c)
  PROVE  (\E p \in Path, intent \in Path \cup {None}, refused \in BOOLEAN : RunStep(c, p, intent, "loop", "loop", refused))
         \/ EndStep
<1>1. PICK can \in Candidates(state) : MayBranch(state, can.intent) /\ Run(c, can.path, can.intent, "loop", "loop")
  BY DEF Step
<1> DEFINE p == can.path
           intent == can.intent
<1>2. p \in Path /\ intent \in Path \cup {None}
  BY DecisionsAssumption DEF Candidates, Candidate, OpenIntents
<1>3. Fresh(state, intent)
  <2>1. DOMAIN state.decisions = 1..Len(state.decisions)
    BY DEF Typed, Well, States
  <2> QED BY <1>1, <2>1 DEF MayBranch, Pending, Fresh
<1>4. calls[c].at = "idle" /\ "loop" \in Origin
  BY DEF Step, Begins, Origin
<1>5. Run(c, p, intent, "loop", "loop")
  BY <1>1
<1> HIDE DEF p, intent
<1>6. (\E refused \in BOOLEAN : RunStep(c, p, intent, "loop", "loop", refused)) \/ EndStep
  BY <1>2, <1>3, <1>4, <1>5, RunIs
<1> QED BY <1>2, <1>6

LEMMA RecordIs ==
  ASSUME Typed, OneDecisionPerIntent, NEW c \in Calls, calls[c].at = "idle", NEW p \in Path,
         NEW origin \in Later, Section(Decide(p, None, origin), c, Idle)
  PROVE  PlanStep(c, p, origin) \/ EndStep
<1>2. None \in Path \cup {None} /\ origin \in Origin
  BY DEF Origin, Later
<1> DEFINE u == Opened(state, p, None, origin)
           e == DecisionRecorded(p, None, origin)
           decided == Decide(p, None, origin)
           D == Len(state.decisions)
<1>3. PICK rest \in Seq(Notes \cup Payments) : decided = <<e>> \o rest /\ After(state, decided) = After(u, rest)
  BY <1>2, DecideIs DEF Typed
<1>4. Well(state) /\ OnePer(state)
  BY OnePerIs DEF Typed
<1>5. Well(u) /\ u.actions = state.actions
  BY <1>2, <1>4, OpenedIs
<1>6. rest \in Seq(Quiet(D + 1))
  <2>1. Notes \cup Payments \subseteq Quiet(D + 1)
    BY DEF Quiet
  <2> QED BY <1>3, <2>1
<1>7. After(u, rest).actions = u.actions
  BY <1>5, AlongNotes
<1>8. Section(decided, c, Idle)
  OBVIOUS
<1> HIDE DEF decided
<1>9. \/ Done(decided, c, Idle) /\ Well(state') /\ Calm(u, state')
      \/ EndStep
  BY <1>2, <1>3, <1>4, <1>6, <1>8, SectionOpens
<1>10. ASSUME Done(decided, c, Idle), Well(state'), Calm(u, state') PROVE PlanStep(c, p, origin)
  BY <1>2, <1>3, <1>5, <1>7, <1>10 DEF PlanStep, Done
<1> QED BY <1>9, <1>10

LEMMA PlanIs ==
  ASSUME Typed, OneDecisionPerIntent, NEW c \in Calls, Plan(c)
  PROVE  (\E p \in Path, origin \in Later : PlanStep(c, p, origin)) \/ EndStep
<1>1. PICK p \in Manual : Section(Decide(p, None, "plan"), c, Idle)
  BY DEF Plan
<1>2. p \in Path /\ "plan" \in Later /\ calls[c].at = "idle"
  BY DecisionsAssumption DEF Later, Plan, Begins
<1> QED BY <1>1, <1>2, RecordIs

\* What an atomic tool call does: it is executed, or repeats another one.
LEMMA AtomicIs ==
  ASSUME Typed, OneDecisionPerIntent, NEW c \in Calls, Atomic(c)
  PROVE  \/ \E p \in Path, g \in Gateway, refused \in BOOLEAN : RunStep(c, p, None, "atomic", g, refused)
         \/ \E p \in Path, origin \in Later : PlanStep(c, p, origin)
         \/ EndStep
<1>1. PICK p \in Manual : \/ \E g \in Keyed : Run(c, p, None, "atomic", g)
                          \/ Section(Decide(p, None, "repeated"), c, Idle)
  BY DEF Atomic
<1>2. p \in Path /\ None \in Path \cup {None} /\ "atomic" \in Origin /\ "repeated" \in Later /\ calls[c].at = "idle"
  BY DecisionsAssumption DEF Origin, Later, Atomic, Begins
<1>3. CASE \E g \in Keyed : Run(c, p, None, "atomic", g)
  <2>1. PICK g \in Gateway : Run(c, p, None, "atomic", g)
    BY <1>3, DecisionsAssumption
  <2>2. (\E refused \in BOOLEAN : RunStep(c, p, None, "atomic", g, refused)) \/ EndStep
    BY <1>2, <2>1, RunIs
  <2> QED BY <1>2, <2>2
<1>4. CASE Section(Decide(p, None, "repeated"), c, Idle)
  BY <1>2, <1>4, RecordIs
<1> QED BY <1>1, <1>3, <1>4

LEMMA CompleteIs ==
  ASSUME Typed, NEW c \in Calls, Complete(c)
  PROVE  CompleteStep
<1>1. PICK d \in DOMAIN state.decisions, result \in Ended : state' = After(state, Completion(state, d, result))
  BY DEF Complete
<1>2. Well(state) /\ d \in 1..Len(state.decisions)
  BY DEF Typed, Well, States
<1>a. Completion(state, d, result) \in Seq(Quiet(Len(state.decisions)))
  BY <1>2, CompletionIs
<1>b. Completes(state, After(state, Completion(state, d, result)), d, result)
  BY <1>2, CompletionIs
<1>3. /\ Completion(state, d, result) \in Seq(Quiet(Len(state.decisions)))
      /\ After(state, Completion(state, d, result)).actions = state.actions
  BY <1>a, <1>b DEF Completes
<1>4. Well(state') /\ Calm(state, state')
  BY <1>1, <1>2, <1>3, AlongQuiet
<1> QED BY <1>1, <1>3, <1>4 DEF Complete, CompleteStep

\* Every step is one of these.
LEMMA NextIs ==
  ASSUME Typed, Handed, OneDecisionPerIntent, Next
  PROVE  \/ \E c \in Calls, st \in {"succeeded", "failed"} : FinishStep(c, st)
         \/ \E c \in Calls : StartStep(c)
         \/ \E c \in Calls, d \in Nat, g \in Gateway, refused \in BOOLEAN : ExecuteStep(c, d, g, refused)
         \/ \E c \in Calls, p \in Path, intent \in Path \cup {None}, origin \in Origin, g \in Executor,
               refused \in BOOLEAN : RunStep(c, p, intent, origin, g, refused)
         \/ \E c \in Calls, p \in Path, origin \in Later : PlanStep(c, p, origin)
         \/ CompleteStep
         \/ EndStep
<1>1. ASSUME NEW c \in Calls, Step(c)
      PROVE  (\E p \in Path, intent \in Path \cup {None}, refused \in BOOLEAN : RunStep(c, p, intent, "loop", "loop", refused))
             \/ EndStep
  BY <1>1, StepIs
<1>2. ASSUME NEW c \in Calls, Atomic(c)
      PROVE  \/ \E p \in Path, g \in Gateway, refused \in BOOLEAN : RunStep(c, p, None, "atomic", g, refused)
             \/ \E p \in Path, origin \in Later : PlanStep(c, p, origin)
             \/ EndStep
  BY <1>2, AtomicIs
<1>3. ASSUME NEW c \in Calls, Plan(c)
      PROVE  (\E p \in Path, origin \in Later : PlanStep(c, p, origin)) \/ EndStep
  BY <1>3, PlanIs
<1>4. ASSUME NEW c \in Calls, Execute(c)
      PROVE  (\E d \in Nat, g \in Gateway, refused \in BOOLEAN : ExecuteStep(c, d, g, refused)) \/ EndStep
  BY <1>4, ExecuteIs
<1>5. ASSUME NEW c \in Calls, Complete(c) PROVE CompleteStep
  BY <1>5, CompleteIs
<1>6. ASSUME NEW c \in Calls, Reject(c) PROVE FinishStep(c, "failed") \/ EndStep
  <2>1. calls[c].at # "idle" /\ "failed" \in {"succeeded", "failed"} /\ Ending(c, "failed")
    BY <1>6 DEF Reject
  <2> QED BY <2>1, EndingIs
<1>7. ASSUME NEW c \in Calls, Start(c) PROVE StartStep(c) \/ EndStep
  BY <1>7, StartIs
<1>8. ASSUME NEW c \in Calls, Finish(c) PROVE (\E st \in {"succeeded", "failed"} : FinishStep(c, st)) \/ EndStep
  <2>1. PICK st \in {"succeeded", "failed"} : Ending(c, st)
    BY <1>8 DEF Finish
  <2>2. calls[c].at # "idle"
    BY <1>8 DEF Finish
  <2> QED BY <2>1, <2>2, EndingIs
<1>9. ASSUME Crash PROVE EndStep
  BY <1>9, OnePerIs DEF Crash, EndStep, Typed
<1> DEFINE Finishing == \E c \in Calls, st \in {"succeeded", "failed"} : FinishStep(c, st)
           Starting == \E c \in Calls : StartStep(c)
           Executing == \E c \in Calls, d \in Nat, g \in Gateway, refused \in BOOLEAN : ExecuteStep(c, d, g, refused)
           Running == \E c \in Calls, p \in Path, intent \in Path \cup {None}, origin \in Origin, g \in Executor,
                         refused \in BOOLEAN : RunStep(c, p, intent, origin, g, refused)
           Planning == \E c \in Calls, p \in Path, origin \in Later : PlanStep(c, p, origin)
           Some == Finishing \/ Starting \/ Executing \/ Running \/ Planning \/ CompleteStep \/ EndStep
<1>10. "loop" \in Origin /\ "atomic" \in Origin /\ None \in Path \cup {None} /\ "loop" \in Executor /\ Gateway \subseteq Executor
  BY DEF Origin, Executor
<1>11. ASSUME NEW c \in Calls, Step(c) PROVE Running \/ EndStep
  BY <1>1, <1>10, <1>11
<1>12. ASSUME NEW c \in Calls, Atomic(c) PROVE Running \/ Planning \/ EndStep
  BY <1>2, <1>10, <1>12
<1>13. ASSUME NEW c \in Calls, Plan(c) PROVE Planning \/ EndStep
  BY <1>3, <1>13
<1>14. ASSUME NEW c \in Calls, Execute(c) PROVE Executing \/ EndStep
  BY <1>4, <1>14
<1>15. ASSUME NEW c \in Calls, CallStep(c) PROVE Finishing \/ Starting \/ EndStep
  BY <1>6, <1>7, <1>8, <1>15 DEF CallStep
<1> HIDE DEF Finishing, Starting, Executing, Running, Planning
<1>16. Some
  BY <1>11, <1>12, <1>13, <1>14, <1>15, <1>5, <1>9 DEF Next
<1> QED BY <1>16 DEF Finishing, Starting, Executing, Running, Planning

-----------------------------------------------------------------------------
(* The invariant is kept.                                                  *)

LEMMA OnePerNext ==
  ASSUME Well(state'), OnePer(state')
  PROVE  OneDecisionPerIntent'
<1>1. DOMAIN state'.decisions = 1..Len(state'.decisions)
  BY DEF Well, States
<1> QED BY <1>1 DEF OneDecisionPerIntent, OnePer, Pending

LEMMA PendingIs ==
  ASSUME NEW s, Well(s), NEW d
  PROVE  d \in Pending(s) <=> d \in 1..Len(s.decisions) /\ s.decisions[d].status = "pending"
<1>1. DOMAIN s.decisions = 1..Len(s.decisions)
  BY DEF Well, States
<1> QED BY <1>1 DEF Pending

LEMMA WellIs ==
  ASSUME NEW s, Well(s)
  PROVE  /\ Len(s.decisions) \in Nat /\ Len(s.actions) \in Nat
         /\ DOMAIN s.decisions = 1..Len(s.decisions) /\ DOMAIN s.actions = 1..Len(s.actions)
         /\ \A a \in 1..Len(s.actions) : s.actions[a].decision \in 1..Len(s.decisions)
BY DEF Well, States

\* PendingHasOwner, with the decisions by their numbers.
Owned(d) ==
  \/ state.decisions[d].origin \in Later /\ \A a \in 1..Len(state.actions) : state.actions[a].decision # d
  \/ d <= spent.left
  \/ \E c \in Calls : calls[c].decision = d

LEMMA OwnersAre ==
  ASSUME Well(state)
  PROVE  PendingHasOwner <=> \A d \in 1..Len(state.decisions) : state.decisions[d].status = "pending" => Owned(d)
BY PendingIs, WellIs DEF PendingHasOwner, Owned, Later

LEMMA OwnersNext ==
  ASSUME Well(state'),
         \A d \in 1..Len(state'.decisions) : state'.decisions[d].status = "pending" => Owned(d)'
  PROVE  PendingHasOwner'
<1>1. ASSUME NEW d \in Pending(state') PROVE Owned(d)'
  BY <1>1, PendingIs
<1>2. DOMAIN state'.actions = 1..Len(state'.actions)
  BY WellIs
<1> QED BY <1>1, <1>2 DEF PendingHasOwner, Owned, Later

LEMMA IdleIs == Idle \in Call /\ Idle.at = "idle" /\ Idle.decision = 0
BY DEF Idle, Call

LEMMA ReplayedActions ==
  ASSUME NEW xs \in Seq(Action), NEW ys,
         ys = [a \in DOMAIN xs |-> IF xs[a].status = "started" THEN [xs[a] EXCEPT !.status = "unknown"] ELSE xs[a]]
  PROVE  /\ ys \in Seq(Action) /\ Len(ys) = Len(xs) /\ DOMAIN ys = 1..Len(xs)
         /\ \A a \in 1..Len(xs) : ys[a].decision = xs[a].decision
<1>1. Len(xs) \in Nat /\ DOMAIN xs = 1..Len(xs)
  BY LenProperties
<1>2. ASSUME NEW a \in 1..Len(xs) PROVE ys[a] \in Action /\ ys[a].decision = xs[a].decision
  <2>1. xs[a] \in Action
    BY <1>1, ElementOfSeq
  <2>2. ys[a] = IF xs[a].status = "started" THEN [xs[a] EXCEPT !.status = "unknown"] ELSE xs[a]
    BY <1>1
  <2> DEFINE unknown == [xs[a] EXCEPT !.status = "unknown"]
  <2>3. unknown \in Action /\ unknown.decision = xs[a].decision
    BY <2>1 DEF Action, ActionStatus
  <2> HIDE DEF unknown
  <2>4. ys[a] = unknown \/ ys[a] = xs[a]
    BY <2>2 DEF unknown
  <2> QED BY <2>1, <2>3, <2>4
<1>3. ys \in [1..Len(xs) -> Action]
  BY <1>1, <1>2
<1>4. ys \in Seq(Action) /\ Len(ys) = Len(xs)
  BY <1>1, <1>3
<1> QED BY <1>1, <1>2, <1>3, <1>4

LEMMA ReplayedIs ==
  ASSUME NEW s, Well(s)
  PROVE  /\ Well(Replayed(s)) /\ Replayed(s).decisions = s.decisions
         /\ Len(Replayed(s).actions) = Len(s.actions)
<1> DEFINE xs == s.actions
           ys == [a \in DOMAIN xs |-> IF xs[a].status = "started" THEN [xs[a] EXCEPT !.status = "unknown"] ELSE xs[a]]
           t == Replayed(s)
<1>1. s \in States /\ xs \in Seq(Action)
  BY DEF Well, States
<1>2. t = [s EXCEPT !.actions = ys]
  BY <1>1 DEF Replayed, States
<1>3. \A a \in 1..Len(xs) : xs[a].decision \in 1..Len(s.decisions)
  BY WellIs
<1>4. /\ ys \in Seq(Action) /\ Len(ys) = Len(xs) /\ DOMAIN ys = 1..Len(xs)
      /\ \A a \in 1..Len(xs) : ys[a].decision = xs[a].decision
  BY <1>1, ReplayedActions
<1> HIDE DEF ys, t
<1>5. t \in States /\ t.actions = ys /\ t.decisions = s.decisions
  BY <1>1, <1>2, <1>4 DEF States
<1>6. \A a \in DOMAIN ys : ys[a].decision \in 1..Len(s.decisions)
  BY <1>3, <1>4
<1> QED BY <1>4, <1>5, <1>6 DEF Well, t

\* A process that ends leaves no call, and nothing behind its start.
LEMMA EndIs ==
  ASSUME Typed, EndStep
  PROVE  /\ Well(state') /\ OnePer(state')
         /\ calls' = [c \in Calls |-> Idle]
         /\ spent' \in [crashes : Nat, completes : Nat, left : Nat, done : Nat]
         /\ spent'.left = Len(state'.decisions) /\ spent'.done = Len(state'.actions)
<1>1. PICK s : Well(s) /\ OnePer(s) /\ Ends(s)
  BY DEF EndStep
<1>2. state' = Replayed(s) /\ calls' = [c \in Calls |-> Idle]
  BY <1>1 DEF Ends
<1>3. spent' = [spent EXCEPT !.crashes = @ + 1, !.left = Len(state'.decisions), !.done = Len(state'.actions)]
  BY <1>1 DEF Ends
<1>4. Well(state') /\ state'.decisions = s.decisions
  BY <1>1, <1>2, ReplayedIs
<1>5. OnePer(state')
  BY <1>1, <1>4 DEF OnePer
<1>6. Len(state'.decisions) \in Nat /\ Len(state'.actions) \in Nat
  BY <1>4, WellIs
<1>7. spent.crashes \in Nat /\ spent.crashes + 1 \in Nat
      /\ spent \in [crashes : Nat, completes : Nat, left : 0..Len(state.decisions), done : 0..Len(state.actions)]
  BY DEF Typed
<1>8. /\ spent' \in [crashes : Nat, completes : Nat, left : Nat, done : Nat]
      /\ spent'.left = Len(state'.decisions) /\ spent'.done = Len(state'.actions)
  BY <1>3, <1>6, <1>7
<1> QED BY <1>2, <1>4, <1>5, <1>8

LEMMA EndKeeps ==
  ASSUME Typed, EndStep
  PROVE  IInv'
<1>1. /\ Well(state') /\ OnePer(state')
      /\ calls' = [c \in Calls |-> Idle]
      /\ spent' \in [crashes : Nat, completes : Nat, left : Nat, done : Nat]
      /\ spent'.left = Len(state'.decisions) /\ spent'.done = Len(state'.actions)
  BY EndIs
<1>2. Len(state'.decisions) \in Nat /\ Len(state'.actions) \in Nat
  BY <1>1, WellIs
<1>3. Typed'
  BY <1>1, <1>2, IdleIs DEF Typed
<1>4. Handed' /\ OwnActions'
  BY <1>1, IdleIs DEF Handed, OwnActions
<1>5. PendingHasOwner'
  <2>1. \A d \in 1..Len(state'.decisions) : Owned(d)'
    BY <1>1, <1>2 DEF Owned
  <2> QED BY <1>1, <2>1, OwnersNext
<1> QED BY <1>1, <1>3, <1>4, <1>5, OnePerNext DEF IInv

LEMMA FinishKeeps ==
  ASSUME IInv, NEW c \in Calls, NEW st \in {"succeeded", "failed"}, FinishStep(c, st)
  PROVE  IInv'
<1> DEFINE a == calls[c].action
           d == calls[c].decision
           g == calls[c].gateway
<1>1. /\ a \in 1..Len(state.actions) /\ d \in 1..Len(state.decisions) /\ calls[c].at # "idle"
      /\ Well(state) /\ Well(state') /\ OnePer(state)
  BY OnePerIs DEF IInv, Typed, Handed, FinishStep
<1>2. /\ Len(state.actions) \in Nat /\ Len(state.decisions) \in Nat
      /\ Len(state'.actions) \in Nat /\ Len(state'.decisions) \in Nat
  BY <1>1, WellIs
<1>3. /\ Calm(state, state') /\ state'.decisions[d].status # "pending"
      /\ Put(state.actions, state'.actions, a, d, g, st)
      /\ calls' = [calls EXCEPT ![c] = Idle] /\ spent' = spent
  BY DEF FinishStep
<1>4. /\ \A b \in Calls : b # c => calls'[b] = calls[b] /\ (calls[b].at # "idle" => calls[b].action # a)
      /\ calls'[c] = Idle /\ calls \in [Calls -> Call]
  BY <1>1, <1>3 DEF IInv, Typed, OwnActions
<1> HIDE DEF a, d, g
<1>5. /\ Len(state'.actions) = Len(state.actions) /\ Len(state'.decisions) = Len(state.decisions)
      /\ state'.actions[a].decision = d
      /\ \A x \in 1..Len(state.actions) : x # a => state'.actions[x] = state.actions[x]
  BY <1>1, <1>2, <1>3 DEF Put, Calm
<1>6. Typed'
  BY <1>1, <1>3, <1>5, <1>4, IdleIs DEF IInv, Typed
<1>7. Handed'
  BY <1>1, <1>3, <1>4, <1>5, IdleIs DEF IInv, Handed
<1>8. OwnActions'
  <2>1. ASSUME NEW x \in Calls, NEW y \in Calls, x # y, calls'[x].at # "idle", calls'[y].at # "idle"
        PROVE  calls'[x].action # calls'[y].action
    <3>1. x # c /\ y # c
      BY <1>4, <2>1, IdleIs
    <3>2. calls'[x] = calls[x] /\ calls'[y] = calls[y]
      BY <1>4, <3>1
    <3> QED BY <2>1, <3>2 DEF IInv, OwnActions
  <2> QED BY <2>1 DEF OwnActions
<1>9. PendingHasOwner'
  <2>1. ASSUME NEW x \in 1..Len(state'.decisions), state'.decisions[x].status = "pending"
        PROVE  Owned(x)'
    <3>1. /\ x \in 1..Len(state.decisions) /\ state.decisions[x].status = "pending" /\ x # d
          /\ state'.decisions[x].origin = state.decisions[x].origin
      BY <1>3, <1>5, <2>1 DEF Calm
    <3>2. Owned(x)
      BY <1>1, <3>1, OwnersAre DEF IInv
    <3>3. CASE state.decisions[x].origin \in Later /\ \A y \in 1..Len(state.actions) : state.actions[y].decision # x
      BY <1>5, <3>1, <3>3 DEF Owned
    <3>4. CASE x <= spent.left
      BY <1>3, <3>4 DEF Owned
    <3>5. ASSUME NEW b \in Calls, calls[b].decision = x PROVE Owned(x)'
      <4>1. b # c
        BY <3>1, <3>5 DEF d
      <4>2. calls'[b].decision = x
        BY <1>4, <3>5, <4>1
      <4> QED BY <4>2 DEF Owned
    <3> QED BY <3>2, <3>3, <3>4, <3>5 DEF Owned
  <2> QED BY <1>1, <2>1, OwnersNext
<1>10. OneDecisionPerIntent'
  BY <1>1, <1>3, CalmKeepsOne, OnePerNext
<1> QED BY <1>6, <1>7, <1>8, <1>9, <1>10 DEF IInv

LEMMA StartKeeps ==
  ASSUME IInv, NEW c \in Calls, StartStep(c)
  PROVE  IInv'
<1> DEFINE a == calls[c].action
           d == calls[c].decision
           g == calls[c].gateway
<1>1. /\ a \in 1..Len(state.actions) /\ d \in 1..Len(state.decisions) /\ calls[c].at # "idle"
      /\ Well(state) /\ Well(state') /\ OnePer(state)
  BY OnePerIs DEF IInv, Typed, Handed, StartStep
<1>2. /\ Len(state.actions) \in Nat /\ Len(state.decisions) \in Nat
      /\ Len(state'.actions) \in Nat /\ Len(state'.decisions) \in Nat
  BY <1>1, WellIs
<1>3. /\ Calm(state, state') /\ Put(state.actions, state'.actions, a, d, g, "started")
      /\ calls' = [calls EXCEPT ![c] = [calls[c] EXCEPT !.at = "executing"]] /\ spent' = spent
  BY DEF StartStep
<1>4. /\ \A b \in Calls : b # c => calls'[b] = calls[b] /\ (calls[b].at # "idle" => calls[b].action # a)
      /\ calls'[c] \in Call /\ calls'[c].at = "executing" /\ calls'[c].action = a /\ calls'[c].decision = d
      /\ calls'[c].gateway = g /\ calls \in [Calls -> Call]
  BY <1>1, <1>3 DEF IInv, Typed, OwnActions, Call
<1> HIDE DEF a, d, g
<1>5. /\ Len(state'.actions) = Len(state.actions) /\ Len(state'.decisions) = Len(state.decisions)
      /\ state'.actions[a].decision = d /\ state'.actions[a].gateway = g
      /\ \A x \in 1..Len(state.actions) : x # a => state'.actions[x] = state.actions[x]
  BY <1>1, <1>2, <1>3 DEF Put, Calm
<1>6. Typed'
  BY <1>1, <1>3, <1>5, <1>4 DEF IInv, Typed
<1>0. a > spent.done /\ state.actions[a].decision = d /\ g \in Executor
  BY <1>1 DEF IInv, Handed, a, d, g
<1>7. Handed'
  BY <1>0, <1>1, <1>3, <1>4, <1>5 DEF IInv, Handed
<1>8. OwnActions'
  <2>1. ASSUME NEW x \in Calls, NEW y \in Calls, x # y, calls'[x].at # "idle", calls'[y].at # "idle"
        PROVE  calls'[x].action # calls'[y].action
    <3>1. CASE x = c
      BY <1>4, <2>1, <3>1
    <3>2. CASE y = c
      BY <1>4, <2>1, <3>2
    <3>3. CASE x # c /\ y # c
      <4>1. calls'[x] = calls[x] /\ calls'[y] = calls[y]
        BY <1>4, <3>3
      <4> QED BY <2>1, <4>1 DEF IInv, OwnActions
    <3> QED BY <3>1, <3>2, <3>3
  <2> QED BY <2>1 DEF OwnActions
<1>9. PendingHasOwner'
  <2>1. ASSUME NEW x \in 1..Len(state'.decisions), state'.decisions[x].status = "pending"
        PROVE  Owned(x)'
    <3>1. /\ x \in 1..Len(state.decisions) /\ state.decisions[x].status = "pending"
          /\ state'.decisions[x].origin = state.decisions[x].origin
      BY <1>3, <1>5, <2>1 DEF Calm
    <3>2. Owned(x)
      BY <1>1, <3>1, OwnersAre DEF IInv
    <3>3. CASE state.decisions[x].origin \in Later /\ \A y \in 1..Len(state.actions) : state.actions[y].decision # x
      <4>1. \A y \in 1..Len(state'.actions) : state'.actions[y].decision # x
        BY <1>0, <1>1, <1>5, <3>3
      <4> QED BY <3>1, <3>3, <4>1 DEF Owned
    <3>4. CASE x <= spent.left
      BY <1>3, <3>4 DEF Owned
    <3>5. ASSUME NEW b \in Calls, calls[b].decision = x PROVE Owned(x)'
      <4>1. calls'[b].decision = x
        BY <1>4, <3>5 DEF d
      <4> QED BY <4>1 DEF Owned
    <3> QED BY <3>2, <3>3, <3>4, <3>5 DEF Owned
  <2> QED BY <1>1, <2>1, OwnersNext
<1>10. OneDecisionPerIntent'
  BY <1>1, <1>3, CalmKeepsOne, OnePerNext
<1> QED BY <1>6, <1>7, <1>8, <1>9, <1>10 DEF IInv

\* A call that begins with a decision, or does not.
LEMMA WaitingIs ==
  ASSUME NEW s, NEW d, NEW g, NEW refused \in BOOLEAN
  PROVE  /\ refused => Waiting(s, d, g, refused) = Idle
         /\ ~refused => Waiting(s, d, g, refused) =
                          [at |-> "waiting", decision |-> d, action |-> Len(s.actions) + 1, gateway |-> g]
BY DEF Waiting

LEMMA ExecuteKeeps ==
  ASSUME IInv, NEW c \in Calls, NEW d \in Nat, NEW g \in Gateway, NEW refused \in BOOLEAN,
         ExecuteStep(c, d, g, refused)
  PROVE  IInv'
<1> DEFINE a == Len(state.actions) + 1
           call == Waiting(state, d, g, refused)
<1>1. /\ Well(state) /\ Well(state') /\ OnePer(state) /\ calls[c].at = "idle" /\ calls[c] = Idle
      /\ d \in Pending(state)
  BY OnePerIs DEF IInv, Typed, Handed, ExecuteStep, Known
<1>2. /\ Len(state.actions) \in Nat /\ Len(state.decisions) \in Nat
      /\ Len(state'.actions) \in Nat /\ Len(state'.decisions) \in Nat
      /\ d \in 1..Len(state.decisions)
  BY <1>1, WellIs, PendingIs
<1>3. /\ Calm(state, state')
      /\ refused => state'.decisions[d].status # "pending"
      /\ Put(state.actions, state'.actions, a, d, g, IF refused THEN "failed" ELSE "planned")
      /\ calls' = [calls EXCEPT ![c] = call] /\ spent' = spent
  BY DEF ExecuteStep
<1>4. /\ \A b \in Calls : b # c => calls'[b] = calls[b]
      /\ calls'[c] = call /\ calls \in [Calls -> Call]
  BY <1>1, <1>3 DEF IInv, Typed
<1>5. /\ Len(state'.actions) = a /\ Len(state'.decisions) = Len(state.decisions)
      /\ state'.actions[a].decision = d /\ state'.actions[a].gateway = g
      /\ \A x \in 1..Len(state.actions) : state'.actions[x] = state.actions[x]
  <2>1. \A x \in 1..Len(state.actions) : x # a
    BY <1>2
  <2> QED BY <1>2, <1>3, <2>1 DEF Put, Calm
<1>6. /\ refused => call = Idle
      /\ ~refused => call = [at |-> "waiting", decision |-> d, action |-> a, gateway |-> g]
  BY WaitingIs
<1>g. g \in Executor
  BY DEF Executor
<1>7. call \in Call
  BY <1>2, <1>6, <1>g, IdleIs DEF Call
<1> HIDE DEF a, call
<1>a. a \in Nat /\ a = Len(state.actions) + 1
  BY <1>2 DEF a
<1>8. Typed'
  <2>1. calls' \in [Calls -> Call]
    BY <1>3, <1>4, <1>7
  <2>2. /\ spent \in [crashes : Nat, completes : Nat, left : 0..Len(state.decisions), done : 0..Len(state.actions)]
        /\ 0..Len(state.actions) \subseteq 0..a
    BY <1>a, <1>2 DEF IInv, Typed
  <2> QED BY <1>1, <1>3, <1>5, <2>1, <2>2 DEF Typed
<1>9. ASSUME NEW b \in Calls, b # c, calls[b].at # "idle"
      PROVE  /\ calls[b].decision \in 1..Len(state.decisions)
             /\ calls[b].action \in 1..Len(state.actions) /\ calls[b].action > spent.done
             /\ state.actions[calls[b].action].decision = calls[b].decision
             /\ state.actions[calls[b].action].gateway = calls[b].gateway /\ calls[b].gateway \in Executor
             /\ calls[b].action \in 1..a /\ calls[b].action # a
  BY <1>9, <1>a, <1>2 DEF IInv, Handed
<1>10. spent.done < a /\ a \in 1..a
  BY <1>a, <1>2 DEF IInv, Typed
<1>11. Handed'
  <2>1. ASSUME NEW b \in Calls, b # c
        PROVE  IF calls'[b].at = "idle" THEN calls'[b] = Idle
               ELSE /\ calls'[b].decision \in 1..Len(state'.decisions)
                    /\ calls'[b].action \in 1..Len(state'.actions) /\ calls'[b].action > spent'.done
                    /\ state'.actions[calls'[b].action].decision = calls'[b].decision
                    /\ state'.actions[calls'[b].action].gateway = calls'[b].gateway
                    /\ calls'[b].gateway \in Executor
    <3>1. CASE calls[b].at = "idle"
      BY <1>4, <2>1, <3>1 DEF IInv, Handed
    <3>2. CASE calls[b].at # "idle"
      BY <1>3, <1>4, <1>5, <1>9, <2>1, <3>2
    <3> QED BY <3>1, <3>2
  <2>2. IF calls'[c].at = "idle" THEN calls'[c] = Idle
        ELSE /\ calls'[c].decision \in 1..Len(state'.decisions)
             /\ calls'[c].action \in 1..Len(state'.actions) /\ calls'[c].action > spent'.done
             /\ state'.actions[calls'[c].action].decision = calls'[c].decision
             /\ state'.actions[calls'[c].action].gateway = calls'[c].gateway /\ calls'[c].gateway \in Executor
    <3>1. CASE refused
      BY <1>4, <1>6, <3>1, IdleIs
    <3>2. CASE ~refused
      BY <1>2, <1>3, <1>4, <1>5, <1>6, <1>g, <1>10, <3>2
    <3> QED BY <3>1, <3>2
  <2> QED BY <2>1, <2>2 DEF Handed
<1>12. OwnActions'
  <2>1. ASSUME NEW b \in Calls, b # c, calls'[b].at # "idle", calls'[c].at # "idle"
        PROVE  calls'[b].action # calls'[c].action
    <3>1. ~refused /\ calls'[c].action = a
      BY <1>4, <1>6, <2>1, IdleIs
    <3> QED BY <1>4, <1>9, <2>1, <3>1
  <2> QED BY <1>4, <2>1 DEF IInv, OwnActions
<1>13. PendingHasOwner'
  <2>1. ASSUME NEW x \in 1..Len(state'.decisions), state'.decisions[x].status = "pending"
        PROVE  Owned(x)'
    <3>1. /\ x \in 1..Len(state.decisions) /\ state.decisions[x].status = "pending"
          /\ state'.decisions[x].origin = state.decisions[x].origin
      BY <1>3, <1>5, <2>1 DEF Calm
    <3>2. Owned(x)
      BY <1>1, <3>1, OwnersAre DEF IInv
    <3>0. CASE x = d
      <4>1. ~refused /\ calls'[c].decision = d
        BY <1>3, <1>4, <1>6, <2>1, <3>0
      <4> QED BY <4>1, <3>0 DEF Owned
    <3>3. CASE x # d /\ state.decisions[x].origin \in Later /\ \A y \in 1..Len(state.actions) : state.actions[y].decision # x
      <4>1. \A y \in 1..Len(state'.actions) : state'.actions[y].decision # x
        <5>1. ASSUME NEW y \in 1..Len(state'.actions) PROVE state'.actions[y].decision # x
          <6>1. y = a \/ y \in 1..Len(state.actions)
            BY <1>2, <1>5, <1>a
          <6>2. CASE y = a
            BY <1>5, <3>3, <6>2
          <6>3. CASE y \in 1..Len(state.actions)
            BY <1>5, <3>3, <6>3
          <6> QED BY <6>1, <6>2, <6>3
        <5> QED BY <5>1
      <4> QED BY <3>1, <3>3, <4>1 DEF Owned
    <3>4. CASE x <= spent.left
      BY <1>3, <3>4 DEF Owned
    <3>5. ASSUME NEW b \in Calls, calls[b].decision = x PROVE Owned(x)'
      <4>1. b # c
        BY <1>1, <3>1, <3>5, IdleIs
      <4> QED BY <1>4, <3>5, <4>1 DEF Owned
    <3> QED BY <3>0, <3>2, <3>3, <3>4, <3>5 DEF Owned
  <2> QED BY <1>1, <2>1, OwnersNext
<1>14. OneDecisionPerIntent'
  BY <1>1, <1>3, CalmKeepsOne, OnePerNext
<1> QED BY <1>8, <1>11, <1>12, <1>13, <1>14 DEF IInv

\* What becomes of the decisions when one is recorded and others end.
LEMMA OpenedNext ==
  ASSUME Well(state), OnePer(state), NEW p \in Path, NEW intent \in Path \cup {None}, NEW origin \in Origin,
         intent = None \/ Fresh(state, intent),
         Well(state'), Calm(Opened(state, p, intent, origin), state')
  PROVE  /\ Len(state'.decisions) = Len(state.decisions) + 1
         /\ OnePer(state')
         /\ state'.decisions[Len(state.decisions) + 1].origin = origin
         /\ \A x \in 1..Len(state.decisions) :
              /\ state'.decisions[x].origin = state.decisions[x].origin
              /\ state'.decisions[x].status = "pending" => state.decisions[x].status = "pending"
<1> DEFINE u == Opened(state, p, intent, origin)
           D == Len(state.decisions)
<1>1. OnePer(u)
  BY OpenedKeepsOne
<1>a. D \in Nat /\ Len(u.decisions) = D + 1
  BY OpenedIs
<1>b. \A x \in 1..D : u.decisions[x] = state.decisions[x]
  BY OpenedIs
<1>c. u.decisions[D + 1] = [path |-> p, intent |-> intent, origin |-> origin, status |-> "pending"]
  BY OpenedIs
<1> HIDE DEF u
<1>2. Calm(u, state')
  BY DEF u
<1>3. OnePer(state')
  BY <1>1, <1>2, CalmKeepsOne
<1>4. u.decisions[D + 1].origin = origin
  BY <1>c
<1>5. D + 1 \in 1..(D + 1) /\ \A x \in 1..D : x \in 1..(D + 1)
  BY <1>a
<1> HIDE DEF D
<1>6. Len(state'.decisions) = D + 1 /\ state'.decisions[D + 1].origin = origin
  BY <1>2, <1>4, <1>5, <1>a DEF Calm
<1>7. ASSUME NEW x \in 1..D
      PROVE  /\ state'.decisions[x].origin = state.decisions[x].origin
             /\ state'.decisions[x].status = "pending" => state.decisions[x].status = "pending"
  BY <1>2, <1>5, <1>a, <1>b DEF Calm
<1> QED BY <1>3, <1>6, <1>7 DEF D

LEMMA RunKeeps ==
  ASSUME IInv, NEW c \in Calls, NEW p \in Path, NEW intent \in Path \cup {None}, NEW origin \in Origin,
         NEW g \in Executor, NEW refused \in BOOLEAN,
         RunStep(c, p, intent, origin, g, refused)
  PROVE  IInv'
<1> DEFINE a == Len(state.actions) + 1
           d == Len(state.decisions) + 1
           call == Waiting(state, d, g, refused)
<1>1. /\ Well(state) /\ Well(state') /\ OnePer(state) /\ calls[c].at = "idle" /\ calls[c] = Idle
      /\ intent = None \/ Fresh(state, intent)
  BY OnePerIs DEF IInv, Typed, Handed, RunStep
<1>2. /\ Len(state.actions) \in Nat /\ Len(state.decisions) \in Nat
      /\ Len(state'.actions) \in Nat /\ Len(state'.decisions) \in Nat
      /\ \A y \in 1..Len(state.actions) : state.actions[y].decision \in 1..Len(state.decisions)
  BY <1>1, WellIs
<1>3. /\ Calm(Opened(state, p, intent, origin), state')
      /\ refused => state'.decisions[d].status # "pending"
      /\ Put(state.actions, state'.actions, a, d, g, IF refused THEN "failed" ELSE "planned")
      /\ calls' = [calls EXCEPT ![c] = call] /\ spent' = spent
  BY DEF RunStep
<1>4. /\ \A b \in Calls : b # c => calls'[b] = calls[b]
      /\ calls'[c] = call /\ calls \in [Calls -> Call]
  BY <1>1, <1>3 DEF IInv, Typed
<1>0. /\ Len(state'.decisions) = d /\ OnePer(state')
      /\ \A x \in 1..Len(state.decisions) :
              /\ state'.decisions[x].origin = state.decisions[x].origin
              /\ state'.decisions[x].status = "pending" => state.decisions[x].status = "pending"
  BY <1>1, <1>3, OpenedNext
<1>5. /\ Len(state'.actions) = a /\ state'.actions[a].decision = d /\ state'.actions[a].gateway = g
      /\ \A x \in 1..Len(state.actions) : state'.actions[x] = state.actions[x]
  <2>1. \A x \in 1..Len(state.actions) : x # a
    BY <1>2
  <2> QED BY <1>2, <1>3, <2>1 DEF Put
<1>6. /\ refused => call = Idle
      /\ ~refused => call = [at |-> "waiting", decision |-> d, action |-> a, gateway |-> g]
  BY WaitingIs
<1>7. call \in Call
  BY <1>2, <1>6, IdleIs DEF Call
<1> HIDE DEF a, d, call
<1>a. a \in Nat /\ a = Len(state.actions) + 1 /\ d \in Nat /\ d = Len(state.decisions) + 1 /\ d # 0
  BY <1>2 DEF a, d
<1>8. Typed'
  <2>1. calls' \in [Calls -> Call]
    BY <1>3, <1>4, <1>7
  <2>2. /\ spent \in [crashes : Nat, completes : Nat, left : 0..Len(state.decisions), done : 0..Len(state.actions)]
        /\ 0..Len(state.actions) \subseteq 0..a /\ 0..Len(state.decisions) \subseteq 0..d
    BY <1>a, <1>2 DEF IInv, Typed
  <2> QED BY <1>0, <1>1, <1>3, <1>5, <2>1, <2>2 DEF Typed
<1>9. ASSUME NEW b \in Calls, b # c, calls[b].at # "idle"
      PROVE  /\ calls[b].decision \in 1..d
             /\ calls[b].action \in 1..Len(state.actions) /\ calls[b].action > spent.done
             /\ state.actions[calls[b].action].decision = calls[b].decision
             /\ state.actions[calls[b].action].gateway = calls[b].gateway /\ calls[b].gateway \in Executor
             /\ calls[b].action \in 1..a /\ calls[b].action # a
  BY <1>9, <1>a, <1>2 DEF IInv, Handed
<1>10. spent.done < a /\ a \in 1..a /\ d \in 1..d
  BY <1>a, <1>2 DEF IInv, Typed
<1>11. Handed'
  <2>1. ASSUME NEW b \in Calls, b # c
        PROVE  IF calls'[b].at = "idle" THEN calls'[b] = Idle
               ELSE /\ calls'[b].decision \in 1..Len(state'.decisions)
                    /\ calls'[b].action \in 1..Len(state'.actions) /\ calls'[b].action > spent'.done
                    /\ state'.actions[calls'[b].action].decision = calls'[b].decision
                    /\ state'.actions[calls'[b].action].gateway = calls'[b].gateway
                    /\ calls'[b].gateway \in Executor
    <3>1. CASE calls[b].at = "idle"
      BY <1>4, <2>1, <3>1 DEF IInv, Handed
    <3>2. CASE calls[b].at # "idle"
      BY <1>0, <1>3, <1>4, <1>5, <1>9, <2>1, <3>2
    <3> QED BY <3>1, <3>2
  <2>2. IF calls'[c].at = "idle" THEN calls'[c] = Idle
        ELSE /\ calls'[c].decision \in 1..Len(state'.decisions)
             /\ calls'[c].action \in 1..Len(state'.actions) /\ calls'[c].action > spent'.done
             /\ state'.actions[calls'[c].action].decision = calls'[c].decision
             /\ state'.actions[calls'[c].action].gateway = calls'[c].gateway /\ calls'[c].gateway \in Executor
    <3>1. CASE refused
      BY <1>4, <1>6, <3>1, IdleIs
    <3>2. CASE ~refused
      BY <1>0, <1>2, <1>3, <1>4, <1>5, <1>6, <1>10, <3>2
    <3> QED BY <3>1, <3>2
  <2> QED BY <2>1, <2>2 DEF Handed
<1>12. OwnActions'
  <2>1. ASSUME NEW b \in Calls, b # c, calls'[b].at # "idle", calls'[c].at # "idle"
        PROVE  calls'[b].action # calls'[c].action
    <3>1. ~refused /\ calls'[c].action = a
      BY <1>4, <1>6, <2>1, IdleIs
    <3> QED BY <1>4, <1>9, <2>1, <3>1
  <2> QED BY <1>4, <2>1 DEF IInv, OwnActions
<1>13. PendingHasOwner'
  <2>1. ASSUME NEW x \in 1..Len(state'.decisions), state'.decisions[x].status = "pending"
        PROVE  Owned(x)'
    <3>0. CASE x = d
      <4>1. ~refused /\ calls'[c].decision = d
        BY <1>3, <1>4, <1>6, <2>1, <3>0
      <4> QED BY <4>1, <3>0 DEF Owned
    <3>1. CASE x # d
      <4>1. /\ x \in 1..Len(state.decisions) /\ state.decisions[x].status = "pending"
            /\ state'.decisions[x].origin = state.decisions[x].origin
        BY <1>0, <1>2, <1>a, <2>1, <3>1
      <4>2. Owned(x)
        BY <1>1, <4>1, OwnersAre DEF IInv
      <4>3. CASE state.decisions[x].origin \in Later /\ \A y \in 1..Len(state.actions) : state.actions[y].decision # x
        <5>1. ASSUME NEW y \in 1..Len(state'.actions) PROVE state'.actions[y].decision # x
          <6>1. y = a \/ y \in 1..Len(state.actions)
            BY <1>2, <1>5, <1>a
          <6>2. CASE y = a
            BY <1>5, <3>1, <6>2
          <6>3. CASE y \in 1..Len(state.actions)
            BY <1>5, <4>3, <6>3
          <6> QED BY <6>1, <6>2, <6>3
        <5> QED BY <4>1, <4>3, <5>1 DEF Owned
      <4>4. CASE x <= spent.left
        BY <1>3, <4>4 DEF Owned
      <4>5. ASSUME NEW b \in Calls, calls[b].decision = x PROVE Owned(x)'
        <5>1. b # c
          BY <1>1, <4>1, <4>5, IdleIs
        <5> QED BY <1>4, <4>5, <5>1 DEF Owned
      <4> QED BY <4>2, <4>3, <4>4, <4>5 DEF Owned
    <3> QED BY <3>0, <3>1
  <2> QED BY <1>1, <2>1, OwnersNext
<1>14. OneDecisionPerIntent'
  BY <1>0, <1>1, OnePerNext
<1> QED BY <1>8, <1>11, <1>12, <1>13, <1>14 DEF IInv

LEMMA PlanKeeps ==
  ASSUME IInv, NEW c \in Calls, NEW p \in Path, NEW origin \in Later, PlanStep(c, p, origin)
  PROVE  IInv'
<1> DEFINE d == Len(state.decisions) + 1
<1>1. /\ Well(state) /\ Well(state') /\ OnePer(state) /\ calls[c].at = "idle" /\ calls[c] = Idle
      /\ calls \in [Calls -> Call]
  BY OnePerIs DEF IInv, Typed, Handed, PlanStep
<1>2. /\ Len(state.actions) \in Nat /\ Len(state.decisions) \in Nat
      /\ \A y \in 1..Len(state.actions) : state.actions[y].decision \in 1..Len(state.decisions)
  BY <1>1, WellIs
<1>3. /\ Calm(Opened(state, p, None, origin), state') /\ state'.actions = state.actions
      /\ calls' = [calls EXCEPT ![c] = Idle] /\ spent' = spent
  BY DEF PlanStep
<1>4. calls' = calls
  BY <1>1, <1>3
<1>a. origin \in Origin /\ None \in Path \cup {None}
  BY DEF Origin, Later
<1>0. /\ Len(state'.decisions) = d /\ OnePer(state')
      /\ state'.decisions[d].origin = origin
      /\ \A x \in 1..Len(state.decisions) :
              /\ state'.decisions[x].origin = state.decisions[x].origin
              /\ state'.decisions[x].status = "pending" => state.decisions[x].status = "pending"
  BY <1>1, <1>3, <1>a, OpenedNext
<1>5. 0..Len(state.decisions) \subseteq 0..d /\ 1..Len(state.decisions) \subseteq 1..d
  BY <1>2
<1>6. \A x \in 1..d : x # d => x \in 1..Len(state.decisions)
  BY <1>2
<1>7. \A y \in 1..Len(state.actions) : state.actions[y].decision # d
  BY <1>2
<1> HIDE DEF d
<1>8. Typed'
  BY <1>0, <1>1, <1>3, <1>4, <1>5 DEF IInv, Typed
<1>9. Handed'
  BY <1>0, <1>3, <1>4, <1>5 DEF IInv, Handed
<1>10. OwnActions'
  BY <1>4 DEF IInv, OwnActions
<1>11. PendingHasOwner'
  <2>1. ASSUME NEW x \in 1..Len(state'.decisions), state'.decisions[x].status = "pending"
        PROVE  Owned(x)'
    <3>1. CASE x = d
      BY <1>0, <1>3, <1>7, <3>1 DEF Owned, Later
    <3>2. CASE x # d
      <4>1. /\ x \in 1..Len(state.decisions) /\ state.decisions[x].status = "pending"
            /\ state'.decisions[x].origin = state.decisions[x].origin
        BY <1>0, <1>6, <2>1, <3>2
      <4>2. Owned(x)
        BY <1>1, <4>1, OwnersAre DEF IInv
      <4> QED BY <1>3, <1>4, <4>1, <4>2 DEF Owned
    <3> QED BY <3>1, <3>2
  <2> QED BY <1>1, <2>1, OwnersNext
<1>12. OneDecisionPerIntent'
  BY <1>0, <1>1, OnePerNext
<1> QED BY <1>8, <1>9, <1>10, <1>11, <1>12 DEF IInv

LEMMA CompleteKeeps ==
  ASSUME IInv, CompleteStep
  PROVE  IInv'
<1>1. /\ Well(state) /\ Well(state') /\ OnePer(state) /\ Calm(state, state') /\ state'.actions = state.actions
      /\ calls' = calls /\ spent' = [spent EXCEPT !.completes = @ + 1]
  BY OnePerIs DEF IInv, Typed, CompleteStep
<1>2. Len(state'.decisions) = Len(state.decisions)
  BY <1>1 DEF Calm
<1>3. /\ spent' \in [crashes : Nat, completes : Nat, left : 0..Len(state.decisions), done : 0..Len(state.actions)]
      /\ spent'.left = spent.left /\ spent'.done = spent.done
  BY <1>1 DEF IInv, Typed
<1>4. Typed'
  BY <1>1, <1>2, <1>3 DEF IInv, Typed
<1>5. Handed'
  BY <1>1, <1>2, <1>3 DEF IInv, Handed
<1>6. OwnActions'
  BY <1>1 DEF IInv, OwnActions
<1>7. PendingHasOwner'
  <2>1. ASSUME NEW x \in 1..Len(state'.decisions), state'.decisions[x].status = "pending"
        PROVE  Owned(x)'
    <3>1. /\ x \in 1..Len(state.decisions) /\ state.decisions[x].status = "pending"
          /\ state'.decisions[x].origin = state.decisions[x].origin
      BY <1>1, <1>2, <2>1 DEF Calm
    <3>2. Owned(x)
      BY <1>1, <3>1, OwnersAre DEF IInv
    <3> QED BY <1>1, <1>3, <3>1, <3>2 DEF Owned
  <2> QED BY <1>1, <2>1, OwnersNext
<1>8. OneDecisionPerIntent'
  BY <1>1, CalmKeepsOne, OnePerNext
<1> QED BY <1>4, <1>5, <1>6, <1>7, <1>8 DEF IInv

LEMMA InitHolds ==
  ASSUME Init
  PROVE  IInv
<1>1. /\ state.decisions = <<>> /\ state.actions = <<>>
      /\ calls = [c \in Calls |-> Idle]
      /\ spent = [crashes |-> 0, completes |-> 0, left |-> 0, done |-> 0]
  BY DEF Init
<1>2. Well(state)
  <2> DEFINE all == [p \in Path |-> [from |-> None, status |-> "none"]]
  <2>1. all \in [Path -> [from : Source, status : IntentStatus]]
    BY DEF Source, IntentStatus
  <2>2. state = [decisions |-> <<>>, actions |-> <<>>, blocked |-> {}, decisionsUsed |-> 0,
                 toolCallsUsed |-> 0, intents |-> all]
    BY DEF Init
  <2> HIDE DEF all
  <2>3. <<>> \in Seq(Decision) /\ <<>> \in Seq(Action) /\ {} \in SUBSET Path
    OBVIOUS
  <2>4. state \in States
    BY <2>1, <2>2, <2>3 DEF States
  <2> QED BY <1>1, <2>4 DEF Well
<1>3. Len(state.decisions) = 0 /\ Len(state.actions) = 0 /\ DOMAIN state.decisions = {} /\ DOMAIN state.actions = {}
  BY <1>1
<1>4. Typed
  BY <1>1, <1>2, <1>3, IdleIs DEF Typed
<1>5. Handed /\ OwnActions
  BY <1>1, IdleIs DEF Handed, OwnActions
<1>6. OneDecisionPerIntent /\ PendingHasOwner
  BY <1>3 DEF OneDecisionPerIntent, PendingHasOwner, Pending
<1> QED BY <1>4, <1>5, <1>6 DEF IInv

LEMMA NextKeeps ==
  ASSUME IInv, [Next]_vars
  PROVE  IInv'
<1>1. CASE UNCHANGED vars
  BY <1>1 DEF vars, IInv, Typed, Handed, OwnActions, OneDecisionPerIntent, PendingHasOwner, Pending
<1>2. CASE Next
  <2>1. Typed /\ Handed /\ OneDecisionPerIntent
    BY DEF IInv
  <2>2. ASSUME NEW c \in Calls, NEW st \in {"succeeded", "failed"}, FinishStep(c, st) PROVE IInv'
    BY <2>2, FinishKeeps
  <2>3. ASSUME NEW c \in Calls, StartStep(c) PROVE IInv'
    BY <2>3, StartKeeps
  <2>4. ASSUME NEW c \in Calls, NEW d \in Nat, NEW g \in Gateway, NEW refused \in BOOLEAN,
               ExecuteStep(c, d, g, refused)
        PROVE  IInv'
    BY <2>4, ExecuteKeeps
  <2>5. ASSUME NEW c \in Calls, NEW p \in Path, NEW intent \in Path \cup {None}, NEW origin \in Origin,
               NEW g \in Executor, NEW refused \in BOOLEAN, RunStep(c, p, intent, origin, g, refused)
        PROVE  IInv'
    BY <2>5, RunKeeps
  <2>6. ASSUME NEW c \in Calls, NEW p \in Path, NEW origin \in Later, PlanStep(c, p, origin) PROVE IInv'
    BY <2>6, PlanKeeps
  <2>7. ASSUME CompleteStep PROVE IInv'
    BY <2>7, CompleteKeeps
  <2>8. ASSUME EndStep PROVE IInv'
    BY <2>1, <2>8, EndKeeps
  <2>9. \/ \E c \in Calls, st \in {"succeeded", "failed"} : FinishStep(c, st)
        \/ \E c \in Calls : StartStep(c)
        \/ \E c \in Calls, d \in Nat, g \in Gateway, refused \in BOOLEAN : ExecuteStep(c, d, g, refused)
        \/ \E c \in Calls, p \in Path, intent \in Path \cup {None}, origin \in Origin, g \in Executor,
              refused \in BOOLEAN : RunStep(c, p, intent, origin, g, refused)
        \/ \E c \in Calls, p \in Path, origin \in Later : PlanStep(c, p, origin)
        \/ CompleteStep
        \/ EndStep
    BY <1>2, <2>1, NextIs
  <2> QED BY <2>2, <2>3, <2>4, <2>5, <2>6, <2>7, <2>8, <2>9
<1> QED BY <1>1, <1>2

LEMMA TypedMeansTypeOK ==
  ASSUME Typed
  PROVE  TypeOK
<1>1. /\ state \in States /\ calls \in [Calls -> Call]
      /\ DOMAIN state.decisions = 1..Len(state.decisions)
      /\ \A a \in DOMAIN state.actions : state.actions[a].decision \in DOMAIN state.decisions
      /\ state.decisions \in Seq(Decision) /\ state.actions \in Seq(Action)
  BY DEF Typed, Well, States
<1>2. \A d \in DOMAIN state.decisions : state.decisions[d] \in Decision
  BY <1>1
<1>3. \A a \in DOMAIN state.actions : state.actions[a] \in Action
  BY <1>1
<1>4. state.blocked \subseteq Path /\ \A p \in Path : state.intents[p].status \in IntentStatus
  BY <1>1 DEF States
<1>5. \A c \in Calls : calls[c].at \in {"idle", "waiting", "executing"}
  BY <1>1 DEF Call
<1> QED BY <1>1, <1>2, <1>3, <1>4, <1>5 DEF TypeOK, Decision, Action, Executor, ActionStatus, IntentStatus

LEMMA InvariantHolds == Spec => []IInv
<1>1. Init => IInv
  BY InitHolds
<1>2. IInv /\ [Next]_vars => IInv'
  BY NextKeeps
<1> QED BY <1>1, <1>2, PTL DEF Spec

\* The state that the events make keeps its types, and so do the calls (applySecurityEvent).
THEOREM TypeCorrect == Spec => []TypeOK
<1>1. IInv => TypeOK
  BY TypedMeansTypeOK DEF IInv
<1> QED BY <1>1, InvariantHolds, PTL

\* An intent has at most one pending decision (branchStartBlockReason), also when a fact that
\* is found again opens a claimed intent, and whichever events of a section a crash loses.
THEOREM IntentsHaveOneDecision == Spec => []OneDecisionPerIntent
<1>1. IInv => OneDecisionPerIntent
  BY DEF IInv
<1> QED BY <1>1, InvariantHolds, PTL

\* A pending decision is being executed, or waits for its first execution, or was left by
\* a process that has ended (finishDecision): for any number of calls, paths, gateways,
\* decisions and crashes, and whatever budgets there are.
THEOREM DecisionsAreOwned == Spec => []PendingHasOwner
<1>1. IInv => PendingHasOwner
  BY DEF IInv
<1> QED BY <1>1, InvariantHolds, PTL

-----------------------------------------------------------------------------
(* A gateway executes a decision once in a process.                        *)

\* Which decision a call or an action is of, and of which gateway.
Of(x) == [decision |-> x.decision, gateway |-> x.gateway]

\* A gateway has a decision in the hand of one call.
OwnDecisions ==
  \A b, c \in Calls : calls[b].at # "idle" /\ calls[c].at # "idle" /\ Of(calls[b]) = Of(calls[c]) => b = c

\* An action that has started belongs to a call.
StartedHeld ==
  \A a \in 1..Len(state.actions) : a > spent.done /\ state.actions[a].status = "started" =>
    \E c \in Calls : calls[c].at # "idle" /\ calls[c].action = a

\* A decision is over, and out of the hands of its gateway, when an action of it has succeeded.
SucceededIsOver ==
  \A a \in 1..Len(state.actions) : a > spent.done /\ state.actions[a].status = "succeeded" =>
    /\ state.decisions[state.actions[a].decision].status # "pending"
    /\ \A c \in Calls : calls[c].at # "idle" => Of(calls[c]) # Of(state.actions[a])

SucceededOnce ==
  \A a, b \in 1..Len(state.actions) :
    /\ a > spent.done /\ b > spent.done
    /\ state.actions[a].status = "succeeded" /\ state.actions[b].status = "succeeded"
    /\ Of(state.actions[a]) = Of(state.actions[b])
    => a = b

Once == OwnDecisions /\ StartedHeld /\ SucceededIsOver /\ SucceededOnce

LEMMA HandedOf ==
  ASSUME Handed, NEW c \in Calls, calls[c].at # "idle"
  PROVE  Of(calls[c]) = Of(state.actions[calls[c].action])
BY DEF Handed, Of

LEMMA PutOf ==
  ASSUME NEW xs, NEW ys, NEW a, NEW d, NEW g, NEW st, Put(xs, ys, a, d, g, st)
  PROVE  Of(ys[a]) = [decision |-> d, gateway |-> g]
BY DEF Put, Of

LEMMA OnceMeansExecutedOnce ==
  ASSUME IInv, Once
  PROVE  ExecutedOnce
<1>0. DOMAIN state.actions = 1..Len(state.actions)
  BY WellIs DEF IInv, Typed
<1>1. ASSUME NEW a \in 1..Len(state.actions), NEW b \in 1..Len(state.actions), a > spent.done, b > spent.done,
             Of(state.actions[a]) = Of(state.actions[b]),
             state.actions[a].status = "started", state.actions[b].status = "started"
      PROVE  a = b
  <2>1. PICK x \in Calls : calls[x].at # "idle" /\ calls[x].action = a
    BY <1>1 DEF Once, StartedHeld
  <2>2. PICK y \in Calls : calls[y].at # "idle" /\ calls[y].action = b
    BY <1>1 DEF Once, StartedHeld
  <2>3. Of(calls[x]) = Of(state.actions[a]) /\ Of(calls[y]) = Of(state.actions[b])
    BY <2>1, <2>2, HandedOf DEF IInv
  <2>4. x = y
    BY <1>1, <2>1, <2>2, <2>3 DEF Once, OwnDecisions
  <2> QED BY <2>1, <2>2, <2>4
<1>2. ASSUME NEW a \in 1..Len(state.actions), NEW b \in 1..Len(state.actions), a > spent.done, b > spent.done,
             Of(state.actions[a]) = Of(state.actions[b]),
             state.actions[a].status = "started", state.actions[b].status = "succeeded"
      PROVE  FALSE
  <2>1. PICK x \in Calls : calls[x].at # "idle" /\ calls[x].action = a
    BY <1>2 DEF Once, StartedHeld
  <2>2. Of(calls[x]) = Of(state.actions[a])
    BY <2>1, HandedOf DEF IInv
  <2> QED BY <1>2, <2>1, <2>2 DEF Once, SucceededIsOver
<1>3. ASSUME NEW a \in 1..Len(state.actions), NEW b \in 1..Len(state.actions), a > spent.done, b > spent.done,
             Of(state.actions[a]) = Of(state.actions[b]),
             state.actions[a].status = "succeeded", state.actions[b].status = "succeeded"
      PROVE  a = b
  BY <1>3 DEF Once, SucceededOnce
<1>4. \A x, y : {x, y} \subseteq {"started", "succeeded"} =>
        (x = "started" \/ x = "succeeded") /\ (y = "started" \/ y = "succeeded")
  OBVIOUS
<1>5. ASSUME NEW a \in 1..Len(state.actions), NEW b \in 1..Len(state.actions), a > spent.done, b > spent.done,
             Of(state.actions[a]) = Of(state.actions[b]),
             {state.actions[a].status, state.actions[b].status} \subseteq {"started", "succeeded"}
      PROVE  a = b
  BY <1>1, <1>2, <1>3, <1>4, <1>5
<1> QED BY <1>0, <1>5 DEF ExecutedOnce, BothExecute, Of

\* A call ends.
LEMMA FinishOnce ==
  ASSUME IInv, Once, NEW c \in Calls, NEW st \in {"succeeded", "failed"}, FinishStep(c, st)
  PROVE  Once'
<1> DEFINE a == calls[c].action
           d == calls[c].decision
           g == calls[c].gateway
           o == Of(calls[c])
<1>1. /\ a \in 1..Len(state.actions) /\ d \in 1..Len(state.decisions) /\ calls[c].at # "idle"
      /\ Well(state) /\ Well(state') /\ Of(state.actions[a]) = o
  BY HandedOf DEF IInv, Typed, Handed, FinishStep
<1>2. /\ Len(state.actions) \in Nat /\ Len(state.decisions) \in Nat
      /\ \A y \in 1..Len(state.actions) : state.actions[y].decision \in 1..Len(state.decisions)
  BY <1>1, WellIs
<1>3. /\ Calm(state, state') /\ state'.decisions[d].status # "pending"
      /\ Put(state.actions, state'.actions, a, d, g, st)
      /\ calls' = [calls EXCEPT ![c] = Idle] /\ spent' = spent
  BY DEF FinishStep
<1>4. /\ \A b \in Calls : b # c => calls'[b] = calls[b]
      /\ \A b \in Calls : b # c /\ calls[b].at # "idle" => Of(calls[b]) # o
      /\ calls'[c] = Idle
  BY <1>1, <1>3 DEF IInv, Typed, Once, OwnDecisions
<1>0. \A b \in Calls : calls'[b].at # "idle" => b # c /\ calls'[b] = calls[b] /\ Of(calls[b]) # o
  BY <1>4, IdleIs
<1> HIDE DEF a, d, g
<1>5. /\ Len(state'.actions) = Len(state.actions)
      /\ state'.actions[a].status = st /\ state'.actions[a].decision = d
      /\ \A x \in 1..Len(state.actions) : x # a => state'.actions[x] = state.actions[x]
  <2>1. a # Len(state.actions) + 1
    BY <1>1, <1>2
  <2>2. Len(state'.actions) = Len(state.actions)
    BY <1>3, <2>1 DEF Put
  <2>3. state'.actions[a] = [decision |-> d, gateway |-> g, status |-> st]
    BY <1>3 DEF Put
  <2>4. \A x \in 1..Len(state.actions) : x # a => state'.actions[x] = state.actions[x]
    BY <1>3 DEF Put
  <2> QED BY <2>2, <2>3, <2>4
<1>p. \A x \in 1..Len(state.decisions) : state'.decisions[x].status = "pending" => state.decisions[x].status = "pending"
  BY <1>3 DEF Calm
<1>o. Of(state'.actions[a]) = o
  <2>1. Of(state'.actions[a]) = [decision |-> d, gateway |-> g]
    BY <1>3, PutOf
  <2> QED BY <2>1 DEF Of, d, g
<1> HIDE DEF o
<1>6. OwnDecisions'
  BY <1>0 DEF Once, OwnDecisions
<1>8. StartedHeld'
  <2>1. ASSUME NEW x \in 1..Len(state'.actions), x > spent'.done, state'.actions[x].status = "started"
        PROVE  \E b \in Calls : calls'[b].at # "idle" /\ calls'[b].action = x
    <3>1. x # a /\ x \in 1..Len(state.actions) /\ state.actions[x].status = "started"
      BY <1>5, <2>1
    <3>2. PICK b \in Calls : calls[b].at # "idle" /\ calls[b].action = x
      BY <1>3, <2>1, <3>1 DEF Once, StartedHeld
    <3>3. b # c
      BY <3>1, <3>2 DEF a
    <3> QED BY <1>4, <3>2, <3>3
  <2> QED BY <2>1 DEF StartedHeld
<1>9. SucceededIsOver'
  <2>1. ASSUME NEW x \in 1..Len(state'.actions), x > spent'.done, state'.actions[x].status = "succeeded"
        PROVE  /\ state'.decisions[state'.actions[x].decision].status # "pending"
               /\ \A b \in Calls : calls'[b].at # "idle" => Of(calls'[b]) # Of(state'.actions[x])
    <3>1. CASE x = a
      BY <1>0, <1>3, <1>5, <1>o, <3>1
    <3>2. CASE x # a
      <4>1. x \in 1..Len(state.actions) /\ state'.actions[x] = state.actions[x]
        BY <1>5, <3>2
      <4>2. state.actions[x].decision \in 1..Len(state.decisions)
        BY <1>2, <4>1
      <4>3. /\ state.decisions[state.actions[x].decision].status # "pending"
            /\ \A b \in Calls : calls[b].at # "idle" => Of(calls[b]) # Of(state.actions[x])
        BY <1>3, <2>1, <4>1 DEF Once, SucceededIsOver
      <4> QED BY <1>0, <1>5, <1>p, <4>1, <4>2, <4>3
    <3> QED BY <3>1, <3>2
  <2> QED BY <2>1 DEF SucceededIsOver
<1>10. SucceededOnce'
  <2>0. \A x \in 1..Len(state.actions) : x > spent.done /\ state.actions[x].status = "succeeded" => Of(state.actions[x]) # o
    BY <1>1 DEF Once, SucceededIsOver, o
  <2>1. ASSUME NEW x \in 1..Len(state.actions), NEW y \in 1..Len(state.actions), x > spent.done, y > spent.done,
               state'.actions[x].status = "succeeded", state'.actions[y].status = "succeeded",
               Of(state'.actions[x]) = Of(state'.actions[y])
        PROVE  x = y
    <3>1. CASE x = a
      BY <1>5, <1>o, <2>0, <2>1, <3>1
    <3>2. CASE y = a
      BY <1>5, <1>o, <2>0, <2>1, <3>2
    <3>3. CASE x # a /\ y # a
      <4>1. state'.actions[x] = state.actions[x] /\ state'.actions[y] = state.actions[y]
        BY <1>5, <3>3
      <4> QED BY <2>1, <4>1 DEF Once, SucceededOnce
    <3> QED BY <3>1, <3>2, <3>3
  <2> QED BY <1>3, <1>5, <2>1 DEF SucceededOnce
<1> QED BY <1>6, <1>8, <1>9, <1>10 DEF Once

\* A call starts.
LEMMA StartOnce ==
  ASSUME IInv, Once, NEW c \in Calls, StartStep(c)
  PROVE  Once'
<1> DEFINE a == calls[c].action
           d == calls[c].decision
           g == calls[c].gateway
<1>1. /\ a \in 1..Len(state.actions) /\ d \in 1..Len(state.decisions) /\ calls[c].at # "idle"
      /\ Well(state) /\ Well(state') /\ state.actions[a].decision = d
  BY DEF IInv, Typed, Handed, StartStep
<1>2. /\ Len(state.actions) \in Nat /\ Len(state.decisions) \in Nat
      /\ \A y \in 1..Len(state.actions) : state.actions[y].decision \in 1..Len(state.decisions)
  BY <1>1, WellIs
<1>3. /\ Calm(state, state') /\ Put(state.actions, state'.actions, a, d, g, "started")
      /\ calls' = [calls EXCEPT ![c] = [calls[c] EXCEPT !.at = "executing"]] /\ spent' = spent
  BY DEF StartStep
<1>4. /\ \A b \in Calls : b # c => calls'[b] = calls[b]
      /\ calls \in [Calls -> Call]
  BY <1>1, <1>3 DEF IInv, Typed
<1>b. /\ calls'[c].at # "idle" /\ calls'[c].action = a /\ calls'[c].decision = d
      /\ calls'[c].gateway = calls[c].gateway
  BY <1>3, <1>4 DEF Call
<1>0. \A b \in Calls : calls'[b].at # "idle" =>
        /\ calls[b].at # "idle" /\ Of(calls'[b]) = Of(calls[b])
        /\ calls'[b].action = calls[b].action
  BY <1>1, <1>4, <1>b DEF Of
<1> HIDE DEF a, d, g
<1>5. /\ Len(state'.actions) = Len(state.actions)
      /\ state'.actions[a].status = "started"
      /\ \A x \in 1..Len(state.actions) : x # a => state'.actions[x] = state.actions[x]
      /\ \A x \in 1..Len(state.decisions) : state'.decisions[x].origin = state.decisions[x].origin
      /\ \A x \in 1..Len(state.decisions) : state'.decisions[x].status = "pending" => state.decisions[x].status = "pending"
  BY <1>1, <1>2, <1>3 DEF Put, Calm
<1>6. OwnDecisions'
  BY <1>0 DEF Once, OwnDecisions
<1>8. StartedHeld'
  <2>1. ASSUME NEW x \in 1..Len(state'.actions), x > spent'.done, state'.actions[x].status = "started"
        PROVE  \E b \in Calls : calls'[b].at # "idle" /\ calls'[b].action = x
    <3>1. CASE x = a
      BY <1>b, <3>1
    <3>2. CASE x # a
      <4>1. x \in 1..Len(state.actions) /\ state.actions[x].status = "started"
        BY <1>5, <2>1, <3>2
      <4>2. PICK b \in Calls : calls[b].at # "idle" /\ calls[b].action = x
        BY <1>3, <2>1, <4>1 DEF Once, StartedHeld
      <4>3. b # c
        BY <3>2, <4>2 DEF a
      <4> QED BY <1>4, <4>2, <4>3
    <3> QED BY <3>1, <3>2
  <2> QED BY <2>1 DEF StartedHeld
<1>c. \A x \in 1..Len(state.actions) : state'.actions[x].status = "succeeded" =>
        state'.actions[x] = state.actions[x] /\ state.actions[x].status = "succeeded"
  BY <1>5
<1>9. SucceededIsOver'
  <2>1. ASSUME NEW x \in 1..Len(state'.actions), x > spent'.done, state'.actions[x].status = "succeeded"
        PROVE  /\ state'.decisions[state'.actions[x].decision].status # "pending"
               /\ \A b \in Calls : calls'[b].at # "idle" => Of(calls'[b]) # Of(state'.actions[x])
    <3>1. x \in 1..Len(state.actions) /\ state'.actions[x] = state.actions[x] /\ state.actions[x].status = "succeeded"
      BY <1>5, <1>c, <2>1
    <3>2. state.actions[x].decision \in 1..Len(state.decisions)
      BY <1>2, <3>1
    <3>3. /\ state.decisions[state.actions[x].decision].status # "pending"
          /\ \A b \in Calls : calls[b].at # "idle" => Of(calls[b]) # Of(state.actions[x])
      BY <1>3, <2>1, <3>1 DEF Once, SucceededIsOver
    <3> QED BY <1>0, <1>5, <3>1, <3>2, <3>3
  <2> QED BY <2>1 DEF SucceededIsOver
<1>10. SucceededOnce'
  <2>1. ASSUME NEW x \in 1..Len(state.actions), NEW y \in 1..Len(state.actions), x > spent.done, y > spent.done,
               state'.actions[x].status = "succeeded", state'.actions[y].status = "succeeded",
               Of(state'.actions[x]) = Of(state'.actions[y])
        PROVE  x = y
    BY <1>c, <2>1 DEF Once, SucceededOnce
  <2> QED BY <1>3, <1>5, <2>1 DEF SucceededOnce
<1> QED BY <1>6, <1>8, <1>9, <1>10 DEF Once

\* A call begins with a decision that no other call has in hand, or it is refused.
LEMMA BeginOnce ==
  ASSUME IInv, Once, NEW c \in Calls, NEW d \in Nat, NEW g, NEW refused \in BOOLEAN,
         Put(state.actions, state'.actions, Len(state.actions) + 1, d, g, IF refused THEN "failed" ELSE "planned"),
         calls[c].at = "idle", calls' = [calls EXCEPT ![c] = Waiting(state, d, g, refused)], spent' = spent,
         \A b \in Calls : calls[b].at # "idle" => Of(calls[b]) # [decision |-> d, gateway |-> g],
         \A x \in 1..Len(state.actions) :
           x > spent.done /\ state.actions[x].status = "succeeded" => Of(state.actions[x]) # [decision |-> d, gateway |-> g],
         \A x \in 1..Len(state.decisions) :
           /\ state'.decisions[x].origin = state.decisions[x].origin
           /\ state'.decisions[x].status = "pending" => state.decisions[x].status = "pending"
  PROVE  Once'
<1> DEFINE a == Len(state.actions) + 1
           call == Waiting(state, d, g, refused)
           o == [decision |-> d, gateway |-> g]
           st == IF refused THEN "failed" ELSE "planned"
<1>1. Well(state) /\ calls \in [Calls -> Call] /\ Put(state.actions, state'.actions, a, d, g, st)
  BY DEF IInv, Typed
<1>2. /\ Len(state.actions) \in Nat /\ Len(state.decisions) \in Nat
      /\ \A y \in 1..Len(state.actions) : state.actions[y].decision \in 1..Len(state.decisions)
  BY <1>1, WellIs
<1>3. st # "started" /\ st # "succeeded"
  OBVIOUS
<1>4. /\ \A b \in Calls : b # c => calls'[b] = calls[b]
      /\ calls'[c] = call
  BY <1>1
<1>5. /\ refused => call = Idle
      /\ ~refused => call = [at |-> "waiting", decision |-> d, action |-> a, gateway |-> g]
  BY WaitingIs
<1>7. call.at # "idle" => Of(call) = o
  BY <1>5, IdleIs DEF Of
<1>o. /\ \A b \in Calls : calls[b].at # "idle" => Of(calls[b]) # o
      /\ \A x \in 1..Len(state.actions) :
           x > spent.done /\ state.actions[x].status = "succeeded" => Of(state.actions[x]) # o
  OBVIOUS
<1> HIDE DEF a, call, st, o
<1>a. a \in Nat /\ a = Len(state.actions) + 1
  BY <1>2 DEF a
<1>6. /\ Len(state'.actions) = a /\ state'.actions[a].status = st
      /\ \A x \in 1..Len(state.actions) : state'.actions[x] = state.actions[x]
      /\ \A x \in 1..a : x # a => x \in 1..Len(state.actions)
  <2>1. \A x \in 1..Len(state.actions) : x # a
    BY <1>a, <1>2
  <2>2. \A x \in 1..a : x # a => x \in 1..Len(state.actions)
    BY <1>a, <1>2
  <2> QED BY <1>1, <1>a, <2>1, <2>2 DEF Put
<1>c. \A x \in 1..a : state'.actions[x].status \in {"started", "succeeded"} =>
        x \in 1..Len(state.actions) /\ state'.actions[x] = state.actions[x]
  BY <1>3, <1>6
<1>8. OwnDecisions'
  <2>1. ASSUME NEW x \in Calls, NEW y \in Calls, calls'[x].at # "idle", calls'[y].at # "idle",
               Of(calls'[x]) = Of(calls'[y])
        PROVE  x = y
    <3>1. CASE x = c /\ y # c
      BY <1>4, <1>7, <1>o, <2>1, <3>1
    <3>2. CASE y = c /\ x # c
      BY <1>4, <1>7, <1>o, <2>1, <3>2
    <3>3. CASE x # c /\ y # c
      <4>1. calls'[x] = calls[x] /\ calls'[y] = calls[y]
        BY <1>4, <3>3
      <4> QED BY <2>1, <4>1 DEF Once, OwnDecisions
    <3> QED BY <3>1, <3>2, <3>3
  <2> QED BY <2>1 DEF OwnDecisions
<1>10. StartedHeld'
  <2>1. ASSUME NEW x \in 1..Len(state'.actions), x > spent'.done, state'.actions[x].status = "started"
        PROVE  \E b \in Calls : calls'[b].at # "idle" /\ calls'[b].action = x
    <3>1. x \in 1..Len(state.actions) /\ state.actions[x].status = "started"
      BY <1>6, <1>c, <2>1
    <3>2. PICK b \in Calls : calls[b].at # "idle" /\ calls[b].action = x
      BY <2>1, <3>1 DEF Once, StartedHeld
    <3>3. CASE b # c
      BY <1>4, <3>2, <3>3
    <3>4. CASE b = c
      BY <1>1, <3>2, <3>4 DEF IInv, Handed
    <3> QED BY <3>3, <3>4
  <2> QED BY <2>1 DEF StartedHeld
<1>11. SucceededIsOver'
  <2>1. ASSUME NEW x \in 1..Len(state'.actions), x > spent'.done, state'.actions[x].status = "succeeded"
        PROVE  /\ state'.decisions[state'.actions[x].decision].status # "pending"
               /\ \A b \in Calls : calls'[b].at # "idle" => Of(calls'[b]) # Of(state'.actions[x])
    <3>1. x \in 1..Len(state.actions) /\ state'.actions[x] = state.actions[x] /\ state.actions[x].status = "succeeded"
      BY <1>6, <1>c, <2>1
    <3>2. state.actions[x].decision \in 1..Len(state.decisions) /\ Of(state.actions[x]) # o
      BY <1>2, <1>o, <2>1, <3>1
    <3>3. /\ state.decisions[state.actions[x].decision].status # "pending"
          /\ \A b \in Calls : calls[b].at # "idle" => Of(calls[b]) # Of(state.actions[x])
      BY <2>1, <3>1 DEF Once, SucceededIsOver
    <3>4. \A b \in Calls : calls'[b].at # "idle" => Of(calls'[b]) # Of(state.actions[x])
      BY <1>4, <1>7, <3>2, <3>3
    <3> QED BY <3>1, <3>2, <3>3, <3>4
  <2> QED BY <2>1 DEF SucceededIsOver
<1>12. SucceededOnce'
  <2>1. ASSUME NEW x \in 1..a, NEW y \in 1..a, x > spent.done, y > spent.done,
               state'.actions[x].status = "succeeded", state'.actions[y].status = "succeeded",
               Of(state'.actions[x]) = Of(state'.actions[y])
        PROVE  x = y
    BY <1>c, <2>1 DEF Once, SucceededOnce
  <2> QED BY <1>6, <2>1 DEF SucceededOnce
<1> QED BY <1>8, <1>10, <1>11, <1>12 DEF Once

LEMMA ExecuteOnce ==
  ASSUME IInv, Once, NEW c \in Calls, NEW d \in Nat, NEW g \in Gateway, NEW refused \in BOOLEAN,
         ExecuteStep(c, d, g, refused)
  PROVE  Once'
<1>1. Well(state) /\ d \in Known /\ d \notin InFlight(g) /\ Calm(state, state')
  BY DEF IInv, Typed, ExecuteStep
<1>2. state.decisions[d].status = "pending"
  BY <1>1, PendingIs DEF Known
<1>3. ASSUME NEW b \in Calls, calls[b].at # "idle" PROVE Of(calls[b]) # [decision |-> d, gateway |-> g]
  <2>1. ASSUME Of(calls[b]) = [decision |-> d, gateway |-> g] PROVE FALSE
    <3>1. calls[b].decision = d /\ calls[b].gateway = g
      BY <2>1 DEF Of
    <3> QED BY <1>1, <3>1 DEF InFlight
  <2> QED BY <2>1
<1>4. \A x \in 1..Len(state.actions) :
        x > spent.done /\ state.actions[x].status = "succeeded" => Of(state.actions[x]) # [decision |-> d, gateway |-> g]
  BY <1>2 DEF Once, SucceededIsOver, Of
<1>5. \A x \in 1..Len(state.decisions) :
        /\ state'.decisions[x].origin = state.decisions[x].origin
        /\ state'.decisions[x].status = "pending" => state.decisions[x].status = "pending"
  BY <1>1 DEF Calm
<1>6. /\ Put(state.actions, state'.actions, Len(state.actions) + 1, d, g, IF refused THEN "failed" ELSE "planned")
      /\ calls[c].at = "idle" /\ calls' = [calls EXCEPT ![c] = Waiting(state, d, g, refused)] /\ spent' = spent
  BY DEF ExecuteStep
<1> QED BY <1>3, <1>4, <1>5, <1>6, BeginOnce

LEMMA RunOnce ==
  ASSUME IInv, Once, NEW c \in Calls, NEW p \in Path, NEW intent \in Path \cup {None}, NEW origin \in Origin,
         NEW g \in Executor, NEW refused \in BOOLEAN,
         RunStep(c, p, intent, origin, g, refused)
  PROVE  Once'
<1> DEFINE d == Len(state.decisions) + 1
<1>1. /\ Well(state) /\ Well(state') /\ OnePer(state)
      /\ Calm(Opened(state, p, intent, origin), state')
      /\ intent = None \/ Fresh(state, intent)
      /\ (origin = "loop" /\ g = "loop") \/ g \in Gateway
  BY OnePerIs DEF IInv, Typed, RunStep
<1>2. /\ Len(state.decisions) \in Nat
      /\ \A y \in 1..Len(state.actions) : state.actions[y].decision \in 1..Len(state.decisions)
  BY <1>1, WellIs
<1>3. /\ state'.decisions[d].origin = origin
      /\ \A x \in 1..Len(state.decisions) :
           /\ state'.decisions[x].origin = state.decisions[x].origin
           /\ state'.decisions[x].status = "pending" => state.decisions[x].status = "pending"
  BY <1>1, OpenedNext
<1>4. /\ Put(state.actions, state'.actions, Len(state.actions) + 1, d, g, IF refused THEN "failed" ELSE "planned")
      /\ calls[c].at = "idle" /\ calls' = [calls EXCEPT ![c] = Waiting(state, d, g, refused)] /\ spent' = spent
  BY DEF RunStep
<1>5. d \in Nat /\ d \notin 1..Len(state.decisions)
  BY <1>2
<1> HIDE DEF d
<1>6. \A b \in Calls : calls[b].at # "idle" => Of(calls[b]) # [decision |-> d, gateway |-> g]
  BY <1>5 DEF IInv, Handed, Of
<1>7. \A x \in 1..Len(state.actions) :
        x > spent.done /\ state.actions[x].status = "succeeded" =>
          Of(state.actions[x]) # [decision |-> d, gateway |-> g]
  BY <1>2, <1>5 DEF Of
<1> QED BY <1>3, <1>4, <1>5, <1>6, <1>7, BeginOnce

\* A step that leaves the calls and the actions, as recording a decision or ending one does.
LEMMA StillOnce ==
  ASSUME IInv, Once, calls' = calls, state'.actions = state.actions,
         spent'.left = spent.left, spent'.done = spent.done,
         \A x \in 1..Len(state.decisions) :
           /\ state'.decisions[x].origin = state.decisions[x].origin
           /\ state'.decisions[x].status = "pending" => state.decisions[x].status = "pending"
  PROVE  Once'
<1>1. \A y \in 1..Len(state.actions) : state.actions[y].decision \in 1..Len(state.decisions)
  BY WellIs DEF IInv, Typed
<1>2. OwnDecisions'
  BY DEF Once, OwnDecisions
<1>4. StartedHeld'
  BY DEF Once, StartedHeld
<1>5. SucceededIsOver'
  <2>1. ASSUME NEW x \in 1..Len(state.actions), x > spent.done, state.actions[x].status = "succeeded"
        PROVE  /\ state'.decisions[state.actions[x].decision].status # "pending"
               /\ \A b \in Calls : calls[b].at # "idle" => Of(calls[b]) # Of(state.actions[x])
    <3>1. /\ state.decisions[state.actions[x].decision].status # "pending"
          /\ \A b \in Calls : calls[b].at # "idle" => Of(calls[b]) # Of(state.actions[x])
      BY <2>1 DEF Once, SucceededIsOver
    <3> QED BY <1>1, <3>1
  <2> QED BY <2>1 DEF SucceededIsOver
<1>6. SucceededOnce'
  BY DEF Once, SucceededOnce
<1> QED BY <1>2, <1>4, <1>5, <1>6 DEF Once

LEMMA PlanOnce ==
  ASSUME IInv, Once, NEW c \in Calls, NEW p \in Path, NEW origin \in Later, PlanStep(c, p, origin)
  PROVE  Once'
<1>1. /\ Well(state) /\ Well(state') /\ OnePer(state) /\ calls[c] = Idle /\ calls \in [Calls -> Call]
      /\ Calm(Opened(state, p, None, origin), state') /\ state'.actions = state.actions
      /\ calls' = [calls EXCEPT ![c] = Idle] /\ spent' = spent
  BY OnePerIs DEF IInv, Typed, Handed, PlanStep
<1>2. calls' = calls
  BY <1>1
<1>3. origin \in Origin /\ None \in Path \cup {None}
  BY DEF Origin, Later
<1>4. \A x \in 1..Len(state.decisions) :
        /\ state'.decisions[x].origin = state.decisions[x].origin
        /\ state'.decisions[x].status = "pending" => state.decisions[x].status = "pending"
  BY <1>1, <1>3, OpenedNext
<1> QED BY <1>1, <1>2, <1>4, StillOnce

LEMMA CompleteOnce ==
  ASSUME IInv, Once, CompleteStep
  PROVE  Once'
<1>1. /\ Calm(state, state') /\ state'.actions = state.actions
      /\ calls' = calls /\ spent' = [spent EXCEPT !.completes = @ + 1]
  BY DEF CompleteStep
<1>2. spent'.left = spent.left /\ spent'.done = spent.done
  BY <1>1 DEF IInv, Typed
<1>3. \A x \in 1..Len(state.decisions) :
        /\ state'.decisions[x].origin = state.decisions[x].origin
        /\ state'.decisions[x].status = "pending" => state.decisions[x].status = "pending"
  BY <1>1 DEF Calm
<1> QED BY <1>1, <1>2, <1>3, StillOnce

LEMMA EndOnce ==
  ASSUME IInv, EndStep
  PROVE  Once'
<1>1. /\ Well(state') /\ calls' = [c \in Calls |-> Idle] /\ spent'.done = Len(state'.actions)
  BY EndIs DEF IInv
<1>2. \A a \in 1..Len(state'.actions) : ~(a > spent'.done)
  BY <1>1, WellIs
<1>3. \A c \in Calls : calls'[c].at = "idle"
  BY <1>1, IdleIs
<1> QED BY <1>2, <1>3 DEF Once, OwnDecisions, StartedHeld, SucceededIsOver, SucceededOnce

LEMMA OnceKept ==
  ASSUME IInv, Once, [Next]_vars
  PROVE  Once'
<1>1. CASE UNCHANGED vars
  BY <1>1 DEF vars, Once, OwnDecisions, StartedHeld, SucceededIsOver, SucceededOnce
<1>2. CASE Next
  <2>1. Typed /\ Handed /\ OneDecisionPerIntent
    BY DEF IInv
  <2>2. ASSUME NEW c \in Calls, NEW st \in {"succeeded", "failed"}, FinishStep(c, st) PROVE Once'
    BY <2>2, FinishOnce
  <2>3. ASSUME NEW c \in Calls, StartStep(c) PROVE Once'
    BY <2>3, StartOnce
  <2>4. ASSUME NEW c \in Calls, NEW d \in Nat, NEW g \in Gateway, NEW refused \in BOOLEAN,
               ExecuteStep(c, d, g, refused)
        PROVE  Once'
    BY <2>4, ExecuteOnce
  <2>5. ASSUME NEW c \in Calls, NEW p \in Path, NEW intent \in Path \cup {None}, NEW origin \in Origin,
               NEW g \in Executor, NEW refused \in BOOLEAN, RunStep(c, p, intent, origin, g, refused)
        PROVE  Once'
    BY <2>5, RunOnce
  <2>6. ASSUME NEW c \in Calls, NEW p \in Path, NEW origin \in Later, PlanStep(c, p, origin) PROVE Once'
    BY <2>6, PlanOnce
  <2>7. ASSUME CompleteStep PROVE Once'
    BY <2>7, CompleteOnce
  <2>8. ASSUME EndStep PROVE Once'
    BY <2>8, EndOnce
  <2>9. \/ \E c \in Calls, st \in {"succeeded", "failed"} : FinishStep(c, st)
        \/ \E c \in Calls : StartStep(c)
        \/ \E c \in Calls, d \in Nat, g \in Gateway, refused \in BOOLEAN : ExecuteStep(c, d, g, refused)
        \/ \E c \in Calls, p \in Path, intent \in Path \cup {None}, origin \in Origin, g \in Executor,
              refused \in BOOLEAN : RunStep(c, p, intent, origin, g, refused)
        \/ \E c \in Calls, p \in Path, origin \in Later : PlanStep(c, p, origin)
        \/ CompleteStep
        \/ EndStep
    BY <1>2, <2>1, NextIs
  <2> QED BY <2>2, <2>3, <2>4, <2>5, <2>6, <2>7, <2>8, <2>9
<1> QED BY <1>1, <1>2

LEMMA OnceInit ==
  ASSUME Init
  PROVE  Once
<1>1. Len(state.actions) = 0 /\ \A c \in Calls : calls[c].at = "idle"
  BY IdleIs DEF Init
<1> QED BY <1>1 DEF Once, OwnDecisions, StartedHeld, SucceededIsOver, SucceededOnce

\* A gateway executes a decision once in a process (inFlightDecisionIds and the status of the
\* decision), for any number of gateways, whose calls may name the same decision, of calls, paths,
\* decisions and crashes.  Of two gateways together it does not hold: configuration TwoGateways.
THEOREM ADecisionIsExecutedOnce == Spec => []ExecutedOnce
<1>1. Init => IInv /\ Once
  BY InitHolds, OnceInit
<1>2. IInv /\ Once /\ [Next]_vars => IInv' /\ Once'
  BY NextKeeps, OnceKept
<1>3. IInv /\ Once => ExecutedOnce
  BY OnceMeansExecutedOnce
<1> QED BY <1>1, <1>2, <1>3, PTL DEF Spec
=============================================================================
