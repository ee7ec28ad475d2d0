-------------------------- MODULE AgentLoopProofs --------------------------
(***************************************************************************)
(* Theorems about AgentLoop, for every value of its constants.             *)
(***************************************************************************)
EXTENDS AgentLoop, SequenceTheorems, TLAPS

\* The messages the model builds are messages.
LEMMA BuiltMessages ==
  ASSUME RunTypes
  PROVE  /\ FailureMessage \in Message
         /\ \A k \in Nat : User(k) \in Message /\ Assistant(k) \in Message /\ Result(k) \in Message
BY DEF User, Assistant, Result, FailureMessage, Message, RunTypes

\* Draining a queue of messages yields and leaves sequences of messages.
LEMMA DrainTypes ==
  \A mod, q : q \in Seq(Message) =>
    Drained(mod, q) \in Seq(Message) /\ Undrained(mod, q) \in Seq(Message)
BY DEF Drained, Undrained

\* Withdrawing messages relabels entries of `sent'.
LEMMA WithdrawType ==
  ASSUME RunTypes, NEW ids
  PROVE  Withdraw(ids) \in Seq(Via \cup {"withdrawn"})
<1>1. /\ Len(sent) \in Nat
      /\ DOMAIN sent = 1..Len(sent)
      /\ \A m \in 1..Len(sent) : sent[m] \in Via \cup {"withdrawn"}
  BY DEF RunTypes
<1>2. Withdraw(ids) \in [1..Len(sent) -> Via \cup {"withdrawn"}]
  BY <1>1 DEF Withdraw
<1> QED BY <1>1, <1>2, SeqDef

\* What EndBatch does, without the choice of hasMoreToolCalls.
LEMMA EndBatchEffect ==
  ASSUME EndBatch
  PROVE  /\ pc = "results"
         /\ \/ /\ pc' = "turnEnd" /\ context' = context \o toolResults
               /\ calls' = <<>> /\ toolResults' = <<>>
            \/ /\ pc' = "prepare" /\ UNCHANGED <<context, calls, toolResults>>
         /\ UNCHANGED <<messages, steeringQueue, followUpQueue, sent, runs, pendingToolCalls,
                        pendingMessages, mode, started, late, requests>>
BY Zenon DEF EndBatch, ownerVars

-----------------------------------------------------------------------------
LEMMA InitTypes == Init => TypeOK
<1> SUFFICES ASSUME Init PROVE TypeOK OBVIOUS
<1>1. MessageTypes BY DEF Init, MessageTypes
<1>2. FlagTypes BY DEF Init, FlagTypes
<1>3. CallTypes BY DEF Init, CallTypes, Mode
<1>4. RunTypes BY DEF Init, RunTypes, Point
<1> QED BY <1>1, <1>2, <1>3, <1>4 DEF TypeOK

\* The flags: no arithmetic, and one obligation per action.
LEMMA NextFlags == FlagTypes /\ Next => FlagTypes'
<1> SUFFICES ASSUME FlagTypes, Next PROVE FlagTypes' OBVIOUS
<1> USE DEF FlagTypes, ownerVars, loopVars, batchVars
<1>1. ASSUME NEW prompts, NEW skip \in BOOLEAN, StartRun(prompts, skip) PROVE FlagTypes'
  BY <1>1 DEF StartRun
<1>2. CASE OwnerStep
  BY <1>1, <1>2 DEF OwnerStep, Prompt, Continue, Steer, FollowUp, Abort, ClearSteeringQueue,
              ClearFollowUpQueue, ClearAllQueues, Reset
<1>3. CASE LoopStep
  <2>1. CASE EmitMessage BY <2>1 DEF EmitMessage
  <2>2. CASE PollAtStart BY <2>2 DEF PollAtStart
  <2>3. CASE Request BY <2>3 DEF Request
  <2>4. ASSUME NEW k \in 0..MaxCalls, Reply(k) PROVE FlagTypes' BY <2>4 DEF Reply
  <2>5. CASE EndTurn BY <2>5 DEF EndTurn, AfterTurn
  <2>6. CASE PollFollowUp BY <2>6 DEF PollFollowUp
  <2>7. CASE StopAfterError BY <2>7 DEF StopAfterError
  <2>8. ASSUME NEW i \in 1..MaxCalls, PrepareCall(i) \/ FinishCall(i) \/ AnswerCall(i)
        PROVE  FlagTypes'
    BY <2>8 DEF PrepareCall, Enters, FinishCall, AnswerCall, toolVars
  <2>9. CASE ExecuteAll BY <2>9 DEF ExecuteAll, toolVars
  <2>10. CASE EndBatch BY <2>10 DEF EndBatch
  <2>11. CASE FinishRun BY <2>11 DEF FinishRun
  <2> QED BY <1>3, <2>1, <2>2, <2>3, <2>4, <2>5, <2>6, <2>7, <2>8, <2>9, <2>10, <2>11 DEF LoopStep
<1>4. CASE Failure
  BY <1>4 DEF Failure, RunFails, FinishCallFails, HandleRunFailure
<1>5. ASSUME NEW c \in late, LateFinish(c) PROVE FlagTypes' BY <1>5 DEF LateFinish
<1>6. CASE Rest BY <1>6 DEF Rest, vars
<1> QED BY <1>2, <1>3, <1>4, <1>5, <1>6 DEF Next

\* The sequences of messages.
LEMMA NextMessages == TypeOK /\ Next => MessageTypes'
<1> SUFFICES ASSUME MessageTypes, RunTypes, CallTypes, Next PROVE MessageTypes' BY DEF TypeOK
<1> USE DEF MessageTypes, ownerVars, loopVars, batchVars
<1>1. ASSUME NEW prompts \in Seq(Message), NEW skip, StartRun(prompts, skip)
      PROVE  /\ messages' \in Seq(Message) /\ context' \in Seq(Message)
             /\ pendingMessages' \in Seq(Message) /\ toolResults' \in Seq(Message)
  BY <1>1 DEF StartRun
<1>2. ASSUME NEW via, Send(via) PROVE User(Len(sent')) \in Message
  <2>1. Len(sent') \in Nat BY <1>2 DEF Send, RunTypes
  <2> QED BY <2>1, BuiltMessages
<1>3. CASE OwnerStep
  <2>1. CASE Prompt
    <3>1. <<User(Len(sent'))>> \in Seq(Message) BY <1>2, <2>1 DEF Prompt
    <3> QED BY <1>1, <2>1, <3>1 DEF Prompt
  <2>2. CASE Continue
    <3>1. <<>> \in Seq(Message) BY EmptySeq
    <3> QED BY <1>1, <2>2, <3>1, DrainTypes DEF Continue
  <2>3. CASE Steer BY <1>2, <2>3 DEF Steer
  <2>4. CASE FollowUp BY <1>2, <2>4 DEF FollowUp
  <2>5. CASE Abort BY <2>5 DEF Abort
  <2>6. CASE ClearSteeringQueue \/ ClearFollowUpQueue \/ ClearAllQueues
    BY <2>6, EmptySeq DEF ClearSteeringQueue, ClearFollowUpQueue, ClearAllQueues
  <2>7. CASE Reset BY <2>7 DEF Reset
  <2> QED BY <1>3, <2>1, <2>2, <2>3, <2>4, <2>5, <2>6, <2>7 DEF OwnerStep
<1>4. CASE LoopStep
  <2>1. CASE EmitMessage BY <2>1 DEF EmitMessage, ContextAfter
  <2>2. CASE PollAtStart BY <2>2, DrainTypes DEF PollAtStart
  <2>3. CASE Request BY <2>3 DEF Request
  <2>4. ASSUME NEW k \in 0..MaxCalls, Reply(k) PROVE MessageTypes'
    <3>1. Assistant(k) \in Message BY BuiltMessages, BoundAssumption
    <3> QED BY <2>4, <3>1 DEF Reply
  <2>5. CASE EndTurn BY <2>5, DrainTypes DEF EndTurn, AfterTurn
  <2>6. CASE PollFollowUp BY <2>6, DrainTypes DEF PollFollowUp
  <2>7. CASE StopAfterError BY <2>7 DEF StopAfterError
  <2>8. ASSUME NEW i \in 1..MaxCalls, PrepareCall(i) \/ FinishCall(i) PROVE MessageTypes'
    BY <2>8 DEF PrepareCall, Enters, FinishCall, toolVars
  <2>9. ASSUME NEW i \in 1..MaxCalls, AnswerCall(i) PROVE MessageTypes'
    <3>1. Result(i) \in Message BY BuiltMessages, BoundAssumption
    <3> QED BY <2>9, <3>1 DEF AnswerCall
  <2>10. CASE ExecuteAll BY <2>10 DEF ExecuteAll, toolVars
  <2>11. CASE EndBatch
    <3>1. context' \in Seq(Message) /\ toolResults' \in Seq(Message)
      <4>1. context \o toolResults \in Seq(Message) /\ <<>> \in Seq(Message) OBVIOUS
      <4> QED BY <2>11, <4>1, EndBatchEffect
    <3>2. UNCHANGED <<messages, steeringQueue, followUpQueue, pendingMessages>>
      BY <2>11, EndBatchEffect
    <3> QED BY <3>1, <3>2
  <2>12. CASE FinishRun BY <2>12 DEF FinishRun
  <2> QED BY <1>4, <2>1, <2>2, <2>3, <2>4, <2>5, <2>6, <2>7, <2>8, <2>9, <2>10, <2>11, <2>12 DEF LoopStep
<1>5. ASSUME NEW outliving, HandleRunFailure(outliving) PROVE MessageTypes'
  <2>1. /\ messages' = messages \/ messages' = Append(messages, FailureMessage)
        /\ context' = context /\ steeringQueue' = steeringQueue /\ followUpQueue' = followUpQueue
        /\ pendingMessages' = pendingMessages /\ toolResults' = toolResults
    BY <1>5 DEF HandleRunFailure
  <2>2. messages' \in Seq(Message)
    <3>1. Append(messages, FailureMessage) \in Seq(Message) BY BuiltMessages
    <3> QED BY <2>1, <3>1
  <2> QED BY <2>1, <2>2
<1>6. CASE Failure BY <1>5, <1>6 DEF Failure, RunFails, FinishCallFails
<1>7. ASSUME NEW c \in late, LateFinish(c) PROVE MessageTypes' BY <1>7 DEF LateFinish
<1>8. CASE Rest BY <1>8 DEF Rest, vars
<1> QED BY <1>3, <1>4, <1>6, <1>7, <1>8 DEF Next

\* The calls of the reply, and the calls known to be going on.
LEMMA NextCalls == TypeOK /\ Next => CallTypes'
<1> SUFFICES ASSUME RunTypes, CallTypes, Next PROVE CallTypes' BY DEF TypeOK
<1> USE DEF CallTypes, Mode, ownerVars, loopVars, batchVars
<1>1. \A i \in DOMAIN calls : i \in Nat /\ Call(i) \in Nat \X Nat
  BY DEF Call, RunTypes
<1>2. CASE OwnerStep
  BY <1>2 DEF OwnerStep, Prompt, Continue, StartRun, Steer, FollowUp, Abort,
              ClearSteeringQueue, ClearFollowUpQueue, ClearAllQueues, Reset, NoPendingCalls
<1>3. CASE LoopStep
  <2>1. CASE EmitMessage BY <2>1 DEF EmitMessage
  <2>2. CASE PollAtStart BY <2>2 DEF PollAtStart
  <2>3. CASE Request BY <2>3 DEF Request
  <2>4. ASSUME NEW k \in 0..MaxCalls, Reply(k) PROVE CallTypes'
    <3>1. [i \in 1..k |-> "todo"] \in Seq(Status)
      <4>1. k \in Nat /\ [i \in 1..k |-> "todo"] \in [1..k -> Status]
        BY BoundAssumption DEF Status
      <4> QED BY <4>1, SeqDef
    <3> QED BY <2>4, <3>1 DEF Reply
  <2>5. CASE EndTurn BY <2>5 DEF EndTurn, AfterTurn
  <2>6. CASE PollFollowUp BY <2>6 DEF PollFollowUp
  <2>7. CASE StopAfterError BY <2>7 DEF StopAfterError
  <2>8. ASSUME NEW i \in DOMAIN calls, NEW s \in Status
        PROVE  [calls EXCEPT ![i] = s] \in Seq(Status)
    BY ExceptSeq, LenProperties
  <2>9. ASSUME NEW i \in 1..MaxCalls, PrepareCall(i) PROVE CallTypes'
    BY <1>1, <2>8, <2>9 DEF PrepareCall, Enters, toolVars, Status
  <2>10. ASSUME NEW i \in 1..MaxCalls, FinishCall(i) \/ AnswerCall(i) PROVE CallTypes'
    BY <2>8, <2>10 DEF FinishCall, AnswerCall, toolVars, Status
  <2>11. CASE ExecuteAll
    <3>1. /\ Len(calls) \in Nat
          /\ [i \in DOMAIN calls |-> IF calls[i] = "prepared" THEN "running" ELSE calls[i]]
               \in [1..Len(calls) -> Status]
      BY DEF Status
    <3>2. [i \in DOMAIN calls |-> IF calls[i] = "prepared" THEN "running" ELSE calls[i]] \in Seq(Status)
      BY <3>1, SeqDef
    <3> QED BY <2>11, <3>2 DEF ExecuteAll, toolVars
  <2>12. CASE EndBatch
    <3>1. calls' = calls \/ calls' = <<>> BY <2>12, EndBatchEffect
    <3>2. <<>> \in Seq(Status) /\ calls \in Seq(Status) OBVIOUS
    <3>3. UNCHANGED <<mode, pendingToolCalls, started, late>> BY <2>12, EndBatchEffect
    <3>4. calls' \in Seq(Status) BY <3>1, <3>2, Zenon
    <3> QED BY <3>3, <3>4
  <2>13. CASE FinishRun BY <2>13 DEF FinishRun, NoPendingCalls
  <2> QED BY <1>3, <2>1, <2>2, <2>3, <2>4, <2>5, <2>6, <2>7, <2>9, <2>10, <2>11, <2>12, <2>13 DEF LoopStep
<1>4. CASE Failure
  <2>1. CASE RunFails BY <1>1, <2>1 DEF RunFails, HandleRunFailure, Enters
  <2>2. ASSUME NEW i \in 1..MaxCalls, FinishCallFails(i) PROVE CallTypes'
    BY <1>1, <2>2 DEF FinishCallFails, HandleRunFailure, OthersRunning
  <2> QED BY <1>4, <2>1, <2>2 DEF Failure
<1>5. ASSUME NEW c \in late, LateFinish(c) PROVE CallTypes' BY <1>5 DEF LateFinish
<1>6. CASE Rest BY <1>6 DEF Rest, vars
<1> QED BY <1>2, <1>3, <1>4, <1>5, <1>6 DEF Next

\* The control point, the counters and the record of what was sent.
LEMMA NextRun == TypeOK /\ Next => RunTypes'
<1> SUFFICES ASSUME RunTypes, Next PROVE RunTypes' BY DEF TypeOK
<1> USE DEF RunTypes, Point, ownerVars, loopVars
<1>1. ASSUME NEW prompts, NEW skip, StartRun(prompts, skip)
      PROVE  pc' \in Point /\ runs' \in Nat /\ requests' \in Nat
  BY <1>1 DEF StartRun
<1>2. ASSUME NEW via \in Via, Send(via) PROVE sent' \in Seq(Via \cup {"withdrawn"})
  BY <1>2 DEF Send
<1>3. CASE OwnerStep
  <2>1. CASE Prompt BY <1>1, <1>2, <2>1 DEF Prompt, Via
  <2>2. CASE Continue BY <1>1, <2>2 DEF Continue
  <2>3. CASE Steer \/ FollowUp BY <1>2, <2>3 DEF Steer, FollowUp, Via
  <2>4. CASE Abort BY <2>4 DEF Abort
  <2>5. CASE ClearSteeringQueue \/ ClearFollowUpQueue \/ ClearAllQueues \/ Reset
    BY <2>5, WithdrawType DEF ClearSteeringQueue,
              ClearFollowUpQueue, ClearAllQueues, Reset
  <2> QED BY <1>3, <2>1, <2>2, <2>3, <2>4, <2>5 DEF OwnerStep
<1>4. CASE LoopStep
  <2>1. CASE EmitMessage \/ PollAtStart \/ Request \/ EndTurn \/ PollFollowUp \/ StopAfterError
    BY <2>1 DEF EmitMessage, PollAtStart, Request, EndTurn, AfterTurn, PollFollowUp, StopAfterError
  <2>2. ASSUME NEW k \in 0..MaxCalls, Reply(k) PROVE RunTypes' BY <2>2 DEF Reply
  <2>3. ASSUME NEW i \in 1..MaxCalls, PrepareCall(i) \/ FinishCall(i) \/ AnswerCall(i)
        PROVE  RunTypes'
    BY <2>3 DEF PrepareCall, Enters, FinishCall, AnswerCall, toolVars
  <2>4. CASE ExecuteAll \/ FinishRun BY <2>4 DEF ExecuteAll, FinishRun, toolVars
  <2>5. CASE EndBatch BY <2>5, EndBatchEffect
  <2> QED BY <1>4, <2>1, <2>2, <2>3, <2>4, <2>5 DEF LoopStep
<1>5. CASE Failure BY <1>5 DEF Failure, RunFails, FinishCallFails, HandleRunFailure
<1>6. ASSUME NEW c \in late, LateFinish(c) PROVE RunTypes' BY <1>6 DEF LateFinish
<1>7. CASE Rest BY <1>7 DEF Rest, vars
<1> QED BY <1>3, <1>4, <1>5, <1>6, <1>7 DEF Next

\* Every variable keeps its type (TypeOK), for any bounds and any drain mode.
THEOREM TypeCorrect == Spec => []TypeOK
<1>1. TypeOK /\ [Next]_vars => TypeOK'
  <2>1. TypeOK /\ Next => TypeOK'
    BY NextMessages, NextFlags, NextCalls, NextRun DEF TypeOK
  <2>2. TypeOK /\ UNCHANGED vars => TypeOK'
    BY DEF TypeOK, MessageTypes, FlagTypes, CallTypes, RunTypes, vars
  <2> QED BY <2>1, <2>2
<1> QED BY InitTypes, <1>1, PTL DEF Spec
-----------------------------------------------------------------------------
\* Emitting the first of the pending messages moves it to the transcript.
LEMMA MoveHead ==
  ASSUME NEW S, NEW s \in Seq(S), NEW t \in Seq(S), t # <<>>
  PROVE  Append(s, Head(t)) \o Tail(t) = s \o t
<1>1. Head(t) \in S /\ Tail(t) \in Seq(S) /\ <<Head(t)>> \in Seq(S) BY HeadTailProperties
<1>2. Append(s, Head(t)) = s \o <<Head(t)>> BY <1>1, AppendIsConcat
<1>3. <<Head(t)>> \o Tail(t) = t BY HeadTailProperties
<1> QED BY <1>1, <1>2, <1>3, ConcatAssociative

\* A result appended on both sides.
LEMMA AppendRight ==
  \A s, t \in Seq(Message), e \in Message : Append(s \o t, e) = s \o Append(t, e)
<1> SUFFICES ASSUME NEW s \in Seq(Message), NEW t \in Seq(Message), NEW e \in Message
             PROVE  Append(s \o t, e) = s \o Append(t, e)
  OBVIOUS
<1>1. s \o t \in Seq(Message) /\ <<e>> \in Seq(Message) OBVIOUS
<1>2. Append(s \o t, e) = (s \o t) \o <<e>> /\ Append(t, e) = t \o <<e>>
  BY <1>1, AppendIsConcat
<1> QED BY <1>1, <1>2, ConcatAssociative
-----------------------------------------------------------------------------
LEMMA InitContext == Init => ContextCopy
BY DEF Init, ContextCopy

LEMMA NextContext == TypeOK /\ ContextCopy /\ Next => ContextCopy'
<1> SUFFICES ASSUME MessageTypes, RunTypes, ContextCopy, Next PROVE ContextCopy' BY DEF TypeOK
<1> USE DEF ContextCopy, ownerVars, loopVars, batchVars
<1>1. /\ \A s \in Seq(Message) : s \o <<>> = s
      /\ messages \in Seq(Message) /\ context \in Seq(Message)
      /\ pendingMessages \in Seq(Message) /\ toolResults \in Seq(Message)
  BY ConcatEmptySeq DEF MessageTypes
<1>2. ASSUME NEW prompts, NEW skip, StartRun(prompts, skip) PROVE ContextCopy'
  BY <1>2 DEF StartRun, Idle
<1>3. CASE OwnerStep
  BY <1>2, <1>3 DEF OwnerStep, Prompt, Continue, Steer, FollowUp, Abort, ClearSteeringQueue,
              ClearFollowUpQueue, ClearAllQueues, Reset, Idle
<1>4. CASE LoopStep
  <2>1. CASE EmitMessage
    <3>1. Append(messages, Head(pendingMessages)) \o Tail(pendingMessages) = messages \o pendingMessages
      BY <1>1, <2>1, MoveHead DEF EmitMessage
    <3>2. CASE pc = "prompts" BY <2>1, <3>1, <3>2 DEF EmitMessage, ContextAfter
    <3>3. CASE pc = "inject" BY <1>1, <2>1, <3>3 DEF EmitMessage, ContextAfter
    <3> QED BY <2>1, <3>2, <3>3 DEF EmitMessage
  <2>2. CASE PollAtStart BY <1>1, <2>2 DEF PollAtStart
  <2>3. CASE Request BY <2>3 DEF Request
  <2>4. ASSUME NEW k \in 0..MaxCalls, Reply(k) PROVE ContextCopy'
    <3>1. Assistant(k) \in Message BY BuiltMessages, BoundAssumption
    <3>2. messages = context BY <1>1, <2>4 DEF Reply
    <3>3. messages' = Append(messages, Assistant(k)) /\ context' = messages' /\ toolResults' = <<>>
      BY <2>4, <3>2 DEF Reply
    <3>4. messages' \in Seq(Message) BY <1>1, <3>1, <3>3
    <3> QED BY <1>1, <2>4, <3>3, <3>4 DEF Reply
  <2>5. CASE EndTurn BY <2>5 DEF EndTurn, AfterTurn
  <2>6. CASE PollFollowUp BY <2>6 DEF PollFollowUp
  <2>7. CASE StopAfterError BY <2>7 DEF StopAfterError
  <2>8. ASSUME NEW i \in 1..MaxCalls, PrepareCall(i) \/ FinishCall(i) PROVE ContextCopy'
    BY <2>8 DEF PrepareCall, Enters, FinishCall, toolVars
  <2>9. ASSUME NEW i \in 1..MaxCalls, AnswerCall(i) PROVE ContextCopy'
    <3>1. Result(i) \in Message BY BuiltMessages, BoundAssumption
    <3>2. Append(context \o toolResults, Result(i)) = context \o Append(toolResults, Result(i))
      BY <1>1, <3>1, AppendRight
    <3> QED BY <2>9, <3>2 DEF AnswerCall
  <2>10. CASE ExecuteAll BY <2>10 DEF ExecuteAll, toolVars
  <2>11. CASE EndBatch
    <3>1. pc = "results" /\ messages = context \o toolResults /\ messages' = messages
      BY <2>11, EndBatchEffect
    <3>2. CASE /\ pc' = "turnEnd" /\ context' = context \o toolResults /\ toolResults' = <<>>
      BY <1>1, <3>1, <3>2
    <3>3. CASE pc' = "prepare" /\ context' = context /\ toolResults' = toolResults
      BY <3>1, <3>3
    <3> QED BY <2>11, <3>2, <3>3, EndBatchEffect
  <2>12. CASE FinishRun BY <2>12 DEF FinishRun
  <2> QED BY <1>4, <2>1, <2>2, <2>3, <2>4, <2>5, <2>6, <2>7, <2>8, <2>9, <2>10, <2>11, <2>12 DEF LoopStep
<1>5. CASE Failure BY <1>5 DEF Failure, RunFails, FinishCallFails, HandleRunFailure
<1>6. ASSUME NEW c \in late, LateFinish(c) PROVE ContextCopy' BY <1>6 DEF LateFinish
<1>7. CASE Rest BY <1>7 DEF Rest, vars
<1> QED BY <1>3, <1>4, <1>5, <1>6, <1>7 DEF Next

\* Every request to the model carries the whole transcript (ContextIsTranscript),
\* whatever is queued, aborted or thrown.
THEOREM RequestsCarryTranscript == Spec => []ContextIsTranscript
<1>1. TypeOK /\ ContextCopy => ContextIsTranscript
  BY ConcatEmptySeq DEF TypeOK, MessageTypes, ContextCopy, ContextIsTranscript
<1>2. TypeOK /\ ContextCopy /\ [Next]_vars => ContextCopy'
  <2>1. ContextCopy /\ UNCHANGED vars => ContextCopy'
    BY DEF ContextCopy, vars, loopVars, batchVars
  <2> QED BY <2>1, NextContext
<1> QED BY InitContext, TypeCorrect, <1>1, <1>2, PTL DEF Spec
-----------------------------------------------------------------------------
CallInv == CallControl /\ PendingToolCallsExact

LEMMA InitCallInv == Init => CallInv
BY DEF Init, CallInv, CallControl, PendingToolCallsExact

\* A step that changes neither the calls nor what is known of them.
LEMMA CallsUntouched ==
  ASSUME CallInv, UNCHANGED <<pendingToolCalls, calls, mode, requests, late>>,
         \/ pc' = pc
         \/ pc' \in {"idle", "prompts", "inject", "turnEnd", "followUp", "stopping", "agentEnd"}
            /\ calls = <<>> /\ pc # "failEnd"
  PROVE  CallInv'
BY DEF CallInv, CallControl, PendingToolCallsExact, Call

LEMMA NextCallInv == TypeOK /\ CallInv /\ Next => CallInv'
<1> SUFFICES ASSUME CallTypes, RunTypes, CallInv, Next PROVE CallInv' BY DEF TypeOK
<1> USE DEF ownerVars, loopVars, batchVars
<1>1. calls \in Seq(Status) /\ Len(calls) \in Nat /\ DOMAIN calls = 1..Len(calls)
  BY DEF CallTypes
<1>2. calls # <<>> => pc \in {"prepare", "execute", "results", "failEnd"}
  BY DEF CallInv, CallControl
<1>3. ASSUME NEW prompts, NEW skip, StartRun(prompts, skip) PROVE CallInv'
  BY <1>2, <1>3, CallsUntouched DEF StartRun, Idle
<1>4. CASE OwnerStep
  <2>1. CASE Prompt \/ Continue BY <1>3, <2>1 DEF Prompt, Continue
  <2>2. CASE Steer \/ FollowUp \/ Abort \/ ClearSteeringQueue \/ ClearFollowUpQueue \/ ClearAllQueues
    BY <2>2, CallsUntouched
       DEF Steer, FollowUp, Abort, ClearSteeringQueue, ClearFollowUpQueue, ClearAllQueues
  <2>3. CASE Reset
    <3>1. calls = <<>> BY <1>2, <2>3 DEF Reset, Idle
    <3> QED BY <2>3, <3>1 DEF Reset, Idle, NoPendingCalls, CallInv, CallControl, PendingToolCallsExact
  <2> QED BY <1>4, <2>1, <2>2, <2>3 DEF OwnerStep
<1>5. CASE LoopStep
  <2>1. CASE EmitMessage \/ PollAtStart \/ EndTurn \/ PollFollowUp \/ StopAfterError
    BY <1>2, <2>1, CallsUntouched DEF EmitMessage, PollAtStart, EndTurn, AfterTurn, PollFollowUp, StopAfterError
  <2>2. CASE Request
    BY <1>2, <2>2 DEF Request, CallInv, CallControl, PendingToolCallsExact, Call, RunTypes, CallTypes
  <2>3. ASSUME NEW k \in 0..MaxCalls, Reply(k) PROVE CallInv'
    <3>1. calls = <<>> /\ pc = "stream" /\ UNCHANGED <<pendingToolCalls, requests, late>>
      BY <1>2, <2>3 DEF Reply
    <3>2. CASE pc' \in {"stopping", "turnEnd"} /\ UNCHANGED <<mode, calls>>
      BY <3>1, <3>2, CallsUntouched
    <3>3. CASE pc' = "prepare" /\ calls' = [i \in 1..k |-> "todo"]
      <4>1. pendingToolCalls = {} BY <3>1 DEF CallInv, PendingToolCallsExact
      <4>2. \A i \in DOMAIN calls' : calls'[i] = "todo" BY <3>3
      <4> QED BY <3>1, <3>3, <4>1, <4>2 DEF CallInv, CallControl, PendingToolCallsExact
    <3> QED BY <2>3, <3>2, <3>3 DEF Reply, batchVars
  <2>4. ASSUME NEW i \in 1..MaxCalls, PrepareCall(i) PROVE CallInv'
    BY <1>1, <2>4, SMTT(30)
    DEF PrepareCall, Enters, IsNext, toolVars, CallInv, CallControl, PendingToolCallsExact, Call
  <2>5. CASE ExecuteAll
    BY <1>1, <2>5 DEF ExecuteAll, toolVars, CallInv, CallControl, PendingToolCallsExact, Call, ToSet
  <2>6. ASSUME NEW i \in 1..MaxCalls, FinishCall(i) PROVE CallInv'
    <3>1. i \in DOMAIN calls /\ DOMAIN calls' = DOMAIN calls /\ calls'[i] = "ended"
      BY <1>1, <2>6 DEF FinishCall
    <3>2. \A j \in DOMAIN calls : j # i => calls'[j] = calls[j]
      BY <1>1, <2>6 DEF FinishCall
    <3>3. pc' = "results" => \A j \in DOMAIN calls : j # i => calls[j] # "running"
      BY <2>6 DEF FinishCall, OthersRunning
    <3>4. CallControl'
      BY <2>6, <3>1, <3>2, <3>3 DEF FinishCall, toolVars, CallInv, CallControl
    <3>5. PendingToolCallsExact'
      BY <2>6, <3>1, <3>2 DEF FinishCall, toolVars, CallInv, PendingToolCallsExact, Call
    <3> QED BY <3>4, <3>5 DEF CallInv
  <2>7. ASSUME NEW i \in 1..MaxCalls, AnswerCall(i) PROVE CallInv'
    BY <1>1, <2>7 DEF AnswerCall, AnswersNext, CallInv, CallControl, PendingToolCallsExact, Call
  <2>8. CASE EndBatch
    <3>1. pendingToolCalls = {} /\ \A i \in DOMAIN calls : calls[i] \notin {"prepared", "running"}
      BY <2>8, EndBatchEffect DEF CallInv, CallControl, PendingToolCallsExact
    <3>2. UNCHANGED <<pendingToolCalls, late, requests>> BY <2>8, EndBatchEffect
    <3>3. CASE pc' = "turnEnd" /\ calls' = <<>>
      BY <3>1, <3>2, <3>3 DEF CallInv, CallControl, PendingToolCallsExact
    <3>4. CASE pc' = "prepare" /\ calls' = calls
      <4>1. pc = "results" BY <2>8, EndBatchEffect
      <4> QED BY <3>1, <3>2, <3>4, <4>1 DEF CallInv, CallControl, PendingToolCallsExact
    <3> QED BY <2>8, <3>3, <3>4, EndBatchEffect
  <2>9. CASE FinishRun
    BY <1>2, <2>9 DEF FinishRun, NoPendingCalls, CallInv, CallControl, PendingToolCallsExact, Call
  <2>10. ASSUME NEW i \in 1..MaxCalls, PrepareCall(i) \/ FinishCall(i) \/ AnswerCall(i) PROVE CallInv'
    BY <2>4, <2>6, <2>7, <2>10
  <2> QED BY <1>5, <2>1, <2>2, <2>3, <2>5, <2>8, <2>9, <2>10 DEF LoopStep
<1>6. ASSUME NEW outliving \in SUBSET {Call(j) : j \in DOMAIN calls}, HandleRunFailure(outliving)
      PROVE  CallInv'
  BY <1>1, <1>6 DEF HandleRunFailure, CallInv, CallControl, PendingToolCallsExact, Call, RunTypes
<1>7. CASE Failure
  <2>1. CASE RunFails BY <1>6, <2>1 DEF RunFails
  <2>2. ASSUME NEW i \in 1..MaxCalls, FinishCallFails(i) PROVE CallInv'
    BY <1>6, <2>2 DEF FinishCallFails, OthersRunning
  <2> QED BY <1>7, <2>1, <2>2 DEF Failure
<1>8. ASSUME NEW c \in late, LateFinish(c) PROVE CallInv'
  BY <1>8 DEF LateFinish, CallInv, CallControl, PendingToolCallsExact, Call
<1>9. CASE Rest BY <1>9, CallsUntouched DEF Rest, vars
<1> QED BY <1>4, <1>5, <1>7, <1>8, <1>9 DEF Next

\* The calls an owner sees as pending are exactly those in progress
\* (PendingToolCallsExact), also when executions of a failed run end during a
\* later one.
THEOREM PendingCallsExact == Spec => []PendingToolCallsExact
<1>1. TypeOK /\ CallInv /\ [Next]_vars => CallInv'
  <2>1. CallInv /\ UNCHANGED vars => CallInv'
    BY CallsUntouched DEF vars, batchVars
  <2> QED BY <2>1, NextCallInv
<1>2. CallInv => PendingToolCallsExact BY DEF CallInv
<1> QED BY InitCallInv, TypeCorrect, <1>1, <1>2, PTL DEF Spec
-----------------------------------------------------------------------------
\* What the loop and the queues hold are user messages that were sent, each queue
\* those of its own, and the transcript is of messages sent and of runs begun.
FromUser(s, vias, log) ==
  \A p \in 1..Len(s) :
    s[p].role = "user" /\ s[p].run = 0 /\ s[p].n \in DOMAIN log /\ log[s[p].n] \in vias

QueuedSent ==
  /\ FromUser(steeringQueue, {"steer"}, sent)
  /\ FromUser(followUpQueue, {"followUp"}, sent)
  /\ FromUser(pendingMessages, Via \cup {"withdrawn"}, sent)

TranscriptSent ==
  \A p \in 1..Len(messages) :
    /\ messages[p].role = "user" => messages[p].run = 0 /\ messages[p].n \in DOMAIN sent
    /\ messages[p].role # "user" => messages[p].run <= runs

\* The loop holds messages only to emit them.
HoldsToEmit == pc \notin {"prompts", "inject", "failEnd"} => pendingMessages = <<>>

SentInv == QueuedSent /\ TranscriptSent /\ HoldsToEmit

\* What is drained is the front of the queue, and what is left is the rest.
LEMMA DrainSplits ==
  ASSUME NEW mod, NEW q \in Seq(Message)
  PROVE  /\ Drained(mod, q) \in Seq(Message) /\ Undrained(mod, q) \in Seq(Message)
         /\ Len(q) = Len(Drained(mod, q)) + Len(Undrained(mod, q))
         /\ \A i \in 1..Len(Drained(mod, q)) : i \in 1..Len(q) /\ Drained(mod, q)[i] = q[i]
         /\ \A i \in 1..Len(Undrained(mod, q)) :
              /\ Len(Drained(mod, q)) + i \in 1..Len(q)
              /\ Undrained(mod, q)[i] = q[Len(Drained(mod, q)) + i]
<1>1. CASE mod = "all" \/ q = <<>>
  <2>1. Drained(mod, q) = q /\ Undrained(mod, q) = <<>>
    BY <1>1 DEF Drained, Undrained
  <2> QED BY <2>1
<1>2. CASE mod # "all" /\ q # <<>>
  <2>1. Drained(mod, q) = <<Head(q)>> /\ Undrained(mod, q) = Tail(q)
    BY <1>2 DEF Drained, Undrained
  <2> QED BY <1>2, <2>1
<1> QED BY <1>1, <1>2

LEMMA DrainFromUser ==
  ASSUME NEW mod, NEW q \in Seq(Message), NEW vias, NEW log, FromUser(q, vias, log)
  PROVE  FromUser(Drained(mod, q), vias, log) /\ FromUser(Undrained(mod, q), vias, log)
<1> DEFINE d == Drained(mod, q)
           u == Undrained(mod, q)
<1>1. /\ \A i \in 1..Len(d) : i \in 1..Len(q) /\ d[i] = q[i]
      /\ \A i \in 1..Len(u) : Len(d) + i \in 1..Len(q) /\ u[i] = q[Len(d) + i]
  BY DrainSplits
<1>2. FromUser(d, vias, log) /\ FromUser(u, vias, log)
  <2> HIDE DEF d, u
  <2> QED BY <1>1 DEF FromUser
<1> QED BY <1>2

LEMMA TailFromUser ==
  ASSUME NEW q \in Seq(Message), q # <<>>, NEW vias, NEW log, FromUser(q, vias, log)
  PROVE  FromUser(Tail(q), vias, log)
<1>1. \A i \in 1..Len(Tail(q)) : i + 1 \in 1..Len(q) /\ Tail(q)[i] = q[i + 1]
  OBVIOUS
<1> QED BY <1>1 DEF FromUser

LEMMA WiderFromUser ==
  ASSUME NEW s, NEW vias, NEW log, FromUser(s, vias, log), NEW more, vias \subseteq more
  PROVE  FromUser(s, more, log)
BY DEF FromUser

\* Sending a message.
LEMMA Sending ==
  ASSUME TypeOK, NEW via \in Via, Send(via)
  PROVE  /\ Len(sent') = Len(sent) + 1 /\ DOMAIN sent = 1..Len(sent)
         /\ DOMAIN sent' = 1..(Len(sent) + 1)
         /\ sent'[Len(sent')] = via /\ \A m \in DOMAIN sent : sent'[m] = sent[m]
         /\ User(Len(sent')) \in Message
         /\ User(Len(sent')).role = "user" /\ User(Len(sent')).run = 0
         /\ User(Len(sent')).n = Len(sent')
<1>1. sent \in Seq(Via \cup {"withdrawn"}) /\ sent' = Append(sent, via)
  BY DEF TypeOK, RunTypes, Send
<1>2. Len(sent') \in Nat BY <1>1
<1>3. User(Len(sent')) \in Message BY <1>2, BuiltMessages DEF TypeOK
<1> QED BY <1>1, <1>3 DEF User

\* Withdrawing messages, and with them the queues they are in.
LEMMA Withdrawing ==
  ASSUME NEW ids, sent' = Withdraw(ids)
  PROVE  /\ DOMAIN sent' = DOMAIN sent
         /\ \A m \in DOMAIN sent : sent'[m] = IF m \in ids THEN "withdrawn" ELSE sent[m]
BY DEF Withdraw

LEMMA FromUserTypes ==
  ASSUME TypeOK, QueuedSent
  PROVE  /\ \A m \in Ids(steeringQueue) : m \in DOMAIN sent /\ sent[m] = "steer"
         /\ \A m \in Ids(followUpQueue) : m \in DOMAIN sent /\ sent[m] = "followUp"
<1>1. DOMAIN steeringQueue = 1..Len(steeringQueue) /\ DOMAIN followUpQueue = 1..Len(followUpQueue)
  BY DEF TypeOK, MessageTypes
<1> QED BY <1>1 DEF QueuedSent, FromUser, Ids, ToSet

LEMMA InitSent == Init => SentInv
<1> SUFFICES ASSUME Init PROVE SentInv OBVIOUS
<1>1. \A vias, log : FromUser(<<>>, vias, log) BY DEF FromUser
<1> QED BY <1>1 DEF Init, SentInv, QueuedSent, TranscriptSent, HoldsToEmit

LEMMA NextHolds == TypeOK /\ HoldsToEmit /\ Next => HoldsToEmit'
<1> SUFFICES ASSUME TypeOK, HoldsToEmit, Next PROVE HoldsToEmit' OBVIOUS
<1> USE DEF HoldsToEmit, ownerVars, loopVars, batchVars
<1>1. \A mod : Drained(mod, <<>>) = <<>> BY DEF Drained
<1>2. ASSUME NEW prompts, NEW skip, StartRun(prompts, skip) PROVE HoldsToEmit'
  BY <1>2 DEF StartRun
<1>3. CASE OwnerStep
  BY <1>2, <1>3 DEF OwnerStep, Prompt, Continue, Steer, FollowUp, Abort, ClearSteeringQueue,
              ClearFollowUpQueue, ClearAllQueues, Reset
<1>4. CASE LoopStep
  <2>1. CASE EmitMessage \/ PollAtStart \/ Request \/ StopAfterError
    BY <2>1 DEF EmitMessage, PollAtStart, Request, StopAfterError
  <2>2. ASSUME NEW k \in 0..MaxCalls, Reply(k) PROVE HoldsToEmit' BY <2>2 DEF Reply
  <2>3. CASE EndTurn BY <1>1, <2>3 DEF EndTurn, AfterTurn
  <2>4. CASE PollFollowUp BY <1>1, <2>4 DEF PollFollowUp
  <2>5. ASSUME NEW i \in 1..MaxCalls, PrepareCall(i) \/ FinishCall(i) \/ AnswerCall(i)
        PROVE  HoldsToEmit'
    BY <2>5 DEF PrepareCall, Enters, FinishCall, AnswerCall, toolVars
  <2>6. CASE ExecuteAll \/ FinishRun BY <2>6 DEF ExecuteAll, FinishRun, toolVars
  <2>7. CASE EndBatch BY <2>7, EndBatchEffect
  <2> QED BY <1>4, <2>1, <2>2, <2>3, <2>4, <2>5, <2>6, <2>7 DEF LoopStep
<1>5. CASE Failure BY <1>5 DEF Failure, RunFails, FinishCallFails, HandleRunFailure
<1>6. ASSUME NEW c \in late, LateFinish(c) PROVE HoldsToEmit' BY <1>6 DEF LateFinish
<1>7. CASE Rest BY <1>7 DEF Rest, vars
<1> QED BY <1>3, <1>4, <1>5, <1>6, <1>7 DEF Next

\* What reaches the transcript.
LEMMA TranscriptGrows ==
  ASSUME TypeOK, TranscriptSent, NEW e \in Message, messages' = Append(messages, e),
         DOMAIN sent \subseteq DOMAIN sent', runs' = runs,
         e.role = "user" => e.run = 0 /\ e.n \in DOMAIN sent,
         e.role # "user" => e.run <= runs
  PROVE  TranscriptSent'
<1>1. \A p \in 1..Len(messages') : (p \in 1..Len(messages) /\ messages'[p] = messages[p]) \/ messages'[p] = e
  BY DEF TypeOK, MessageTypes
<1> QED BY <1>1 DEF TranscriptSent

LEMMA TranscriptStays ==
  ASSUME TypeOK, TranscriptSent, messages' = messages, DOMAIN sent \subseteq DOMAIN sent',
         runs' = runs \/ runs' = runs + 1
  PROVE  TranscriptSent'
<1>1. /\ runs \in Nat
      /\ \A p \in 1..Len(messages) : messages[p].run \in Nat
  <2>1. \A p \in 1..Len(messages) : messages[p] \in Message BY DEF TypeOK, MessageTypes
  <2>2. \A m \in Message : m.run \in Nat BY DEF Message
  <2> QED BY <2>1, <2>2 DEF TypeOK, RunTypes
<1> QED BY <1>1 DEF TranscriptSent

\* A queue is drained into the hands of the loop.
LEMMA QueueTaken ==
  ASSUME TypeOK, QueuedSent, sent' = sent, NEW mod,
         \/ /\ pendingMessages' = Drained(mod, steeringQueue)
            /\ steeringQueue' = Undrained(mod, steeringQueue) /\ followUpQueue' = followUpQueue
         \/ /\ pendingMessages' = Drained(mod, followUpQueue)
            /\ followUpQueue' = Undrained(mod, followUpQueue) /\ steeringQueue' = steeringQueue
  PROVE  QueuedSent'
<1>1. steeringQueue \in Seq(Message) /\ followUpQueue \in Seq(Message)
  BY DEF TypeOK, MessageTypes
<1>2. {"steer"} \subseteq Via \cup {"withdrawn"} /\ {"followUp"} \subseteq Via \cup {"withdrawn"}
  BY DEF Via
<1>3. /\ FromUser(steeringQueue, {"steer"}, sent) /\ FromUser(followUpQueue, {"followUp"}, sent)
  BY DEF QueuedSent
<1>4. CASE /\ pendingMessages' = Drained(mod, steeringQueue)
           /\ steeringQueue' = Undrained(mod, steeringQueue) /\ followUpQueue' = followUpQueue
  <2>1. /\ FromUser(Drained(mod, steeringQueue), {"steer"}, sent)
        /\ FromUser(Undrained(mod, steeringQueue), {"steer"}, sent)
    BY <1>1, <1>3, DrainFromUser
  <2>2. FromUser(Drained(mod, steeringQueue), Via \cup {"withdrawn"}, sent)
    BY <1>2, <2>1, WiderFromUser
  <2> QED BY <1>3, <1>4, <2>1, <2>2 DEF QueuedSent
<1>5. CASE /\ pendingMessages' = Drained(mod, followUpQueue)
           /\ followUpQueue' = Undrained(mod, followUpQueue) /\ steeringQueue' = steeringQueue
  <2>1. /\ FromUser(Drained(mod, followUpQueue), {"followUp"}, sent)
        /\ FromUser(Undrained(mod, followUpQueue), {"followUp"}, sent)
    BY <1>1, <1>3, DrainFromUser
  <2>2. FromUser(Drained(mod, followUpQueue), Via \cup {"withdrawn"}, sent)
    BY <1>2, <2>1, WiderFromUser
  <2> QED BY <1>3, <1>5, <2>1, <2>2 DEF QueuedSent
<1> QED BY <1>4, <1>5

\* A message is sent: what was queued before is as it was.
LEMMA SendKeeps ==
  ASSUME TypeOK, QueuedSent, NEW via \in Via, Send(via)
  PROVE  /\ FromUser(steeringQueue, {"steer"}, sent') /\ FromUser(followUpQueue, {"followUp"}, sent')
         /\ FromUser(pendingMessages, Via \cup {"withdrawn"}, sent')
         /\ DOMAIN sent \subseteq DOMAIN sent'
<1>1. DOMAIN sent \subseteq DOMAIN sent' /\ \A m \in DOMAIN sent : sent'[m] = sent[m]
  BY Sending
<1>2. ASSUME NEW s, NEW vias, FromUser(s, vias, sent) PROVE FromUser(s, vias, sent')
  BY <1>1, <1>2 DEF FromUser
<1> QED BY <1>1, <1>2 DEF QueuedSent

LEMMA QueueAppended ==
  ASSUME NEW q \in Seq(Message), NEW vias, NEW log, FromUser(q, vias, log), NEW m \in Message,
         m.role = "user", m.run = 0, m.n \in DOMAIN log, log[m.n] \in vias
  PROVE  FromUser(Append(q, m), vias, log)
<1>1. \A p \in 1..Len(Append(q, m)) : (p \in 1..Len(q) /\ Append(q, m)[p] = q[p]) \/ Append(q, m)[p] = m
  OBVIOUS
<1> QED BY <1>1 DEF FromUser

LEMMA NextSent == TypeOK /\ SentInv /\ Next => SentInv'
<1> SUFFICES ASSUME TypeOK, SentInv, Next PROVE QueuedSent' /\ TranscriptSent'
  BY NextHolds DEF SentInv
<1> USE DEF SentInv
<1>1. /\ steeringQueue \in Seq(Message) /\ followUpQueue \in Seq(Message)
      /\ pendingMessages \in Seq(Message) /\ messages \in Seq(Message) /\ runs \in Nat
      /\ <<>> \in Seq(Message)
  BY DEF TypeOK, MessageTypes, RunTypes
<1>2. \A vias, log : FromUser(<<>>, vias, log) BY DEF FromUser
<1>3. ASSUME UNCHANGED <<steeringQueue, followUpQueue, pendingMessages, sent>> PROVE QueuedSent'
  BY <1>3 DEF QueuedSent
<1>4. ASSUME UNCHANGED <<messages, sent, runs>> PROVE TranscriptSent'
  BY <1>4, TranscriptStays
<1>5. ASSUME NEW prompts, NEW skip, StartRun(prompts, skip)
      PROVE  pendingMessages' = prompts /\ messages' = messages /\ runs' = runs + 1 /\ pendingMessages = <<>>
  BY <1>5 DEF StartRun, Idle, HoldsToEmit
<1>6. CASE OwnerStep
  <2>1. CASE Prompt
    <3>1. /\ Send("prompt") /\ StartRun(<<User(Len(sent'))>>, FALSE) /\ "prompt" \in Via
          /\ steeringQueue' = steeringQueue /\ followUpQueue' = followUpQueue
      BY <2>1 DEF Prompt, Via
    <3>2. pendingMessages' = <<User(Len(sent'))>> /\ messages' = messages /\ runs' = runs + 1
      BY <1>5, <3>1
    <3>3. FromUser(pendingMessages', Via \cup {"withdrawn"}, sent')
      <4>1. Len(sent') \in DOMAIN sent' BY <3>1, Sending DEF TypeOK, RunTypes
      <4>2. LET m == User(Len(sent')) IN
              m.role = "user" /\ m.run = 0 /\ m.n \in DOMAIN sent' /\ sent'[m.n] \in Via
        BY <3>1, <4>1, Sending
      <4>3. \A m : Len(<<m>>) = 1 /\ <<m>>[1] = m OBVIOUS
      <4> QED BY <3>2, <4>2, <4>3 DEF FromUser
    <3> QED BY <3>1, <3>2, <3>3, SendKeeps, TranscriptStays DEF QueuedSent
  <2>2. CASE Continue
    <3>1. sent' = sent /\ messages' = messages /\ runs' = runs + 1
      BY <1>5, <2>2 DEF Continue
    <3>2. TranscriptSent' BY <3>1, TranscriptStays
    <3>3. CASE /\ StartRun(<<>>, FALSE) /\ UNCHANGED <<steeringQueue, followUpQueue>>
      <4>1. pendingMessages' = <<>> BY <1>5, <3>3
      <4>2. FromUser(<<>>, Via \cup {"withdrawn"}, sent) BY <1>2
      <4> QED BY <3>1, <3>2, <3>3, <4>1, <4>2 DEF QueuedSent
    <3>4. CASE /\ StartRun(Drained(SteeringMode, steeringQueue), TRUE)
               /\ steeringQueue' = Undrained(SteeringMode, steeringQueue)
               /\ UNCHANGED followUpQueue
      BY <1>5, <3>1, <3>2, <3>4, QueueTaken
    <3>5. CASE /\ StartRun(Drained(FollowUpMode, followUpQueue), FALSE)
               /\ followUpQueue' = Undrained(FollowUpMode, followUpQueue)
               /\ UNCHANGED steeringQueue
      BY <1>5, <3>1, <3>2, <3>5, QueueTaken
    <3> QED BY <2>2, <3>2, <3>3, <3>4, <3>5 DEF Continue
  <2>3. CASE Steer
    <3>1. /\ Send("steer") /\ steeringQueue' = Append(steeringQueue, User(Len(sent'))) /\ "steer" \in Via
          /\ UNCHANGED <<messages, followUpQueue, pendingMessages, runs>>
      BY <2>3 DEF Steer, Via, loopVars
    <3>2. FromUser(steeringQueue', {"steer"}, sent')
      <4>1. Len(sent') \in DOMAIN sent' BY <3>1, Sending DEF TypeOK, RunTypes
      <4> QED BY <1>1, <3>1, <4>1, Sending, SendKeeps, QueueAppended
    <3> QED BY <3>1, <3>2, SendKeeps, TranscriptStays DEF QueuedSent
  <2>4. CASE FollowUp
    <3>1. /\ Send("followUp") /\ followUpQueue' = Append(followUpQueue, User(Len(sent')))
          /\ "followUp" \in Via
          /\ UNCHANGED <<messages, steeringQueue, pendingMessages, runs>>
      BY <2>4 DEF FollowUp, Via, loopVars
    <3>2. FromUser(followUpQueue', {"followUp"}, sent')
      <4>1. Len(sent') \in DOMAIN sent' BY <3>1, Sending DEF TypeOK, RunTypes
      <4> QED BY <1>1, <3>1, <4>1, Sending, SendKeeps, QueueAppended
    <3> QED BY <3>1, <3>2, SendKeeps, TranscriptStays DEF QueuedSent
  <2>5. CASE Abort BY <1>3, <1>4, <2>5 DEF Abort, ownerVars, loopVars
  <2>6. ASSUME NEW ids, sent' = Withdraw(ids), UNCHANGED <<pendingMessages, runs>>,
               messages' = messages \/ messages' = <<>>,
               steeringQueue' = <<>> \/ (steeringQueue' = steeringQueue /\ ids = Ids(followUpQueue)),
               followUpQueue' = <<>> \/ (followUpQueue' = followUpQueue /\ ids = Ids(steeringQueue))
        PROVE  QueuedSent' /\ TranscriptSent'
    <3>1. /\ DOMAIN sent' = DOMAIN sent
          /\ \A m \in DOMAIN sent : sent'[m] = IF m \in ids THEN "withdrawn" ELSE sent[m]
      BY <2>6, Withdrawing
    <3>2. TranscriptSent'
      <4>1. CASE messages' = <<>> BY <4>1 DEF TranscriptSent
      <4>2. CASE messages' = messages BY <2>6, <3>1, <4>2, TranscriptStays
      <4> QED BY <2>6, <4>1, <4>2
    <3>3. FromUser(pendingMessages', Via \cup {"withdrawn"}, sent')
      BY <2>6, <3>1 DEF QueuedSent, FromUser
    <3>4. FromUser(steeringQueue', {"steer"}, sent')
      <4>1. CASE steeringQueue' = <<>> BY <1>2, <4>1
      <4>2. CASE steeringQueue' = steeringQueue /\ ids = Ids(followUpQueue)
        BY <3>1, <4>2, FromUserTypes DEF QueuedSent, FromUser
      <4> QED BY <2>6, <4>1, <4>2
    <3>5. FromUser(followUpQueue', {"followUp"}, sent')
      <4>1. CASE followUpQueue' = <<>> BY <1>2, <4>1
      <4>2. CASE followUpQueue' = followUpQueue /\ ids = Ids(steeringQueue)
        BY <3>1, <4>2, FromUserTypes DEF QueuedSent, FromUser
      <4> QED BY <2>6, <4>1, <4>2
    <3> QED BY <3>2, <3>3, <3>4, <3>5 DEF QueuedSent
  <2>7. CASE ClearSteeringQueue BY <2>6, <2>7 DEF ClearSteeringQueue, loopVars
  <2>8. CASE ClearFollowUpQueue BY <2>6, <2>8 DEF ClearFollowUpQueue, loopVars
  <2>9. CASE ClearAllQueues BY <2>6, <2>9 DEF ClearAllQueues, loopVars
  <2>10. CASE Reset BY <2>6, <2>10 DEF Reset, loopVars
  <2> QED BY <1>6, <2>1, <2>2, <2>3, <2>4, <2>5, <2>7, <2>8, <2>9, <2>10 DEF OwnerStep
<1>7. CASE LoopStep
  <2> USE DEF ownerVars, loopVars, batchVars
  <2>1. CASE EmitMessage
    <3>1. /\ pendingMessages # <<>> /\ messages' = Append(messages, Head(pendingMessages))
          /\ pendingMessages' = Tail(pendingMessages)
          /\ UNCHANGED <<steeringQueue, followUpQueue, sent, runs>>
      BY <2>1 DEF EmitMessage
    <3>2. Head(pendingMessages) = pendingMessages[1] /\ 1 \in 1..Len(pendingMessages)
      BY <1>1, <3>1
    <3>3. Head(pendingMessages) \in Message BY <1>1, <3>1
    <3>4. TranscriptSent'
      BY <3>1, <3>2, <3>3, TranscriptGrows DEF QueuedSent, FromUser
    <3> QED BY <1>1, <3>1, <3>4, TailFromUser DEF QueuedSent
  <2>2. CASE PollAtStart
    <3>1. CASE UNCHANGED <<pendingMessages, steeringQueue>>
      BY <1>3, <1>4, <2>2, <3>1 DEF PollAtStart
    <3>2. CASE /\ pendingMessages' = Drained(SteeringMode, steeringQueue)
               /\ steeringQueue' = Undrained(SteeringMode, steeringQueue)
      BY <1>4, <2>2, <3>2, QueueTaken DEF PollAtStart
    <3> QED BY <2>2, <3>1, <3>2 DEF PollAtStart
  <2>3. CASE Request \/ StopAfterError BY <1>3, <1>4, <2>3 DEF Request, StopAfterError
  <2>4. ASSUME NEW k \in 0..MaxCalls, Reply(k) PROVE QueuedSent' /\ TranscriptSent'
    <3>1. /\ messages' = Append(messages, Assistant(k))
          /\ UNCHANGED <<steeringQueue, followUpQueue, pendingMessages, sent, runs>>
      BY <2>4 DEF Reply
    <3>2. Assistant(k) \in Message BY BuiltMessages, BoundAssumption DEF TypeOK
    <3>3. Assistant(k).role = "assistant" /\ Assistant(k).run = runs BY DEF Assistant
    <3> QED BY <1>1, <1>3, <3>1, <3>2, <3>3, TranscriptGrows
  <2>5. CASE EndTurn
    <3>1. CASE UNCHANGED <<pendingMessages, steeringQueue>>
      BY <1>3, <1>4, <2>5, <3>1 DEF EndTurn
    <3>2. CASE /\ pendingMessages' = Drained(SteeringMode, steeringQueue)
               /\ steeringQueue' = Undrained(SteeringMode, steeringQueue)
      BY <1>4, <2>5, <3>2, QueueTaken DEF EndTurn
    <3> QED BY <2>5, <3>1, <3>2 DEF EndTurn
  <2>6. CASE PollFollowUp BY <1>4, <2>6, QueueTaken DEF PollFollowUp
  <2>7. ASSUME NEW i \in 1..MaxCalls, PrepareCall(i) \/ FinishCall(i)
        PROVE  QueuedSent' /\ TranscriptSent'
    BY <1>3, <1>4, <2>7 DEF PrepareCall, FinishCall, toolVars
  <2>8. ASSUME NEW i \in 1..MaxCalls, AnswerCall(i) PROVE QueuedSent' /\ TranscriptSent'
    <3>1. /\ messages' = Append(messages, Result(i))
          /\ UNCHANGED <<steeringQueue, followUpQueue, pendingMessages, sent, runs>>
      BY <2>8 DEF AnswerCall
    <3>2. Result(i) \in Message BY BuiltMessages, BoundAssumption DEF TypeOK
    <3>3. Result(i).role = "toolResult" /\ Result(i).run = runs BY DEF Result
    <3> QED BY <1>1, <1>3, <3>1, <3>2, <3>3, TranscriptGrows
  <2>9. CASE ExecuteAll BY <1>3, <1>4, <2>9 DEF ExecuteAll, toolVars
  <2>10. CASE EndBatch BY <1>3, <1>4, <2>10, EndBatchEffect
  <2>11. CASE FinishRun BY <1>2, <1>4, <2>11 DEF FinishRun, QueuedSent
  <2> QED BY <1>7, <2>1, <2>2, <2>3, <2>4, <2>5, <2>6, <2>7, <2>8, <2>9, <2>10, <2>11 DEF LoopStep
<1>8. ASSUME NEW outliving, HandleRunFailure(outliving) PROVE QueuedSent' /\ TranscriptSent'
  <2>1. /\ messages' = messages \/ messages' = Append(messages, FailureMessage)
        /\ UNCHANGED <<steeringQueue, followUpQueue, pendingMessages, sent, runs>>
    BY <1>8 DEF HandleRunFailure, ownerVars, loopVars
  <2>2. FailureMessage \in Message BY BuiltMessages DEF TypeOK
  <2>3. FailureMessage.role = "assistant" /\ FailureMessage.run = runs BY DEF FailureMessage
  <2> QED BY <1>1, <1>3, <1>4, <2>1, <2>2, <2>3, TranscriptGrows
<1>9. CASE Failure BY <1>8, <1>9 DEF Failure, RunFails, FinishCallFails
<1>10. ASSUME NEW c \in late, LateFinish(c) PROVE QueuedSent' /\ TranscriptSent'
  BY <1>3, <1>4, <1>10 DEF LateFinish, ownerVars, loopVars
<1>11. CASE Rest BY <1>3, <1>4, <1>11 DEF Rest, vars
<1> QED BY <1>6, <1>7, <1>9, <1>10, <1>11 DEF Next
-----------------------------------------------------------------------------
\* The order of what was sent one way: along the transcript, what the loop holds
\* and the queue, and from each to the next.
WasSent(m, via, log) == m.role = "user" /\ log[m.n] = via

Along(s, via, log) ==
  \A p, q \in 1..Len(s) :
    p < q /\ WasSent(s[p], via, log) /\ WasSent(s[q], via, log) => s[p].n < s[q].n
Before(s, t, via, log) ==
  \A p \in 1..Len(s), q \in 1..Len(t) :
    WasSent(s[p], via, log) /\ WasSent(t[q], via, log) => s[p].n < t[q].n
InLine(ms, ps, q, via, log) ==
  /\ Along(ms, via, log) /\ Along(ps, via, log) /\ Along(q, via, log)
  /\ Before(ms, ps, via, log) /\ Before(ms, q, via, log) /\ Before(ps, q, via, log)

OrderInv == \A via \in Via : InLine(messages, pendingMessages, Queue(via), via, sent)

\* Where a position of three sequences in a row is in its own.
LEMMA PlaceInRow ==
  ASSUME NEW a \in Nat, NEW b \in Nat, NEW c \in Nat
  PROVE  \A i \in 1..(a + b + c) :
           /\ i <= a => i \in 1..a
           /\ ~(i <= a) /\ i <= a + b => i - a \in 1..b
           /\ ~(i <= a + b) => i - (a + b) \in 1..c
OBVIOUS

\* Messages of the right kind stand in line if their numbers do.
LEMMA LineOrder ==
  ASSUME NEW ms \in Seq(Message), NEW ps \in Seq(Message), NEW q \in Seq(Message),
         NEW via, NEW log, InLine(ms, ps, q, via, log),
         NEW i \in DOMAIN (ms \o ps \o q), NEW j \in DOMAIN (ms \o ps \o q), i < j,
         WasSent((ms \o ps \o q)[i], via, log), WasSent((ms \o ps \o q)[j], via, log)
  PROVE  (ms \o ps \o q)[i].n < (ms \o ps \o q)[j].n
<1> DEFINE a == Len(ms)
           b == Len(ms) + Len(ps)
           line == ms \o ps \o q
<1>1. /\ a \in Nat /\ b \in Nat /\ Len(q) \in Nat /\ Len(ps) \in Nat /\ b = a + Len(ps)
      /\ line \in Seq(Message) /\ Len(line) = b + Len(q) /\ DOMAIN line = 1..(b + Len(q))
  OBVIOUS
<1>2. \A k \in 1..(b + Len(q)) :
        line[k] = IF k <= a THEN ms[k] ELSE IF k <= b THEN ps[k - a] ELSE q[k - b]
  <2>1. ms \o ps \in Seq(Message) /\ Len(ms \o ps) = b OBVIOUS
  <2>2. \A k \in 1..b : (ms \o ps)[k] = IF k <= a THEN ms[k] ELSE ps[k - a] OBVIOUS
  <2>3. \A k \in 1..(b + Len(q)) : line[k] = IF k <= b THEN (ms \o ps)[k] ELSE q[k - b]
    BY <2>1
  <2> HIDE DEF line
  <2> QED BY <1>1, <2>2, <2>3
<1>3. WasSent(line[i], via, log) /\ WasSent(line[j], via, log) /\ i \in 1..(b + Len(q)) /\ j \in 1..(b + Len(q))
  BY <1>1
<1>4. \A k \in 1..(b + Len(q)) :
        /\ k <= a => k \in 1..Len(ms) /\ line[k] = ms[k]
        /\ ~(k <= a) /\ k <= b => k - a \in 1..Len(ps) /\ line[k] = ps[k - a]
        /\ ~(k <= b) => k - b \in 1..Len(q) /\ line[k] = q[k - b]
  <2>1. \A k \in 1..(b + Len(q)) :
          /\ k <= a => k \in 1..a
          /\ ~(k <= a) /\ k <= b => k - a \in 1..Len(ps)
          /\ ~(k <= b) => k - b \in 1..Len(q)
    BY <1>1, PlaceInRow
  <2>2. \A k \in 1..(b + Len(q)) : ~(k <= b) => ~(k <= a)
    BY <1>1
  <2> HIDE DEF line, b
  <2> QED BY <1>2, <2>1, <2>2, Zenon
<1>5. i - a < j - a /\ i - b < j - b /\ (j <= a => i <= a) /\ (j <= b => i <= b)
  BY <1>1, <1>3
<1> SUFFICES line[i].n < line[j].n OBVIOUS
<1> HIDE DEF line, a, b
<1>6. CASE j <= a
  BY <1>3, <1>4, <1>5, <1>6 DEF InLine, Along
<1>7. CASE i <= a /\ ~(j <= a) /\ j <= b
  BY <1>3, <1>4, <1>7 DEF InLine, Before
<1>8. CASE i <= a /\ ~(j <= b)
  BY <1>3, <1>4, <1>8 DEF InLine, Before
<1>9. CASE ~(i <= a) /\ j <= b
  <2>1. ~(j <= a) /\ i <= b BY <1>5, <1>9
  <2>2. i - a \in 1..Len(ps) /\ line[i] = ps[i - a] BY <1>3, <1>4, <1>9, <2>1
  <2>3. j - a \in 1..Len(ps) /\ line[j] = ps[j - a] BY <1>3, <1>4, <1>9, <2>1
  <2> QED BY <1>3, <1>5, <2>2, <2>3 DEF InLine, Along
<1>10. CASE ~(i <= a) /\ i <= b /\ ~(j <= b)
  BY <1>3, <1>4, <1>10 DEF InLine, Before
<1>11. CASE ~(i <= b)
  <2>1. ~(j <= b) BY <1>5, <1>11
  <2>2. i - b \in 1..Len(q) /\ line[i] = q[i - b] BY <1>3, <1>4, <1>11
  <2>3. j - b \in 1..Len(q) /\ line[j] = q[j - b] BY <1>3, <1>4, <2>1
  <2> QED BY <1>3, <1>5, <2>2, <2>3 DEF InLine, Along
<1> QED BY <1>6, <1>7, <1>8, <1>9, <1>10, <1>11

\* The first message in hand goes to the transcript.
LEMMA LineMoves ==
  ASSUME NEW ms \in Seq(Message), NEW ps \in Seq(Message), ps # <<>>, NEW q \in Seq(Message),
         NEW via, NEW log, InLine(ms, ps, q, via, log)
  PROVE  InLine(Append(ms, Head(ps)), Tail(ps), q, via, log)
<1> DEFINE a == Append(ms, Head(ps))
           t == Tail(ps)
<1>1. /\ Len(a) = Len(ms) + 1 /\ Len(ms) \in Nat
      /\ \A i \in 1..Len(ms) : a[i] = ms[i]
      /\ a[Len(ms) + 1] = ps[1] /\ 1 \in 1..Len(ps)
  OBVIOUS
<1>2. \A i \in 1..Len(t) : i + 1 \in 1..Len(ps) /\ t[i] = ps[i + 1] /\ 1 < i + 1
  OBVIOUS
<1> SUFFICES InLine(a, t, q, via, log) OBVIOUS
<1> HIDE DEF a, t
<1>3. \A i \in 1..Len(a) : i \in 1..Len(ms) \/ i = Len(ms) + 1
  BY <1>1
<1>4. Along(a, via, log)
  <2> SUFFICES ASSUME NEW i \in 1..Len(a), NEW j \in 1..Len(a), i < j,
                      WasSent(a[i], via, log), WasSent(a[j], via, log)
               PROVE  a[i].n < a[j].n
    BY DEF Along
  <2>1. i \in 1..Len(ms) /\ a[i] = ms[i] BY <1>1
  <2>2. CASE j \in 1..Len(ms)
    <3>1. a[j] = ms[j] BY <1>1, <2>2
    <3> QED BY <2>1, <2>2, <3>1 DEF InLine, Along
  <2>3. CASE j = Len(ms) + 1
    BY <1>1, <2>1, <2>3 DEF InLine, Before
  <2> QED BY <1>3, <2>2, <2>3
<1>5. Along(t, via, log)
  <2>1. \A i, j \in 1..Len(t) : i < j => i + 1 < j + 1 OBVIOUS
  <2> QED BY <1>2, <2>1 DEF InLine, Along
<1>6. Before(a, t, via, log)
  <2> SUFFICES ASSUME NEW i \in 1..Len(a), NEW j \in 1..Len(t),
                      WasSent(a[i], via, log), WasSent(t[j], via, log)
               PROVE  a[i].n < t[j].n
    BY DEF Before
  <2>1. CASE i \in 1..Len(ms)
    BY <1>1, <1>2, <2>1 DEF InLine, Before
  <2>2. CASE i = Len(ms) + 1
    BY <1>1, <1>2, <2>2 DEF InLine, Along
  <2> QED BY <1>3, <2>1, <2>2
<1>7. Before(a, q, via, log)
  BY <1>1, <1>3 DEF InLine, Before
<1>8. Before(t, q, via, log)
  BY <1>2 DEF InLine, Before
<1> QED BY <1>4, <1>5, <1>6, <1>7, <1>8 DEF InLine

\* Something that no user sent is added to the transcript.
LEMMA LineGrows ==
  ASSUME NEW ms \in Seq(Message), NEW e \in Message, e.role # "user", NEW ps, NEW q,
         NEW via, NEW log, InLine(ms, ps, q, via, log)
  PROVE  InLine(Append(ms, e), ps, q, via, log)
<1> DEFINE a == Append(ms, e)
<1>1. /\ Len(a) = Len(ms) + 1 /\ Len(ms) \in Nat
      /\ \A i \in 1..Len(a) : (i \in 1..Len(ms) /\ a[i] = ms[i]) \/ a[i] = e
  OBVIOUS
<1> SUFFICES InLine(a, ps, q, via, log) OBVIOUS
<1> HIDE DEF a
<1>2. \A i \in 1..Len(a) : WasSent(a[i], via, log) => i \in 1..Len(ms) /\ a[i] = ms[i]
  BY <1>1 DEF WasSent
<1>3. Along(a, via, log) /\ Before(a, ps, via, log) /\ Before(a, q, via, log)
  BY <1>2 DEF InLine, Along, Before
<1> QED BY <1>3 DEF InLine

\* The front of the queue is taken in empty hands.
LEMMA LineTakes ==
  ASSUME NEW ms \in Seq(Message), NEW q \in Seq(Message), NEW mod,
         NEW via, NEW log, InLine(ms, <<>>, q, via, log)
  PROVE  InLine(ms, Drained(mod, q), Undrained(mod, q), via, log)
<1> DEFINE d == Drained(mod, q)
           u == Undrained(mod, q)
<1>1. /\ Len(d) \in Nat /\ Len(u) \in Nat
      /\ \A i \in 1..Len(d) : i \in 1..Len(q) /\ d[i] = q[i]
      /\ \A i \in 1..Len(u) : Len(d) + i \in 1..Len(q) /\ u[i] = q[Len(d) + i]
  BY DrainSplits
<1> SUFFICES InLine(ms, d, u, via, log) OBVIOUS
<1> HIDE DEF d, u
<1>2. Along(d, via, log) BY <1>1 DEF InLine, Along
<1>3. Along(u, via, log)
  <2>1. \A i, j \in 1..Len(u) : i < j => Len(d) + i < Len(d) + j BY <1>1
  <2> QED BY <1>1, <2>1 DEF InLine, Along
<1>4. Before(ms, d, via, log) /\ Before(ms, u, via, log) BY <1>1 DEF InLine, Before
<1>5. Before(d, u, via, log)
  <2>1. \A i \in 1..Len(d), j \in 1..Len(u) : i < Len(d) + j BY <1>1
  <2> QED BY <1>1, <2>1 DEF InLine, Along, Before
<1> QED BY <1>2, <1>3, <1>4, <1>5 DEF InLine

\* What was sent another way does not matter, and neither does what is dropped.
LEMMA LineSkips ==
  ASSUME NEW ms, NEW ps, NEW q, NEW via, NEW log, InLine(ms, ps, q, via, log),
         NEW s, \A p \in 1..Len(s) : ~WasSent(s[p], via, log)
  PROVE  InLine(s, ps, q, via, log) /\ InLine(ms, s, q, via, log) /\ InLine(ms, ps, s, via, log)
BY DEF InLine, Along, Before

\* A message sent now is the last, whichever way it goes.
LEMMA LineSends ==
  ASSUME NEW ms, NEW ps \in Seq(Message), NEW q \in Seq(Message), NEW via, NEW log,
         InLine(ms, ps, q, via, log), NEW m \in Message,
         \A p \in 1..Len(ms) : WasSent(ms[p], via, log) => ms[p].n < m.n,
         \A p \in 1..Len(ps) : WasSent(ps[p], via, log) => ps[p].n < m.n,
         \A p \in 1..Len(q) : WasSent(q[p], via, log) => q[p].n < m.n
  PROVE  InLine(ms, ps, Append(q, m), via, log)
<1> DEFINE a == Append(q, m)
<1>1. /\ Len(a) = Len(q) + 1 /\ Len(q) \in Nat
      /\ \A i \in 1..Len(q) : a[i] = q[i]
      /\ a[Len(q) + 1] = m
  OBVIOUS
<1> SUFFICES InLine(ms, ps, a, via, log) OBVIOUS
<1> HIDE DEF a
<1>2. \A i \in 1..Len(a) : i \in 1..Len(q) \/ i = Len(q) + 1
  BY <1>1
<1>3. Along(a, via, log)
  BY <1>1, <1>2, SMTT(30) DEF InLine, Along
<1>4. ASSUME NEW s, Before(s, q, via, log),
             \A p \in 1..Len(s) : WasSent(s[p], via, log) => s[p].n < m.n
      PROVE  Before(s, a, via, log)
  <2> SUFFICES ASSUME NEW p \in 1..Len(s), NEW i \in 1..Len(a),
                      WasSent(s[p], via, log), WasSent(a[i], via, log)
               PROVE  s[p].n < a[i].n
    BY DEF Before
  <2>1. CASE i \in 1..Len(q)
    <3>1. a[i] = q[i] BY <1>1, <2>1
    <3> QED BY <1>4, <2>1, <3>1 DEF Before
  <2>2. CASE i = Len(q) + 1 BY <1>1, <1>4, <2>2
  <2> QED BY <1>2, <2>1, <2>2
<1>5. Before(ms, a, via, log) /\ Before(ps, a, via, log)
  BY <1>4 DEF InLine
<1> QED BY <1>3, <1>5 DEF InLine

\* The log may gain entries, and lose some to withdrawal.
LEMMA LineLog ==
  ASSUME NEW ms, NEW ps, NEW q, NEW via, NEW log, InLine(ms, ps, q, via, log), NEW log2,
         \A p \in 1..Len(ms) : WasSent(ms[p], via, log2) => WasSent(ms[p], via, log),
         \A p \in 1..Len(ps) : WasSent(ps[p], via, log2) => WasSent(ps[p], via, log),
         \A p \in 1..Len(q) : WasSent(q[p], via, log2) => WasSent(q[p], via, log)
  PROVE  InLine(ms, ps, q, via, log2)
BY DEF InLine, Along, Before

\* Everything in line was sent before, and a queue holds its own.
LEMMA LineKnown ==
  ASSUME TypeOK, SentInv
  PROVE  /\ \A p \in 1..Len(messages) : messages[p].role = "user" => messages[p].n \in DOMAIN sent
         /\ \A p \in 1..Len(pendingMessages) : pendingMessages[p].n \in DOMAIN sent
         /\ \A via : \A p \in 1..Len(Queue(via)) : Queue(via)[p].n \in DOMAIN sent
         /\ \A via : \A p \in 1..Len(steeringQueue) : WasSent(steeringQueue[p], via, sent) => via = "steer"
         /\ \A via : \A p \in 1..Len(followUpQueue) : WasSent(followUpQueue[p], via, sent) => via = "followUp"
         /\ \A via : Queue(via) \in Seq(Message)
  BY DEF TypeOK, MessageTypes, SentInv, QueuedSent, TranscriptSent, FromUser, Queue, WasSent

\* A queue is drained while the loop holds nothing.
LEMMA OrderTaken ==
  ASSUME TypeOK, SentInv, OrderInv, sent' = sent, messages' = messages, pendingMessages = <<>>,
         NEW mod,
         \/ /\ pendingMessages' = Drained(mod, steeringQueue)
            /\ steeringQueue' = Undrained(mod, steeringQueue) /\ followUpQueue' = followUpQueue
         \/ /\ pendingMessages' = Drained(mod, followUpQueue)
            /\ followUpQueue' = Undrained(mod, followUpQueue) /\ steeringQueue' = steeringQueue
  PROVE  OrderInv'
<1>1. messages \in Seq(Message) /\ steeringQueue \in Seq(Message) /\ followUpQueue \in Seq(Message)
  BY DEF TypeOK, MessageTypes
<1> SUFFICES ASSUME NEW via \in Via
             PROVE  InLine(messages', pendingMessages', Queue(via)', via, sent')
  BY DEF OrderInv
<1>2. InLine(messages, <<>>, Queue(via), via, sent)
  BY DEF OrderInv
<1>3. ASSUME NEW q \in Seq(Message), \A p \in 1..Len(q) : ~WasSent(q[p], via, sent)
      PROVE  /\ \A p \in 1..Len(Drained(mod, q)) : ~WasSent(Drained(mod, q)[p], via, sent)
             /\ \A p \in 1..Len(Undrained(mod, q)) : ~WasSent(Undrained(mod, q)[p], via, sent)
  <2> DEFINE d == Drained(mod, q)
             u == Undrained(mod, q)
  <2>1. /\ \A i \in 1..Len(d) : i \in 1..Len(q) /\ d[i] = q[i]
        /\ \A i \in 1..Len(u) : Len(d) + i \in 1..Len(q) /\ u[i] = q[Len(d) + i]
    BY DrainSplits
  <2> SUFFICES /\ \A p \in 1..Len(d) : ~WasSent(d[p], via, sent)
               /\ \A p \in 1..Len(u) : ~WasSent(u[p], via, sent)
    OBVIOUS
  <2> HIDE DEF d, u
  <2> QED BY <1>3, <2>1
<1>4. CASE /\ pendingMessages' = Drained(mod, steeringQueue)
           /\ steeringQueue' = Undrained(mod, steeringQueue) /\ followUpQueue' = followUpQueue
  <2>1. CASE via = "steer"
    <3>1. Queue(via) = steeringQueue /\ Queue(via)' = steeringQueue' BY <2>1 DEF Queue
    <3> QED BY <1>1, <1>2, <1>4, <3>1, LineTakes
  <2>2. CASE via # "steer"
    <3>1. \A p \in 1..Len(steeringQueue) : ~WasSent(steeringQueue[p], via, sent)
      BY <2>2, LineKnown
    <3>2. InLine(messages, Drained(mod, steeringQueue), Queue(via), via, sent)
      BY <1>1, <1>2, <1>3, <3>1, LineSkips
    <3>3. CASE via = "followUp"
      BY <1>4, <3>2, <3>3 DEF Queue
    <3>4. CASE via # "followUp"
      <4>1. Queue(via)' = Undrained(mod, steeringQueue) BY <1>4, <3>4 DEF Queue
      <4> QED BY <1>1, <1>3, <1>4, <3>1, <3>2, <4>1, LineSkips
    <3> QED BY <3>3, <3>4
  <2> QED BY <2>1, <2>2
<1>5. CASE /\ pendingMessages' = Drained(mod, followUpQueue)
           /\ followUpQueue' = Undrained(mod, followUpQueue) /\ steeringQueue' = steeringQueue
  <2>1. CASE via = "followUp"
    <3>1. Queue(via) = followUpQueue /\ Queue(via)' = followUpQueue' BY <2>1 DEF Queue
    <3> QED BY <1>1, <1>2, <1>5, <3>1, LineTakes
  <2>2. CASE via # "followUp"
    <3>1. \A p \in 1..Len(followUpQueue) : ~WasSent(followUpQueue[p], via, sent)
      BY <2>2, LineKnown
    <3>2. InLine(messages, Drained(mod, followUpQueue), Queue(via), via, sent)
      BY <1>1, <1>2, <1>3, <3>1, LineSkips
    <3> QED BY <1>5, <2>2, <3>2 DEF Queue
  <2> QED BY <2>1, <2>2
<1> QED BY <1>4, <1>5

\* A message is sent: it has a number above all others.
LEMMA OrderSends ==
  ASSUME TypeOK, SentInv, OrderInv, messages' = messages, NEW w \in Via, Send(w),
         \/ /\ w = "steer" /\ steeringQueue' = Append(steeringQueue, User(Len(sent')))
            /\ pendingMessages' = pendingMessages /\ followUpQueue' = followUpQueue
         \/ /\ w = "followUp" /\ followUpQueue' = Append(followUpQueue, User(Len(sent')))
            /\ pendingMessages' = pendingMessages /\ steeringQueue' = steeringQueue
         \/ /\ w = "prompt" /\ pendingMessages = <<>> /\ pendingMessages' = <<User(Len(sent'))>>
            /\ UNCHANGED <<steeringQueue, followUpQueue>>
  PROVE  OrderInv'
<1> DEFINE new == User(Len(sent'))
<1>1. /\ Len(sent) \in Nat /\ DOMAIN sent = 1..Len(sent) /\ Len(sent') = Len(sent) + 1
      /\ new \in Message /\ new.role = "user" /\ new.n = Len(sent') /\ sent'[new.n] = w
      /\ \A m \in DOMAIN sent : sent'[m] = sent[m]
  BY Sending DEF TypeOK, RunTypes
<1>2. pendingMessages \in Seq(Message) /\ messages \in Seq(Message) BY DEF TypeOK, MessageTypes
<1> SUFFICES ASSUME NEW via \in Via
             PROVE  InLine(messages', pendingMessages', Queue(via)', via, sent')
  BY DEF OrderInv
<1> HIDE DEF new
<1>3. /\ \A p \in 1..Len(messages) : WasSent(messages[p], via, sent') =>
           WasSent(messages[p], via, sent) /\ messages[p].n < new.n
      /\ \A p \in 1..Len(pendingMessages) : WasSent(pendingMessages[p], via, sent') =>
           WasSent(pendingMessages[p], via, sent) /\ pendingMessages[p].n < new.n
      /\ \A p \in 1..Len(Queue(via)) : WasSent(Queue(via)[p], via, sent') =>
           WasSent(Queue(via)[p], via, sent) /\ Queue(via)[p].n < new.n
      /\ Queue(via) \in Seq(Message)
  BY <1>1, LineKnown DEF WasSent
<1>4. InLine(messages, pendingMessages, Queue(via), via, sent')
  <2>1. InLine(messages, pendingMessages, Queue(via), via, sent) BY DEF OrderInv
  <2> QED BY <1>3, <2>1, LineLog
<1>5. WasSent(new, via, sent') => via = w
  BY <1>1 DEF WasSent
<1>6. InLine(messages, pendingMessages, Append(Queue(via), new), via, sent')
  BY <1>1, <1>2, <1>3, <1>4, LineSends
<1>7. CASE w # "prompt"
  <2>1. pendingMessages' = pendingMessages BY <1>7
  <2>2. Queue(via)' = Queue(via) \/ Queue(via)' = Append(Queue(via), new)
    BY <1>7 DEF Queue, new
  <2> QED BY <1>4, <1>6, <2>1, <2>2
<1>8. CASE w = "prompt"
  <2>1. /\ pendingMessages = <<>> /\ pendingMessages' = <<new>> /\ Queue(via)' = Queue(via)
    BY <1>8 DEF Queue, new
  <2>2. Len(<<new>>) = 1 /\ <<new>>[1] = new OBVIOUS
  <2>3. CASE via = "prompt"
    <3>1. \A p \in 1..Len(Queue(via)) : ~WasSent(Queue(via)[p], via, sent)
      BY <2>3, LineKnown DEF Queue
    <3>2. \A p \in 1..Len(Queue(via)) : ~WasSent(Queue(via)[p], via, sent')
      BY <1>3, <3>1
    <3>3. Along(<<new>>, via, sent') BY <2>2 DEF Along
    <3>4. Before(messages, <<new>>, via, sent') BY <1>3, <2>2 DEF Before
    <3>5. Before(<<new>>, Queue(via), via, sent') BY <3>2 DEF Before
    <3> QED BY <1>4, <2>1, <3>3, <3>4, <3>5 DEF InLine
  <2>4. CASE via # "prompt"
    <3>1. \A p \in 1..Len(<<new>>) : ~WasSent(<<new>>[p], via, sent')
      BY <1>5, <1>8, <2>2, <2>4
    <3> QED BY <1>4, <2>1, <3>1, LineSkips
  <2> QED BY <2>3, <2>4
<1> QED BY <1>7, <1>8

LEMMA InitOrder == Init => OrderInv
<1> SUFFICES ASSUME Init, NEW via \in Via PROVE InLine(messages, pendingMessages, Queue(via), via, sent)
  BY DEF OrderInv
<1>1. messages = <<>> /\ pendingMessages = <<>> /\ Queue(via) = <<>> BY DEF Init, Queue
<1> QED BY <1>1 DEF InLine, Along, Before

LEMMA NextOrder == TypeOK /\ SentInv /\ OrderInv /\ Next => OrderInv'
<1> SUFFICES ASSUME TypeOK, SentInv, OrderInv, Next PROVE OrderInv' OBVIOUS
<1>1. /\ messages \in Seq(Message) /\ pendingMessages \in Seq(Message)
      /\ \A via : Queue(via) \in Seq(Message)
  BY DEF TypeOK, MessageTypes, Queue
<1>2. \A via \in Via : InLine(messages, pendingMessages, Queue(via), via, sent)
  BY DEF OrderInv
<1>3. ASSUME UNCHANGED <<steeringQueue, followUpQueue, pendingMessages, sent>>,
             \/ messages' = messages
             \/ \E e \in Message : e.role # "user" /\ messages' = Append(messages, e)
      PROVE  OrderInv'
  <2> SUFFICES ASSUME NEW via \in Via
               PROVE  InLine(messages', pendingMessages', Queue(via)', via, sent')
    BY DEF OrderInv
  <2>1. Queue(via)' = Queue(via) BY <1>3 DEF Queue
  <2>2. CASE messages' = messages BY <1>2, <1>3, <2>1, <2>2
  <2>3. CASE \E e \in Message : e.role # "user" /\ messages' = Append(messages, e)
    BY <1>1, <1>2, <1>3, <2>1, <2>3, LineGrows
  <2> QED BY <1>3, <2>2, <2>3
<1>4. ASSUME NEW prompts, NEW skip, StartRun(prompts, skip)
      PROVE  pendingMessages' = prompts /\ messages' = messages /\ pendingMessages = <<>>
  BY <1>4 DEF StartRun, Idle, SentInv, HoldsToEmit
<1>5. CASE OwnerStep
  <2>1. CASE Prompt
    <3>1. /\ Send("prompt") /\ "prompt" \in Via /\ messages' = messages
          /\ pendingMessages = <<>> /\ pendingMessages' = <<User(Len(sent'))>>
          /\ UNCHANGED <<steeringQueue, followUpQueue>>
      BY <1>4, <2>1 DEF Prompt, Via
    <3> QED BY <3>1, OrderSends
  <2>2. CASE Continue
    <3>1. sent' = sent BY <2>2 DEF Continue
    <3>2. CASE StartRun(<<>>, FALSE) /\ UNCHANGED <<steeringQueue, followUpQueue>>
      <4>1. pendingMessages' = pendingMessages /\ messages' = messages BY <1>4, <3>2
      <4> QED BY <1>3, <3>1, <3>2, <4>1
    <3>3. CASE /\ StartRun(Drained(SteeringMode, steeringQueue), TRUE)
               /\ steeringQueue' = Undrained(SteeringMode, steeringQueue)
               /\ UNCHANGED followUpQueue
      BY <1>4, <3>1, <3>3, OrderTaken
    <3>4. CASE /\ StartRun(Drained(FollowUpMode, followUpQueue), FALSE)
               /\ followUpQueue' = Undrained(FollowUpMode, followUpQueue)
               /\ UNCHANGED steeringQueue
      BY <1>4, <3>1, <3>4, OrderTaken
    <3> QED BY <2>2, <3>2, <3>3, <3>4 DEF Continue
  <2>3. CASE Steer
    <3>1. /\ Send("steer") /\ "steer" \in Via
          /\ steeringQueue' = Append(steeringQueue, User(Len(sent')))
          /\ UNCHANGED <<messages, followUpQueue, pendingMessages>>
      BY <2>3 DEF Steer, Via, loopVars
    <3> QED BY <3>1, OrderSends
  <2>4. CASE FollowUp
    <3>1. /\ Send("followUp") /\ "followUp" \in Via
          /\ followUpQueue' = Append(followUpQueue, User(Len(sent')))
          /\ UNCHANGED <<messages, steeringQueue, pendingMessages>>
      BY <2>4 DEF FollowUp, Via, loopVars
    <3> QED BY <3>1, OrderSends
  <2>5. CASE Abort BY <1>3, <2>5 DEF Abort, ownerVars, loopVars
  <2>6. ASSUME NEW ids, sent' = Withdraw(ids), pendingMessages' = pendingMessages,
               messages' = messages \/ messages' = <<>>,
               steeringQueue' \in {<<>>, steeringQueue}, followUpQueue' \in {<<>>, followUpQueue}
        PROVE  OrderInv'
    <3> SUFFICES ASSUME NEW via \in Via
                 PROVE  InLine(messages', pendingMessages', Queue(via)', via, sent')
      BY DEF OrderInv
    <3>1. \A m \in DOMAIN sent : sent'[m] = via => sent[m] = via
      BY <2>6, Withdrawing DEF Via
    <3>2. InLine(messages, pendingMessages, Queue(via), via, sent')
      <4>1. /\ \A p \in 1..Len(messages) :
                 WasSent(messages[p], via, sent') => WasSent(messages[p], via, sent)
            /\ \A p \in 1..Len(pendingMessages) :
                 WasSent(pendingMessages[p], via, sent') => WasSent(pendingMessages[p], via, sent)
            /\ \A p \in 1..Len(Queue(via)) :
                 WasSent(Queue(via)[p], via, sent') => WasSent(Queue(via)[p], via, sent)
        BY <3>1, LineKnown DEF WasSent
      <4> QED BY <1>2, <4>1, LineLog
    <3>3. \A p \in 1..Len(<<>>) : ~WasSent(<<>>[p], via, sent') OBVIOUS
    <3>4. Queue(via)' = Queue(via) \/ Queue(via)' = <<>> BY <2>6 DEF Queue
    <3>5. InLine(messages, pendingMessages, Queue(via)', via, sent')
      BY <3>2, <3>3, <3>4, LineSkips
    <3>6. InLine(<<>>, pendingMessages, Queue(via)', via, sent')
      BY <3>3, <3>5, LineSkips
    <3> QED BY <2>6, <3>5, <3>6
  <2>7. CASE ClearSteeringQueue BY <2>6, <2>7 DEF ClearSteeringQueue, loopVars
  <2>8. CASE ClearFollowUpQueue BY <2>6, <2>8 DEF ClearFollowUpQueue, loopVars
  <2>9. CASE ClearAllQueues BY <2>6, <2>9 DEF ClearAllQueues, loopVars
  <2>10. CASE Reset BY <2>6, <2>10 DEF Reset, loopVars
  <2> QED BY <1>5, <2>1, <2>2, <2>3, <2>4, <2>5, <2>7, <2>8, <2>9, <2>10 DEF OwnerStep
<1>6. CASE LoopStep
  <2> USE DEF ownerVars, loopVars, batchVars
  <2>1. CASE EmitMessage
    <3> SUFFICES ASSUME NEW via \in Via
                 PROVE  InLine(messages', pendingMessages', Queue(via)', via, sent')
      BY DEF OrderInv
    <3>1. Queue(via)' = Queue(via) BY <2>1 DEF EmitMessage, Queue
    <3> QED BY <1>1, <1>2, <2>1, <3>1, LineMoves DEF EmitMessage
  <2>2. CASE PollAtStart
    <3>1. CASE UNCHANGED <<pendingMessages, steeringQueue>>
      BY <1>3, <2>2, <3>1 DEF PollAtStart
    <3>2. CASE /\ pendingMessages' = Drained(SteeringMode, steeringQueue)
               /\ steeringQueue' = Undrained(SteeringMode, steeringQueue)
      BY <2>2, <3>2, OrderTaken DEF PollAtStart
    <3> QED BY <2>2, <3>1, <3>2 DEF PollAtStart
  <2>3. CASE Request \/ StopAfterError BY <1>3, <2>3 DEF Request, StopAfterError
  <2>4. ASSUME NEW k \in 0..MaxCalls, Reply(k) PROVE OrderInv'
    <3>1. /\ messages' = Append(messages, Assistant(k))
          /\ UNCHANGED <<steeringQueue, followUpQueue, pendingMessages, sent>>
      BY <2>4 DEF Reply
    <3>2. Assistant(k) \in Message BY BuiltMessages, BoundAssumption DEF TypeOK
    <3>3. Assistant(k).role = "assistant" BY DEF Assistant
    <3> QED BY <1>3, <3>1, <3>2, <3>3
  <2>5. CASE EndTurn
    <3>1. CASE UNCHANGED <<pendingMessages, steeringQueue>>
      BY <1>3, <2>5, <3>1 DEF EndTurn
    <3>2. CASE /\ pendingMessages' = Drained(SteeringMode, steeringQueue)
               /\ steeringQueue' = Undrained(SteeringMode, steeringQueue)
      BY <2>5, <3>2, OrderTaken DEF EndTurn, SentInv, HoldsToEmit
    <3> QED BY <2>5, <3>1, <3>2 DEF EndTurn
  <2>6. CASE PollFollowUp
    BY <2>6, OrderTaken DEF PollFollowUp, SentInv, HoldsToEmit
  <2>7. ASSUME NEW i \in 1..MaxCalls, PrepareCall(i) \/ FinishCall(i) PROVE OrderInv'
    BY <1>3, <2>7 DEF PrepareCall, FinishCall, toolVars
  <2>8. ASSUME NEW i \in 1..MaxCalls, AnswerCall(i) PROVE OrderInv'
    <3>1. /\ messages' = Append(messages, Result(i))
          /\ UNCHANGED <<steeringQueue, followUpQueue, pendingMessages, sent>>
      BY <2>8 DEF AnswerCall
    <3>2. Result(i) \in Message BY BuiltMessages, BoundAssumption DEF TypeOK
    <3>3. Result(i).role = "toolResult" BY DEF Result
    <3> QED BY <1>3, <3>1, <3>2, <3>3
  <2>9. CASE ExecuteAll BY <1>3, <2>9 DEF ExecuteAll, toolVars
  <2>10. CASE EndBatch BY <1>3, <2>10, EndBatchEffect
  <2>11. CASE FinishRun
    <3> SUFFICES ASSUME NEW via \in Via
                 PROVE  InLine(messages', pendingMessages', Queue(via)', via, sent')
      BY DEF OrderInv
    <3>1. /\ Queue(via)' = Queue(via) /\ pendingMessages' = <<>> /\ messages' = messages /\ sent' = sent
      BY <2>11 DEF FinishRun, Queue
    <3>2. \A p \in 1..Len(<<>>) : ~WasSent(<<>>[p], via, sent) OBVIOUS
    <3> QED BY <1>2, <3>1, <3>2, LineSkips
  <2> QED BY <1>6, <2>1, <2>2, <2>3, <2>4, <2>5, <2>6, <2>7, <2>8, <2>9, <2>10, <2>11 DEF LoopStep
<1>7. ASSUME NEW outliving, HandleRunFailure(outliving) PROVE OrderInv'
  <2>1. /\ messages' = messages \/ messages' = Append(messages, FailureMessage)
        /\ UNCHANGED <<steeringQueue, followUpQueue, pendingMessages, sent>>
    BY <1>7 DEF HandleRunFailure, ownerVars, loopVars
  <2>2. FailureMessage \in Message BY BuiltMessages DEF TypeOK
  <2>3. FailureMessage.role = "assistant" BY DEF FailureMessage
  <2> QED BY <1>3, <2>1, <2>2, <2>3
<1>8. CASE Failure BY <1>7, <1>8 DEF Failure, RunFails, FinishCallFails
<1>9. ASSUME NEW c \in late, LateFinish(c) PROVE OrderInv'
  BY <1>3, <1>9 DEF LateFinish, ownerVars, loopVars
<1>10. CASE Rest BY <1>3, <1>10 DEF Rest, vars
<1> QED BY <1>5, <1>6, <1>8, <1>9, <1>10 DEF Next

LEMMA SentStutter == SentInv /\ OrderInv /\ UNCHANGED vars => SentInv' /\ OrderInv'
<1> SUFFICES ASSUME SentInv, OrderInv, UNCHANGED vars PROVE SentInv' /\ OrderInv' OBVIOUS
<1>1. UNCHANGED <<messages, steeringQueue, followUpQueue, pendingMessages, sent, runs, pc>>
  BY DEF vars
<1>2. \A via : Queue(via)' = Queue(via) BY <1>1 DEF Queue
<1> QED BY <1>1, <1>2 DEF SentInv, QueuedSent, TranscriptSent, HoldsToEmit, OrderInv

LEMMA SentInvariant == Spec => [](SentInv /\ OrderInv)
<1>1. TypeOK /\ SentInv /\ OrderInv /\ [Next]_vars => SentInv' /\ OrderInv'
  BY NextSent, NextOrder, SentStutter
<1> QED BY InitSent, InitOrder, TypeCorrect, <1>1, PTL DEF Spec

\* Messages sent the same way arrive in the order they were sent and at most once
\* (DeliveredInOrder), for any bounds and either way of draining the queues.
THEOREM MessagesArriveInOrder == Spec => []DeliveredInOrder
<1>1. TypeOK /\ OrderInv => DeliveredInOrder
  <2> SUFFICES ASSUME TypeOK, OrderInv, NEW via \in Via,
                      NEW i \in DOMAIN (messages \o pendingMessages \o Queue(via)),
                      NEW j \in DOMAIN (messages \o pendingMessages \o Queue(via)),
                      i < j,
                      IsSent((messages \o pendingMessages \o Queue(via))[i], via),
                      IsSent((messages \o pendingMessages \o Queue(via))[j], via)
               PROVE  (messages \o pendingMessages \o Queue(via))[i].n
                        < (messages \o pendingMessages \o Queue(via))[j].n
    BY DEF DeliveredInOrder
  <2>1. /\ messages \in Seq(Message) /\ pendingMessages \in Seq(Message) /\ Queue(via) \in Seq(Message)
    BY DEF TypeOK, MessageTypes, Queue
  <2>2. InLine(messages, pendingMessages, Queue(via), via, sent) BY DEF OrderInv
  <2>3. \A m : IsSent(m, via) <=> WasSent(m, via, sent) BY DEF IsSent, WasSent
  <2>4. /\ WasSent((messages \o pendingMessages \o Queue(via))[i], via, sent)
        /\ WasSent((messages \o pendingMessages \o Queue(via))[j], via, sent)
    BY <2>3
  <2> QED BY <2>1, <2>2, <2>4, LineOrder
<1> QED BY SentInvariant, TypeCorrect, <1>1, PTL
-----------------------------------------------------------------------------
\* The messages in a sequence that is put together or taken apart.
LEMMA AppendMembers ==
  ASSUME NEW s \in Seq(Message), NEW e \in Message
  PROVE  ToSet(Append(s, e)) = ToSet(s) \cup {e}
<1> DEFINE a == Append(s, e)
<1>1. /\ Len(s) \in Nat /\ DOMAIN s = 1..Len(s) /\ DOMAIN a = 1..(Len(s) + 1)
      /\ \A i \in 1..Len(s) : a[i] = s[i]
      /\ a[Len(s) + 1] = e
  OBVIOUS
<1> HIDE DEF a
<1>2. ToSet(a) = ToSet(s) \cup {e} BY <1>1 DEF ToSet
<1> QED BY <1>2 DEF a

LEMMA HeadMembers ==
  ASSUME NEW s \in Seq(Message), s # <<>>
  PROVE  ToSet(s) = {Head(s)} \cup ToSet(Tail(s))
<1> DEFINE h == Head(s)
           t == Tail(s)
<1>1. /\ Len(s) \in Nat /\ DOMAIN s = 1..Len(s) /\ DOMAIN t = 1..(Len(s) - 1)
      /\ h = s[1] /\ 1 \in DOMAIN s
      /\ \A i \in DOMAIN t : t[i] = s[i + 1] /\ i + 1 \in DOMAIN s
      /\ \A i \in DOMAIN s : i # 1 => i - 1 \in DOMAIN t /\ s[i] = t[i - 1]
  OBVIOUS
<1> HIDE DEF h, t
<1>2. ASSUME NEW x \in ToSet(s) PROVE x \in {h} \cup ToSet(t)
  <2>1. PICK i \in DOMAIN s : x = s[i] BY DEF ToSet
  <2>2. CASE i = 1 BY <1>1, <2>1, <2>2
  <2>3. CASE i # 1 BY <1>1, <2>1, <2>3 DEF ToSet
  <2> QED BY <2>2, <2>3
<1>3. ToSet(t) \subseteq ToSet(s) /\ h \in ToSet(s)
  BY <1>1 DEF ToSet
<1> QED BY <1>2, <1>3 DEF h, t

LEMMA ConcatMembers ==
  ASSUME NEW s \in Seq(Message), NEW t \in Seq(Message)
  PROVE  ToSet(s \o t) = ToSet(s) \cup ToSet(t)
<1> DEFINE c == s \o t
<1>1. /\ DOMAIN s \subseteq DOMAIN c /\ \A i \in DOMAIN s : c[i] = s[i]
      /\ \A i \in DOMAIN t : Len(s) + i \in DOMAIN c /\ c[Len(s) + i] = t[i]
      /\ \A i \in DOMAIN c : i \in DOMAIN s \/ (i - Len(s) \in DOMAIN t /\ c[i] = t[i - Len(s)])
  OBVIOUS
<1> HIDE DEF c
<1>2. ToSet(c) = ToSet(s) \cup ToSet(t) BY <1>1 DEF ToSet
<1> QED BY <1>2 DEF c

LEMMA FewMembers == ToSet(<<>>) = {} /\ \A e : ToSet(<<e>>) = {e}
BY DEF ToSet

LEMMA DrainMembers ==
  ASSUME NEW mod, NEW q \in Seq(Message)
  PROVE  ToSet(q) = ToSet(Drained(mod, q)) \cup ToSet(Undrained(mod, q))
<1>1. CASE mod = "all" \/ q = <<>> BY <1>1, FewMembers DEF Drained, Undrained
<1>2. CASE mod # "all" /\ q # <<>>
  <2>1. Drained(mod, q) = <<Head(q)>> /\ Undrained(mod, q) = Tail(q)
    BY <1>2 DEF Drained, Undrained
  <2> QED BY <1>2, <2>1, FewMembers, HeadMembers
<1> QED BY <1>1, <1>2

LEMMA LineMembers ==
  \A a, b, c, d \in Seq(Message) :
    ToSet(a \o b \o c \o d) = ToSet(a) \cup ToSet(b) \cup ToSet(c) \cup ToSet(d)
<1> SUFFICES ASSUME NEW a \in Seq(Message), NEW b \in Seq(Message),
                    NEW c \in Seq(Message), NEW d \in Seq(Message)
             PROVE  ToSet(a \o b \o c \o d) = ToSet(a) \cup ToSet(b) \cup ToSet(c) \cup ToSet(d)
  OBVIOUS
<1>1. a \o b \in Seq(Message) /\ a \o b \o c \in Seq(Message) OBVIOUS
<1>2. ToSet(a \o b) = ToSet(a) \cup ToSet(b) BY ConcatMembers
<1>3. ToSet(a \o b \o c) = ToSet(a \o b) \cup ToSet(c) BY <1>1, ConcatMembers
<1>4. ToSet(a \o b \o c \o d) = ToSet(a \o b \o c) \cup ToSet(d) BY <1>1, ConcatMembers
<1> QED BY <1>2, <1>3, <1>4

\* A step loses no message but those it withdraws and those of a failed run.
KeepsMessages ==
  \A m \in DOMAIN sent' :
    /\ m \in DOMAIN sent => User(m) \in Held
    /\ sent'[m] # "withdrawn"
    /\ pc # "failEnd"
    => User(m) \in Held'

LEMMA NextKeeps == TypeOK /\ SentInv /\ Next => KeepsMessages
<1> SUFFICES ASSUME TypeOK, SentInv, Next PROVE KeepsMessages OBVIOUS
<1>1. /\ messages \in Seq(Message) /\ pendingMessages \in Seq(Message)
      /\ steeringQueue \in Seq(Message) /\ followUpQueue \in Seq(Message)
  BY DEF TypeOK, MessageTypes
<1>2. /\ Held = ToSet(messages) \cup ToSet(pendingMessages)
                  \cup ToSet(steeringQueue) \cup ToSet(followUpQueue)
      /\ Held' = ToSet(messages') \cup ToSet(pendingMessages')
                   \cup ToSet(steeringQueue') \cup ToSet(followUpQueue')
  <2>1. MessageTypes /\ MessageTypes' BY NextMessages DEF TypeOK
  <2>2. Held = ToSet(messages) \cup ToSet(pendingMessages)
                 \cup ToSet(steeringQueue) \cup ToSet(followUpQueue)
    BY <1>1, LineMembers, SMTT(30) DEF Held
  <2>3. Held' = ToSet(messages') \cup ToSet(pendingMessages')
                  \cup ToSet(steeringQueue') \cup ToSet(followUpQueue')
    BY <2>1, LineMembers, SMTT(30) DEF MessageTypes, Held
  <2> QED BY <2>2, <2>3
<1>3. ASSUME Held \subseteq Held', sent' = sent PROVE KeepsMessages
  BY <1>3 DEF KeepsMessages
<1>4. ASSUME UNCHANGED <<steeringQueue, followUpQueue, pendingMessages, sent>>,
             messages' = messages \/ \E e \in Message : messages' = Append(messages, e)
      PROVE  KeepsMessages
  <2>1. \A e \in Message : ToSet(Append(messages, e)) = ToSet(messages) \cup {e}
    BY <1>1, AppendMembers
  <2>2. ToSet(messages) \subseteq ToSet(messages') BY <1>4, <2>1
  <2> QED BY <1>2, <1>3, <1>4, <2>2
<1>5. ASSUME NEW mod, messages' = messages, sent' = sent, pendingMessages = <<>>,
             \/ /\ pendingMessages' = Drained(mod, steeringQueue)
                /\ steeringQueue' = Undrained(mod, steeringQueue) /\ followUpQueue' = followUpQueue
             \/ /\ pendingMessages' = Drained(mod, followUpQueue)
                /\ followUpQueue' = Undrained(mod, followUpQueue) /\ steeringQueue' = steeringQueue
      PROVE  KeepsMessages
  <2>1. ToSet(pendingMessages) = {} BY <1>5, FewMembers
  <2> QED BY <1>1, <1>2, <1>3, <1>5, <2>1, DrainMembers
<1>6. ASSUME NEW prompts, NEW skip, StartRun(prompts, skip)
      PROVE  pendingMessages' = prompts /\ messages' = messages /\ pendingMessages = <<>>
  BY <1>6 DEF StartRun, Idle, SentInv, HoldsToEmit
<1>7. ASSUME NEW via \in Via, Send(via), Held \subseteq Held', User(Len(sent')) \in Held'
      PROVE  KeepsMessages
  <2>1. \A m \in DOMAIN sent' : m \in DOMAIN sent \/ m = Len(sent')
    BY <1>7, Sending DEF TypeOK, RunTypes
  <2> QED BY <1>7, <2>1 DEF KeepsMessages
<1>8. ASSUME NEW ids, sent' = Withdraw(ids), \A m \in DOMAIN sent : User(m) \in Held /\ m \notin ids => User(m) \in Held'
      PROVE  KeepsMessages
  <2>1. DOMAIN sent' = DOMAIN sent /\ \A m \in DOMAIN sent : m \in ids => sent'[m] = "withdrawn"
    BY <1>8, Withdrawing
  <2> QED BY <1>8, <2>1 DEF KeepsMessages
<1>9. \A q, m : User(m) \in ToSet(q) => m \in Ids(q)
  <2>1. \A m : User(m).n = m BY DEF User
  <2> QED BY <2>1 DEF Ids
<1>10. ToSet(<<>>) = {} BY FewMembers
<1>11. CASE OwnerStep
  <2>1. CASE Prompt
    <3>1. /\ Send("prompt") /\ "prompt" \in Via /\ messages' = messages
          /\ pendingMessages = <<>> /\ pendingMessages' = <<User(Len(sent'))>>
          /\ UNCHANGED <<steeringQueue, followUpQueue>>
      BY <1>6, <2>1 DEF Prompt, Via
    <3> QED BY <1>2, <1>7, <3>1, FewMembers
  <2>2. CASE Continue
    <3>1. sent' = sent BY <2>2 DEF Continue
    <3>2. CASE StartRun(<<>>, FALSE) /\ UNCHANGED <<steeringQueue, followUpQueue>>
      <4>1. pendingMessages' = pendingMessages /\ messages' = messages BY <1>6, <3>2
      <4> QED BY <1>4, <3>1, <3>2, <4>1
    <3>3. CASE /\ StartRun(Drained(SteeringMode, steeringQueue), TRUE)
               /\ steeringQueue' = Undrained(SteeringMode, steeringQueue)
               /\ UNCHANGED followUpQueue
      BY <1>5, <1>6, <3>1, <3>3
    <3>4. CASE /\ StartRun(Drained(FollowUpMode, followUpQueue), FALSE)
               /\ followUpQueue' = Undrained(FollowUpMode, followUpQueue)
               /\ UNCHANGED steeringQueue
      BY <1>5, <1>6, <3>1, <3>4
    <3> QED BY <2>2, <3>2, <3>3, <3>4 DEF Continue
  <2>3. CASE Steer
    <3>1. /\ Send("steer") /\ "steer" \in Via
          /\ steeringQueue' = Append(steeringQueue, User(Len(sent')))
          /\ UNCHANGED <<messages, followUpQueue, pendingMessages>>
      BY <2>3 DEF Steer, Via, loopVars
    <3>2. ToSet(steeringQueue') = ToSet(steeringQueue) \cup {User(Len(sent'))}
      BY <1>1, <3>1, Sending, AppendMembers
    <3> QED BY <1>2, <1>7, <3>1, <3>2
  <2>4. CASE FollowUp
    <3>1. /\ Send("followUp") /\ "followUp" \in Via
          /\ followUpQueue' = Append(followUpQueue, User(Len(sent')))
          /\ UNCHANGED <<messages, steeringQueue, pendingMessages>>
      BY <2>4 DEF FollowUp, Via, loopVars
    <3>2. ToSet(followUpQueue') = ToSet(followUpQueue) \cup {User(Len(sent'))}
      BY <1>1, <3>1, Sending, AppendMembers
    <3> QED BY <1>2, <1>7, <3>1, <3>2
  <2>5. CASE Abort BY <1>4, <2>5 DEF Abort, ownerVars, loopVars
  <2>6. CASE ClearSteeringQueue
    <3>1. /\ sent' = Withdraw(Ids(steeringQueue)) /\ steeringQueue' = <<>>
          /\ UNCHANGED <<messages, pendingMessages, followUpQueue>>
      BY <2>6 DEF ClearSteeringQueue, loopVars
    <3> QED BY <1>2, <1>8, <1>9, <3>1
  <2>7. CASE ClearFollowUpQueue
    <3>1. /\ sent' = Withdraw(Ids(followUpQueue)) /\ followUpQueue' = <<>>
          /\ UNCHANGED <<messages, pendingMessages, steeringQueue>>
      BY <2>7 DEF ClearFollowUpQueue, loopVars
    <3> QED BY <1>2, <1>8, <1>9, <3>1
  <2>8. CASE ClearAllQueues
    <3>1. /\ sent' = Withdraw(Ids(steeringQueue \o followUpQueue))
          /\ steeringQueue' = <<>> /\ followUpQueue' = <<>>
          /\ UNCHANGED <<messages, pendingMessages>>
      BY <2>8 DEF ClearAllQueues, loopVars
    <3>2. ToSet(steeringQueue \o followUpQueue) = ToSet(steeringQueue) \cup ToSet(followUpQueue)
      BY <1>1, ConcatMembers
    <3> QED BY <1>2, <1>8, <1>9, <3>1, <3>2
  <2>9. CASE Reset BY <1>8, <2>9 DEF Reset
  <2> QED BY <1>11, <2>1, <2>2, <2>3, <2>4, <2>5, <2>6, <2>7, <2>8, <2>9 DEF OwnerStep
<1>12. CASE LoopStep
  <2> USE DEF ownerVars, loopVars, batchVars
  <2>1. CASE EmitMessage
    <3>1. /\ pendingMessages # <<>> /\ messages' = Append(messages, Head(pendingMessages))
          /\ pendingMessages' = Tail(pendingMessages)
          /\ UNCHANGED <<steeringQueue, followUpQueue, sent>>
      BY <2>1 DEF EmitMessage
    <3>2. /\ ToSet(messages') = ToSet(messages) \cup {Head(pendingMessages)}
          /\ ToSet(pendingMessages) = {Head(pendingMessages)} \cup ToSet(pendingMessages')
      BY <1>1, <3>1, AppendMembers, HeadMembers
    <3> QED BY <1>2, <1>3, <3>1, <3>2
  <2>2. CASE PollAtStart
    <3>1. CASE UNCHANGED <<pendingMessages, steeringQueue>>
      BY <1>4, <2>2, <3>1 DEF PollAtStart
    <3>2. CASE /\ pendingMessages' = Drained(SteeringMode, steeringQueue)
               /\ steeringQueue' = Undrained(SteeringMode, steeringQueue)
      BY <1>5, <2>2, <3>2 DEF PollAtStart
    <3> QED BY <2>2, <3>1, <3>2 DEF PollAtStart
  <2>3. CASE Request \/ StopAfterError BY <1>4, <2>3 DEF Request, StopAfterError
  <2>4. ASSUME NEW k \in 0..MaxCalls, Reply(k) PROVE KeepsMessages
    <3>1. Assistant(k) \in Message BY BuiltMessages, BoundAssumption DEF TypeOK
    <3> QED BY <1>4, <2>4, <3>1 DEF Reply
  <2>5. CASE EndTurn
    <3>1. CASE UNCHANGED <<pendingMessages, steeringQueue>>
      BY <1>4, <2>5, <3>1 DEF EndTurn
    <3>2. CASE /\ pendingMessages' = Drained(SteeringMode, steeringQueue)
               /\ steeringQueue' = Undrained(SteeringMode, steeringQueue)
      BY <1>5, <2>5, <3>2 DEF EndTurn, SentInv, HoldsToEmit
    <3> QED BY <2>5, <3>1, <3>2 DEF EndTurn
  <2>6. CASE PollFollowUp
    BY <1>5, <2>6 DEF PollFollowUp, SentInv, HoldsToEmit
  <2>7. ASSUME NEW i \in 1..MaxCalls, PrepareCall(i) \/ FinishCall(i) PROVE KeepsMessages
    BY <1>4, <2>7 DEF PrepareCall, FinishCall, toolVars
  <2>8. ASSUME NEW i \in 1..MaxCalls, AnswerCall(i) PROVE KeepsMessages
    <3>1. Result(i) \in Message BY BuiltMessages, BoundAssumption DEF TypeOK
    <3> QED BY <1>4, <2>8, <3>1 DEF AnswerCall
  <2>9. CASE ExecuteAll BY <1>4, <2>9 DEF ExecuteAll, toolVars
  <2>10. CASE EndBatch BY <1>4, <2>10, EndBatchEffect
  <2>11. CASE FinishRun
    <3>1. CASE pc = "failEnd" BY <3>1 DEF KeepsMessages
    <3>2. CASE pc = "agentEnd"
      <4>1. /\ pendingMessages = <<>> /\ pendingMessages' = <<>>
            /\ UNCHANGED <<messages, steeringQueue, followUpQueue, sent>>
        BY <2>11, <3>2 DEF FinishRun, SentInv, HoldsToEmit
      <4> QED BY <1>4, <4>1
    <3> QED BY <2>11, <3>1, <3>2 DEF FinishRun
  <2> QED BY <1>12, <2>1, <2>2, <2>3, <2>4, <2>5, <2>6, <2>7, <2>8, <2>9, <2>10, <2>11 DEF LoopStep
<1>13. ASSUME NEW outliving, HandleRunFailure(outliving) PROVE KeepsMessages
  <2>1. /\ messages' = messages \/ messages' = Append(messages, FailureMessage)
        /\ UNCHANGED <<steeringQueue, followUpQueue, pendingMessages, sent>>
    BY <1>13 DEF HandleRunFailure, ownerVars, loopVars
  <2>2. FailureMessage \in Message BY BuiltMessages DEF TypeOK
  <2> QED BY <1>4, <2>1, <2>2
<1>14. CASE Failure BY <1>13, <1>14 DEF Failure, RunFails, FinishCallFails
<1>15. ASSUME NEW c \in late, LateFinish(c) PROVE KeepsMessages
  BY <1>4, <1>15 DEF LateFinish, ownerVars, loopVars
<1>16. CASE Rest BY <1>4, <1>16 DEF Rest, vars
<1> QED BY <1>11, <1>12, <1>14, <1>15, <1>16 DEF Next

\* No message is lost (NoMessageLost): one that was sent and not withdrawn stays in
\* a queue, with the loop or in the transcript until a run that failed ends.
THEOREM MessagesAreKept == Spec => NoMessageLost
<1>1. TypeOK /\ SentInv /\ [Next]_vars => [KeepsMessages]_vars
  BY NextKeeps
<1>2. TypeOK /\ SentInv /\ [Next]_vars =>
        [\A m \in DOMAIN sent' :
           /\ m \in DOMAIN sent => User(m) \in Held
           /\ sent'[m] # "withdrawn"
           /\ pc # "failEnd"
           => User(m) \in Held']_vars
  BY <1>1 DEF KeepsMessages
<1> QED BY SentInvariant, TypeCorrect, <1>2, PTL DEF Spec, NoMessageLost
-----------------------------------------------------------------------------
\* The calls of a batch are entered, and answered, in the order of the reply.
Entered == \A i, j \in 1..Len(calls) : i < j /\ calls[i] = "todo" => calls[j] = "todo"
AnsweredFirst == \A i, j \in 1..Len(calls) : i < j /\ calls[j] = "answered" => calls[i] = "answered"

Batch == {"prepare", "execute", "results"}

\* Until the batch ends, the transcript ends in its reply and the results there are.
EndsInBatch ==
  pc \in Batch =>
    /\ Len(messages) > 0 /\ Len(calls) > 0
    /\ calls[1] # "answered" => messages[Len(messages)] = Assistant(Len(calls))
    /\ \A i \in 1..Len(calls) :
         /\ calls[i] = "answered"
         /\ i < Len(calls) => calls[i + 1] # "answered"
         => messages[Len(messages)] = Result(i)

BatchInv == Entered /\ AnsweredFirst /\ EndsInBatch

\* When a result is emitted, all before it were.
LEMMA AnsweredBefore ==
  ASSUME TypeOK, CallInv, BatchInv, NEW i \in DOMAIN calls, pc = "results", AnswersNext(i)
  PROVE  /\ i \in 1..Len(calls) /\ calls[i] = "ended"
         /\ \A j \in 1..(i - 1) : calls[j] = "answered"
         /\ \A j \in 1..Len(calls) : i < j => calls[j] # "answered"
<1>1. /\ Len(calls) \in Nat /\ DOMAIN calls = 1..Len(calls)
      /\ \A j \in 1..Len(calls) : calls[j] \in Status
  BY DEF TypeOK, CallTypes
<1>2. calls[i] = "ended" /\ \A j \in 1..(i - 1) : calls[j] # "ended"
  BY DEF AnswersNext
<1>3. \A j \in 1..(i - 1) : j \in 1..Len(calls) /\ j < i
  BY <1>1
<1>4. \A j \in 1..(i - 1) : calls[j] \notin {"todo", "prepared", "running"}
  BY <1>1, <1>2, <1>3 DEF CallInv, CallControl, BatchInv, Entered
<1>5. \A j \in 1..(i - 1) : calls[j] = "answered"
  BY <1>1, <1>2, <1>3, <1>4 DEF Status
<1>6. \A j \in 1..Len(calls) : i < j => calls[j] # "answered"
  BY <1>1, <1>2 DEF BatchInv, AnsweredFirst
<1> QED BY <1>1, <1>2, <1>5, <1>6

\* A step that neither enters nor answers a call.
LEMMA BatchUntouched ==
  ASSUME BatchInv, UNCHANGED <<calls, messages, runs, requests>>, pc' \in Batch => pc \in Batch
  PROVE  BatchInv'
BY DEF BatchInv, Entered, AnsweredFirst, EndsInBatch, Assistant, Result

\* There is no batch.
LEMMA BatchEmpty ==
  ASSUME calls' = <<>>, pc' \notin Batch
  PROVE  BatchInv'
BY DEF BatchInv, Entered, AnsweredFirst, EndsInBatch

\* A call moves on and is not answered yet.
LEMMA BatchMoves ==
  ASSUME TypeOK, BatchInv, UNCHANGED <<messages, runs, requests>>, pc \in Batch,
         Len(calls') = Len(calls),
         \A j \in 1..Len(calls) : /\ calls'[j] = "answered" <=> calls[j] = "answered"
                                  /\ calls'[j] = "todo" => calls[j] = "todo",
         \A j, k \in 1..Len(calls) : j < k /\ calls'[j] = "todo" => calls'[k] = "todo"
  PROVE  BatchInv'
<1>1. Entered' /\ AnsweredFirst' BY DEF BatchInv, Entered, AnsweredFirst
<1>2. \A i \in 1..Len(calls) : i < Len(calls) => i + 1 \in 1..Len(calls)
  BY DEF TypeOK, CallTypes
<1>3. Len(calls) > 0 => 1 \in 1..Len(calls) BY DEF TypeOK, CallTypes
<1>4. EndsInBatch' BY <1>2, <1>3 DEF BatchInv, EndsInBatch, Assistant, Result
<1> QED BY <1>1, <1>4 DEF BatchInv

LEMMA InitBatch == Init => BatchInv
BY DEF Init, BatchInv, Entered, AnsweredFirst, EndsInBatch, Batch

LEMMA NextBatch == TypeOK /\ CallInv /\ BatchInv /\ Next => BatchInv'
<1> SUFFICES ASSUME TypeOK, CallInv, BatchInv, Next PROVE BatchInv' OBVIOUS
<1>1. /\ calls \in Seq(Status) /\ Len(calls) \in Nat /\ DOMAIN calls = 1..Len(calls)
      /\ messages \in Seq(Message)
  BY DEF TypeOK, CallTypes, MessageTypes
<1>2. calls # <<>> => pc \in {"prepare", "execute", "results", "failEnd"}
  BY DEF CallInv, CallControl
<1>3. ASSUME NEW prompts, NEW skip, StartRun(prompts, skip) PROVE BatchInv'
  <2>1. calls = <<>> /\ calls' = calls /\ pc' = "prompts"
    BY <1>2, <1>3 DEF StartRun, Idle, batchVars
  <2> QED BY <2>1, BatchEmpty DEF Batch
<1>4. CASE OwnerStep
  <2>1. CASE Prompt \/ Continue BY <1>3, <2>1 DEF Prompt, Continue
  <2>2. CASE Steer \/ FollowUp \/ Abort \/ ClearSteeringQueue \/ ClearFollowUpQueue \/ ClearAllQueues
    <3>1. UNCHANGED <<calls, messages, runs, requests, pc>>
      BY <2>2 DEF Steer, FollowUp, Abort, ClearSteeringQueue, ClearFollowUpQueue, ClearAllQueues,
                  ownerVars, loopVars, batchVars
    <3> QED BY <3>1, BatchUntouched
  <2>3. CASE Reset
    <3>1. calls = <<>> /\ calls' = calls /\ pc' = "idle"
      BY <1>2, <2>3 DEF Reset, Idle, loopVars, batchVars
    <3> QED BY <3>1, BatchEmpty DEF Batch
  <2> QED BY <1>4, <2>1, <2>2, <2>3 DEF OwnerStep
<1>5. CASE LoopStep
  <2> USE DEF ownerVars, loopVars, batchVars
  <2>1. CASE EmitMessage \/ PollAtStart \/ Request \/ EndTurn \/ PollFollowUp \/ StopAfterError
    <3>1. calls = <<>> /\ calls' = calls
      BY <1>2, <2>1 DEF EmitMessage, PollAtStart, Request, EndTurn, PollFollowUp, StopAfterError
    <3>2. pc' \notin Batch
      BY <2>1 DEF EmitMessage, PollAtStart, Request, EndTurn, AfterTurn, PollFollowUp,
                  StopAfterError, Batch
    <3> QED BY <3>1, <3>2, BatchEmpty
  <2>2. ASSUME NEW k \in 0..MaxCalls, Reply(k) PROVE BatchInv'
    <3>1. calls = <<>> BY <1>2, <2>2 DEF Reply
    <3>2. CASE pc' \in {"stopping", "turnEnd"} /\ calls' = calls
      BY <3>1, <3>2, BatchEmpty DEF Batch
    <3>3. CASE k > 0 /\ pc' = "prepare" /\ calls' = [i \in 1..k |-> "todo"]
      <4>1. k \in Nat BY BoundAssumption
      <4>2. Len(calls') = k /\ \A i \in 1..k : calls'[i] = "todo" BY <3>3, <4>1
      <4>3. Assistant(k)' = Assistant(k) BY <2>2 DEF Reply, Assistant
      <4>4. Assistant(k) \in Message BY BuiltMessages, <4>1 DEF TypeOK
      <4>5. Len(messages') > 0 /\ messages'[Len(messages')] = Assistant(k)
        BY <1>1, <2>2, <4>4 DEF Reply
      <4>6. Entered' /\ AnsweredFirst' BY <4>2 DEF Entered, AnsweredFirst
      <4>7. EndsInBatch' BY <3>3, <4>1, <4>2, <4>3, <4>5 DEF EndsInBatch
      <4> QED BY <4>6, <4>7 DEF BatchInv
    <3> QED BY <2>2, <3>2, <3>3 DEF Reply
  <2>3. ASSUME NEW i \in 1..MaxCalls, PrepareCall(i) PROVE BatchInv'
    <3>1. /\ pc = "prepare" /\ i \in 1..Len(calls) /\ calls[i] = "todo"
          /\ \A j \in 1..(i - 1) : calls[j] # "todo"
          /\ UNCHANGED <<messages, runs, requests>>
      BY <1>1, <2>3 DEF PrepareCall, Enters, IsNext, toolVars
    <3>2. PICK s \in {"prepared", "running", "ended"} : calls' = [calls EXCEPT ![i] = s]
      BY <2>3 DEF PrepareCall
    <3>3. /\ Len(calls') = Len(calls)
          /\ \A j \in 1..Len(calls) : calls'[j] = IF j = i THEN s ELSE calls[j]
      BY <1>1, <3>1, <3>2
    <3>4. \A j, k \in 1..Len(calls) : j < k /\ calls'[j] = "todo" => calls'[k] = "todo"
      <4> SUFFICES ASSUME NEW j \in 1..Len(calls), NEW k \in 1..Len(calls), j < k, calls'[j] = "todo"
                   PROVE  calls'[k] = "todo"
        OBVIOUS
      <4>1. j # i /\ calls[j] = "todo" BY <3>3
      <4>2. j \notin 1..(i - 1) BY <3>1, <4>1
      <4>3. k # i BY <1>1, <3>1, <4>1, <4>2
      <4>4. calls[k] = "todo" BY <4>1 DEF BatchInv, Entered
      <4> QED BY <3>3, <4>3, <4>4
    <3>5. pc \in Batch BY <3>1 DEF Batch
    <3> QED BY <3>1, <3>3, <3>4, <3>5, BatchMoves
  <2>4. CASE ExecuteAll
    <3>1. /\ pc \in Batch /\ UNCHANGED <<messages, runs, requests>>
      BY <2>4 DEF ExecuteAll, toolVars, Batch
    <3>2. /\ Len(calls') = Len(calls)
          /\ \A j \in 1..Len(calls) :
               calls'[j] = IF calls[j] = "prepared" THEN "running" ELSE calls[j]
      BY <1>1, <2>4 DEF ExecuteAll
    <3> QED BY <3>1, <3>2, BatchMoves DEF BatchInv, Entered
  <2>5. ASSUME NEW i \in 1..MaxCalls, FinishCall(i) PROVE BatchInv'
    <3>1. /\ pc \in Batch /\ i \in 1..Len(calls) /\ calls[i] = "running"
          /\ UNCHANGED <<messages, runs, requests>>
      BY <1>1, <2>5 DEF FinishCall, toolVars, Batch
    <3>2. /\ Len(calls') = Len(calls)
          /\ \A j \in 1..Len(calls) : calls'[j] = IF j = i THEN "ended" ELSE calls[j]
      BY <1>1, <2>5 DEF FinishCall
    <3>3. \A j, k \in 1..Len(calls) : j < k /\ calls'[j] = "todo" => calls'[k] = "todo"
      BY <3>1, <3>2 DEF BatchInv, Entered
    <3> QED BY <3>1, <3>2, <3>3, BatchMoves
  <2>6. ASSUME NEW i \in 1..MaxCalls, AnswerCall(i) PROVE BatchInv'
    <3>1. /\ pc = "results" /\ pc' = pc /\ i \in DOMAIN calls /\ AnswersNext(i)
          /\ calls' = [calls EXCEPT ![i] = "answered"]
          /\ messages' = Append(messages, Result(i))
          /\ UNCHANGED <<runs, requests>>
      BY <2>6 DEF AnswerCall
    <3>2. /\ i \in 1..Len(calls) /\ calls[i] = "ended"
          /\ \A j \in 1..(i - 1) : calls[j] = "answered"
          /\ \A j \in 1..Len(calls) : i < j => calls[j] # "answered"
      BY <3>1, AnsweredBefore
    <3>3. /\ Len(calls') = Len(calls)
          /\ \A j \in 1..Len(calls) : calls'[j] = IF j = i THEN "answered" ELSE calls[j]
      BY <1>1, <3>1
    <3>4. \A j \in 1..Len(calls) : calls'[j] = "answered" <=> j <= i
      BY <1>1, <3>2, <3>3
    <3>5. AnsweredFirst' BY <1>1, <3>3, <3>4 DEF AnsweredFirst
    <3>6. Entered' BY <3>2, <3>3 DEF BatchInv, Entered
    <3>7. EndsInBatch'
      <4>1. Result(i) \in Message BY BuiltMessages, BoundAssumption DEF TypeOK
      <4>2. /\ Len(messages') > 0 /\ messages'[Len(messages')] = Result(i)
        BY <1>1, <3>1, <4>1
      <4>3. calls'[1] = "answered" BY <1>1, <3>2, <3>4
      <4>4. ASSUME NEW j \in 1..Len(calls), calls'[j] = "answered",
                   j < Len(calls) => calls'[j + 1] # "answered"
            PROVE  j = i
        <5>1. j <= i BY <3>4, <4>4
        <5>2. j < Len(calls) => j + 1 \in 1..Len(calls) BY <1>1
        <5>3. j < Len(calls) => ~(j + 1 <= i) BY <3>4, <4>4, <5>2
        <5> QED BY <1>1, <3>2, <5>1, <5>3
      <4>5. Result(i)' = Result(i) BY <3>1 DEF Result
      <4>6. Len(calls') > 0 BY <1>1, <3>2, <3>3
      <4> QED BY <3>3, <4>2, <4>3, <4>4, <4>5, <4>6 DEF EndsInBatch
    <3> QED BY <3>5, <3>6, <3>7 DEF BatchInv
  <2>7. CASE EndBatch
    <3>1. pc = "results" /\ UNCHANGED <<messages, runs, requests>> BY <2>7, EndBatchEffect
    <3>2. CASE pc' = "turnEnd" /\ calls' = <<>> BY <3>2, BatchEmpty DEF Batch
    <3>3. CASE pc' = "prepare" /\ calls' = calls BY <3>1, <3>3, BatchUntouched DEF Batch
    <3> QED BY <2>7, <3>2, <3>3, EndBatchEffect
  <2>8. CASE FinishRun BY <2>8, BatchEmpty DEF FinishRun, Batch
  <2> QED BY <1>5, <2>1, <2>2, <2>3, <2>4, <2>5, <2>6, <2>7, <2>8 DEF LoopStep
<1>6. ASSUME NEW outliving, HandleRunFailure(outliving) PROVE BatchInv'
  <2>1. calls' = calls /\ pc' = "failEnd" BY <1>6 DEF HandleRunFailure, loopVars, batchVars
  <2> QED BY <2>1 DEF BatchInv, Entered, AnsweredFirst, EndsInBatch, Batch
<1>7. CASE Failure BY <1>6, <1>7 DEF Failure, RunFails, FinishCallFails
<1>8. ASSUME NEW c \in late, LateFinish(c) PROVE BatchInv'
  BY <1>8, BatchUntouched DEF LateFinish, ownerVars, loopVars, batchVars
<1>9. CASE Rest BY <1>9, BatchUntouched DEF Rest, vars
<1> QED BY <1>4, <1>5, <1>7, <1>8, <1>9 DEF Next
-----------------------------------------------------------------------------
\* A result that is emitted answers the call right before it.
LEMMA NextAnswers == TypeOK /\ CallInv /\ BatchInv /\ SentInv /\ AnswersFollowCalls /\ Next
                       => AnswersFollowCalls'
<1> SUFFICES ASSUME TypeOK, CallInv, BatchInv, SentInv, AnswersFollowCalls, Next
             PROVE  AnswersFollowCalls'
  OBVIOUS
<1>1. messages \in Seq(Message) /\ Len(messages) \in Nat /\ DOMAIN messages = 1..Len(messages)
  BY DEF TypeOK, MessageTypes
<1>2. ASSUME messages' = messages \/ messages' = <<>> PROVE AnswersFollowCalls'
  BY <1>2 DEF AnswersFollowCalls
<1>3. ASSUME NEW e \in Message, messages' = Append(messages, e),
             e.role = "toolResult" =>
               /\ Len(messages) > 0
               /\ messages[Len(messages)].run = e.run /\ messages[Len(messages)].turn = e.turn
               /\ IF e.n = 1
                    THEN messages[Len(messages)].role = "assistant" /\ messages[Len(messages)].n >= 1
                    ELSE messages[Len(messages)].role = "toolResult" /\ messages[Len(messages)].n = e.n - 1
      PROVE  AnswersFollowCalls'
  <2>1. /\ DOMAIN messages' = 1..(Len(messages) + 1)
        /\ \A p \in 1..Len(messages) : messages'[p] = messages[p]
        /\ messages'[Len(messages) + 1] = e
    BY <1>1, <1>3
  <2> SUFFICES ASSUME NEW p \in DOMAIN messages', messages'[p].role = "toolResult"
               PROVE  /\ p > 1
                      /\ messages'[p - 1].run = messages'[p].run
                      /\ messages'[p - 1].turn = messages'[p].turn
                      /\ IF messages'[p].n = 1
                           THEN messages'[p - 1].role = "assistant" /\ messages'[p - 1].n >= 1
                           ELSE messages'[p - 1].role = "toolResult"
                                  /\ messages'[p - 1].n = messages'[p].n - 1
    BY DEF AnswersFollowCalls
  <2>2. CASE p \in 1..Len(messages)
    <3>1. messages[p].role = "toolResult" /\ p \in DOMAIN messages BY <1>1, <2>1, <2>2
    <3>2. p > 1 BY <3>1 DEF AnswersFollowCalls
    <3>3. p - 1 \in 1..Len(messages) BY <1>1, <2>2, <3>2
    <3>4. messages'[p] = messages[p] /\ messages'[p - 1] = messages[p - 1] BY <2>1, <2>2, <3>3
    <3> QED BY <3>1, <3>2, <3>4 DEF AnswersFollowCalls
  <2>3. CASE p = Len(messages) + 1
    <3>1. Len(messages) > 0 BY <1>3, <2>1, <2>3
    <3>2. messages'[p] = e /\ p - 1 = Len(messages) /\ messages'[p - 1] = messages[Len(messages)]
      BY <1>1, <2>1, <2>3, <3>1
    <3>3. p > 1 BY <1>1, <2>3, <3>1
    <3>4. e.role = "toolResult" BY <3>2
    <3> QED BY <1>3, <3>2, <3>3, <3>4
  <2> QED BY <1>1, <2>1, <2>2, <2>3
<1>4. ASSUME NEW prompts, NEW skip, StartRun(prompts, skip) PROVE AnswersFollowCalls'
  BY <1>2, <1>4 DEF StartRun
<1>5. CASE OwnerStep
  BY <1>2, <1>4, <1>5 DEF OwnerStep, Prompt, Continue, Steer, FollowUp, Abort, ClearSteeringQueue,
              ClearFollowUpQueue, ClearAllQueues, Reset
<1>6. CASE LoopStep
  <2>1. CASE EmitMessage
    <3>1. /\ pendingMessages # <<>> /\ pendingMessages \in Seq(Message)
          /\ messages' = Append(messages, Head(pendingMessages))
      BY <2>1 DEF EmitMessage, TypeOK, MessageTypes
    <3>2. Head(pendingMessages) \in Message /\ Head(pendingMessages).role = "user"
      BY <3>1 DEF SentInv, QueuedSent, FromUser
    <3> QED BY <1>3, <3>1, <3>2
  <2>2. CASE PollAtStart \/ Request \/ EndTurn \/ PollFollowUp \/ StopAfterError
    BY <1>2, <2>2 DEF PollAtStart, Request, EndTurn, PollFollowUp, StopAfterError
  <2>3. ASSUME NEW k \in 0..MaxCalls, Reply(k) PROVE AnswersFollowCalls'
    <3>1. Assistant(k) \in Message BY BuiltMessages, BoundAssumption DEF TypeOK
    <3>2. Assistant(k).role = "assistant" BY DEF Assistant
    <3> QED BY <1>3, <2>3, <3>1, <3>2 DEF Reply
  <2>4. ASSUME NEW i \in 1..MaxCalls, PrepareCall(i) \/ FinishCall(i) PROVE AnswersFollowCalls'
    BY <1>2, <2>4 DEF PrepareCall, FinishCall, toolVars
  <2>5. ASSUME NEW i \in 1..MaxCalls, AnswerCall(i) PROVE AnswersFollowCalls'
    <3>1. /\ pc = "results" /\ i \in DOMAIN calls /\ AnswersNext(i)
          /\ messages' = Append(messages, Result(i))
      BY <2>5 DEF AnswerCall
    <3>2. Result(i) \in Message BY BuiltMessages, BoundAssumption DEF TypeOK
    <3>3. /\ i \in 1..Len(calls) /\ Len(calls) \in Nat /\ calls[i] = "ended"
          /\ \A j \in 1..(i - 1) : calls[j] = "answered"
      BY <3>1, AnsweredBefore DEF TypeOK, CallTypes
    <3>4. EndsInBatch /\ pc \in Batch BY <3>1 DEF BatchInv, Batch
    <3>5. CASE i = 1
      <4>1. Len(messages) > 0 /\ messages[Len(messages)] = Assistant(Len(calls)) /\ Len(calls) >= 1
        BY <3>3, <3>4, <3>5 DEF EndsInBatch
      <4>2. /\ Assistant(Len(calls)).role = "assistant" /\ Assistant(Len(calls)).n = Len(calls)
            /\ Assistant(Len(calls)).run = Result(i).run /\ Assistant(Len(calls)).turn = Result(i).turn
            /\ Result(i).n = 1
        BY <3>5 DEF Assistant, Result
      <4> QED BY <1>3, <3>1, <3>2, <4>1, <4>2
    <3>6. CASE i # 1
      <4>1. /\ i - 1 \in 1..Len(calls) /\ i - 1 \in 1..(i - 1) /\ (i - 1) + 1 = i
            /\ i \in Nat
        BY <3>3, <3>6
      <4>2. calls[i - 1] = "answered" /\ calls[(i - 1) + 1] # "answered" BY <3>3, <4>1
      <4>3. Len(messages) > 0 /\ messages[Len(messages)] = Result(i - 1)
        BY <3>4, <4>1, <4>2 DEF EndsInBatch
      <4>4. /\ Result(i - 1).role = "toolResult" /\ Result(i - 1).n = i - 1
            /\ Result(i - 1).run = Result(i).run /\ Result(i - 1).turn = Result(i).turn
            /\ Result(i).n = i
        BY DEF Result
      <4> QED BY <1>3, <3>1, <3>2, <3>6, <4>3, <4>4
    <3> QED BY <3>5, <3>6
  <2>6. CASE ExecuteAll BY <1>2, <2>6 DEF ExecuteAll, toolVars
  <2>7. CASE EndBatch BY <1>2, <2>7, EndBatchEffect
  <2>8. CASE FinishRun BY <1>2, <2>8 DEF FinishRun
  <2> QED BY <1>6, <2>1, <2>2, <2>3, <2>4, <2>5, <2>6, <2>7, <2>8 DEF LoopStep
<1>7. ASSUME NEW outliving, HandleRunFailure(outliving) PROVE AnswersFollowCalls'
  <2>1. messages' = messages \/ messages' = Append(messages, FailureMessage)
    BY <1>7 DEF HandleRunFailure
  <2>2. FailureMessage \in Message BY BuiltMessages DEF TypeOK
  <2>3. FailureMessage.role = "assistant" BY DEF FailureMessage
  <2> QED BY <1>2, <1>3, <2>1, <2>2, <2>3
<1>8. CASE Failure BY <1>7, <1>8 DEF Failure, RunFails, FinishCallFails
<1>9. ASSUME NEW c \in late, LateFinish(c) PROVE AnswersFollowCalls'
  BY <1>2, <1>9 DEF LateFinish
<1>10. CASE Rest BY <1>2, <1>10 DEF Rest, vars
<1> QED BY <1>5, <1>6, <1>8, <1>9, <1>10 DEF Next

LEMMA BatchInvariant == Spec => [](CallInv /\ BatchInv)
<1>1. TypeOK /\ CallInv /\ BatchInv /\ [Next]_vars => CallInv' /\ BatchInv'
  <2>1. CallInv /\ UNCHANGED vars => CallInv'
    BY CallsUntouched DEF vars, batchVars
  <2>2. BatchInv /\ UNCHANGED vars => BatchInv'
    BY BatchUntouched DEF vars, batchVars
  <2> QED BY <2>1, <2>2, NextCallInv, NextBatch
<1> QED BY InitCallInv, InitBatch, TypeCorrect, <1>1, PTL DEF Spec

\* Every tool result in the transcript stands right behind its call or behind the
\* result of the call before it (AnswersFollowCalls), however many calls a reply
\* has, whatever mode they run in and whatever is aborted or thrown.
THEOREM ResultsFollowTheirCalls == Spec => []AnswersFollowCalls
<1>1. Init => AnswersFollowCalls
  BY DEF Init, AnswersFollowCalls
<1>2. TypeOK /\ CallInv /\ BatchInv /\ SentInv /\ AnswersFollowCalls /\ [Next]_vars
        => AnswersFollowCalls'
  <2>1. AnswersFollowCalls /\ UNCHANGED vars => AnswersFollowCalls'
    BY DEF AnswersFollowCalls, vars
  <2> QED BY <2>1, NextAnswers
<1> QED BY TypeCorrect, SentInvariant, BatchInvariant, <1>1, <1>2, PTL DEF Spec
-----------------------------------------------------------------------------
\* The replies of the active run and their results.  Only the reply under way may
\* lack some, unless the run was aborted.
AnswerTo(r, i) == [r EXCEPT !.role = "toolResult", !.n = i]
HasAnswers(r, ms) == \A i \in 1..r.n : AnswerTo(r, i) \in ms
OfThisRun(r) == r.role = "assistant" /\ r.run = runs

Between == {"inject", "stream", "turnEnd", "followUp"}

AnsweredSoFar ==
  /\ pc = "prompts" => \A r \in ToSet(messages) : ~OfThisRun(r)
  /\ pc \in Between /\ ~aborted =>
       \A r \in ToSet(messages) : OfThisRun(r) => HasAnswers(r, ToSet(messages))
  /\ pc \in Batch /\ ~aborted =>
       \A r \in ToSet(messages) :
         OfThisRun(r) => r = Assistant(Len(calls)) \/ HasAnswers(r, ToSet(messages))
  /\ pc \in Batch => \A i \in 1..Len(calls) : calls[i] = "answered" => Result(i) \in ToSet(messages)

LEMMA Points ==
  /\ Between \cap Batch = {} /\ "prompts" \notin Between /\ "prompts" \notin Batch
  /\ {"idle", "stopping", "agentEnd", "failEnd"} \cap (Between \cup Batch \cup {"prompts"}) = {}
BY DEF Between, Batch

\* The result of a call of the reply under way.
LEMMA AnswerIsResult ==
  ASSUME NEW k, NEW i
  PROVE  AnswerTo(Assistant(k), i) = Result(i)
<1>1. Assistant(k) = [role |-> "assistant", run |-> runs, turn |-> requests, n |-> k]
  BY DEF Assistant
<1>2. [Assistant(k) EXCEPT !.role = "toolResult"]
        = [role |-> "toolResult", run |-> runs, turn |-> requests, n |-> k]
  BY <1>1
<1>3. AnswerTo(Assistant(k), i) = [[Assistant(k) EXCEPT !.role = "toolResult"] EXCEPT !.n = i]
  BY DEF AnswerTo
<1> QED BY <1>2, <1>3 DEF Result

\* The run comes to a point where nothing is claimed.
LEMMA NothingToAnswer ==
  ASSUME pc' \in {"idle", "stopping", "agentEnd", "failEnd"}
  PROVE  AnsweredSoFar'
BY Points DEF AnsweredSoFar

\* A message that is not a reply is added while the run is not at a model request
\* or in a batch, or nothing is added at all.
LEMMA AnsweredGrows ==
  ASSUME AnsweredSoFar, UNCHANGED <<runs, requests>>, aborted' = aborted \/ aborted',
         ToSet(messages) \subseteq ToSet(messages'),
         \A r \in ToSet(messages') : r \in ToSet(messages) \/ r.role # "assistant",
         \/ /\ pc' = pc /\ Len(calls') = Len(calls)
            /\ pc \in Batch =>
                 \A i \in 1..Len(calls) :
                   calls'[i] = "answered" => calls[i] = "answered" \/ Result(i) \in ToSet(messages')
         \/ pc \in Between /\ pc' \in Between
         \/ pc = "prompts" /\ pc' = "inject"
         \/ /\ pc \in Batch /\ pc' \in Batch /\ Len(calls') = Len(calls)
            /\ \A i \in 1..Len(calls) : calls'[i] = "answered" => calls[i] = "answered"
  PROVE  AnsweredSoFar'
<1>1. \A r : OfThisRun(r)' <=> OfThisRun(r) BY DEF OfThisRun
<1>2. \A r \in ToSet(messages') : OfThisRun(r) => r \in ToSet(messages)
  BY DEF OfThisRun
<1>3. \A r : HasAnswers(r, ToSet(messages)) => HasAnswers(r, ToSet(messages'))
  BY DEF HasAnswers
<1>4. \A i : Result(i)' = Result(i) /\ Assistant(i)' = Assistant(i)
  BY DEF Result, Assistant
<1>5. /\ pc' = "prompts" => pc = "prompts"
      /\ pc' \in Between => pc \in Between \/ pc = "prompts"
      /\ pc' \in Batch => pc \in Batch /\ Len(calls') = Len(calls)
      /\ ~aborted' => ~aborted
  BY Points DEF Between
<1>6. (pc = "prompts" => \A r \in ToSet(messages) : ~OfThisRun(r))'
  BY <1>1, <1>2, <1>5 DEF AnsweredSoFar
<1>7. (pc \in Between /\ ~aborted =>
         \A r \in ToSet(messages) : OfThisRun(r) => HasAnswers(r, ToSet(messages)))'
  BY <1>1, <1>2, <1>3, <1>5 DEF AnsweredSoFar
<1>8. (pc \in Batch /\ ~aborted =>
         \A r \in ToSet(messages) :
           OfThisRun(r) => r = Assistant(Len(calls)) \/ HasAnswers(r, ToSet(messages)))'
  BY <1>1, <1>2, <1>3, <1>4, <1>5 DEF AnsweredSoFar
<1>9. (pc \in Batch =>
         \A i \in 1..Len(calls) : calls[i] = "answered" => Result(i) \in ToSet(messages))'
  <2> SUFFICES ASSUME pc' \in Batch, NEW i \in 1..Len(calls'), calls'[i] = "answered"
               PROVE  Result(i)' \in ToSet(messages')
    OBVIOUS
  <2>1. pc \in Batch /\ i \in 1..Len(calls) BY <1>5
  <2>2. calls[i] = "answered" \/ Result(i) \in ToSet(messages')
    BY <2>1, Points DEF Between
  <2>3. Result(i) \in ToSet(messages') BY <2>1, <2>2 DEF AnsweredSoFar
  <2> QED BY <1>4, <2>3
<1> QED BY <1>6, <1>7, <1>8, <1>9 DEF AnsweredSoFar

LEMMA EndBatchCloses ==
  ASSUME EndBatch
  PROVE  /\ "ended" \notin ToSet(calls) /\ aborted' = aborted
         /\ pc' = "prepare" \/ BatchClosed
BY Zenon DEF EndBatch

\* A batch that ends in a run that was not aborted has answered all its calls.
LEMMA AllAnswered ==
  ASSUME TypeOK, CallInv, pc = "results", ~aborted, BatchClosed, "ended" \notin ToSet(calls)
  PROVE  \A i \in 1..Len(calls) : calls[i] = "answered"
<1>1. DOMAIN calls = 1..Len(calls) /\ \A i \in 1..Len(calls) : calls[i] \in Status
  BY DEF TypeOK, CallTypes
<1>2. \A i \in 1..Len(calls) : calls[i] \notin {"todo", "ended"}
  BY <1>1 DEF BatchClosed, ToSet
<1>3. \A i \in 1..Len(calls) : calls[i] \notin {"prepared", "running"}
  BY <1>1 DEF CallInv, CallControl
<1> QED BY <1>1, <1>2, <1>3 DEF Status

LEMMA InitAnswered == Init => AnsweredSoFar
BY DEF Init, AnsweredSoFar, Between, Batch

LEMMA NextAnswered == TypeOK /\ CallInv /\ SentInv /\ AnsweredSoFar /\ Next => AnsweredSoFar'
<1> SUFFICES ASSUME TypeOK, CallInv, SentInv, AnsweredSoFar, Next PROVE AnsweredSoFar' OBVIOUS
<1>1. /\ calls \in Seq(Status) /\ Len(calls) \in Nat /\ DOMAIN calls = 1..Len(calls)
      /\ messages \in Seq(Message) /\ runs \in Nat
      /\ pendingMessages \in Seq(Message)
  BY DEF TypeOK, CallTypes, MessageTypes, RunTypes
<1>2. ASSUME NEW prompts, NEW skip, StartRun(prompts, skip) PROVE AnsweredSoFar'
  <2>1. pc' = "prompts" /\ messages' = messages /\ runs' = runs + 1 BY <1>2 DEF StartRun
  <2>2. \A r \in ToSet(messages) : r.role = "assistant" => r.run <= runs /\ r.run \in Nat
    <3>1. \A p \in DOMAIN messages : p \in 1..Len(messages) /\ messages[p] \in Message BY <1>1
    <3>2. \A r \in Message : r.run \in Nat BY DEF Message
    <3> QED BY <3>1, <3>2 DEF ToSet, SentInv, TranscriptSent
  <2>3. \A r \in ToSet(messages) : ~OfThisRun(r)'
    BY <1>1, <2>1, <2>2 DEF OfThisRun
  <2> QED BY <2>1, <2>3, Points DEF AnsweredSoFar
<1>3. CASE OwnerStep
  <2>1. CASE Prompt \/ Continue BY <1>2, <2>1 DEF Prompt, Continue
  <2>2. CASE Steer \/ FollowUp \/ Abort \/ ClearSteeringQueue \/ ClearFollowUpQueue \/ ClearAllQueues
    <3>1. /\ UNCHANGED <<calls, messages, runs, requests, pc>>
          /\ aborted' = aborted \/ aborted'
      BY <2>2 DEF Steer, FollowUp, Abort, ClearSteeringQueue, ClearFollowUpQueue, ClearAllQueues,
                  ownerVars, loopVars, batchVars
    <3> QED BY <3>1, AnsweredGrows
  <2>3. CASE Reset BY <2>3, NothingToAnswer DEF Reset, Idle
  <2> QED BY <1>3, <2>1, <2>2, <2>3 DEF OwnerStep
<1>4. CASE LoopStep
  <2> USE DEF ownerVars, loopVars, batchVars
  <2>1. CASE EmitMessage
    <3>1. /\ pendingMessages # <<>> /\ messages' = Append(messages, Head(pendingMessages))
          /\ UNCHANGED <<calls, runs, requests, pc, aborted>>
      BY <2>1 DEF EmitMessage
    <3>2. Head(pendingMessages) \in Message /\ Head(pendingMessages).role = "user"
      BY <1>1, <3>1 DEF SentInv, QueuedSent, FromUser
    <3>3. ToSet(messages') = ToSet(messages) \cup {Head(pendingMessages)}
      BY <1>1, <3>1, <3>2, AppendMembers
    <3>4. \A r \in ToSet(messages') : r \in ToSet(messages) \/ r.role # "assistant"
      BY <3>2, <3>3
    <3>5. ToSet(messages) \subseteq ToSet(messages') BY <3>3
    <3> QED BY <3>1, <3>4, <3>5, AnsweredGrows
  <2>2. CASE PollAtStart
    <3>1. /\ UNCHANGED <<messages, runs, requests, aborted>> /\ pc = "prompts" /\ pc' = "inject"
      BY <2>2 DEF PollAtStart
    <3> QED BY <3>1, AnsweredGrows
  <2>3. CASE Request
    <3>1. /\ UNCHANGED <<messages, runs, aborted>> /\ pc = "inject" /\ pc' = "stream"
      BY <2>3 DEF Request
    <3> QED BY <3>1, Points DEF AnsweredSoFar, Between, Batch, OfThisRun
  <2>4. ASSUME NEW k \in 0..MaxCalls, Reply(k) PROVE AnsweredSoFar'
    <3>1. /\ pc = "stream" /\ messages' = Append(messages, Assistant(k))
          /\ UNCHANGED <<runs, requests, aborted>>
      BY <2>4 DEF Reply
    <3>2. Assistant(k) \in Message /\ k \in Nat BY BuiltMessages, BoundAssumption DEF TypeOK
    <3>3. ToSet(messages') = ToSet(messages) \cup {Assistant(k)}
      BY <1>1, <3>1, <3>2, AppendMembers
    <3>4. ~aborted => \A r \in ToSet(messages) : OfThisRun(r) => HasAnswers(r, ToSet(messages'))
      BY <3>1, <3>3 DEF AnsweredSoFar, Between, HasAnswers
    <3>5. \A r : OfThisRun(r)' <=> OfThisRun(r) BY <3>1 DEF OfThisRun
    <3>6. CASE pc' = "stopping" BY <3>6, NothingToAnswer
    <3>7. CASE k = 0 /\ pc' = "turnEnd"
      <4>1. HasAnswers(Assistant(k), ToSet(messages'))
        BY <3>7 DEF HasAnswers, Assistant
      <4>2. (\A r \in ToSet(messages) : OfThisRun(r) => HasAnswers(r, ToSet(messages)))' \/ aborted'
        BY <3>1, <3>3, <3>4, <3>5, <4>1
      <4> QED BY <3>7, <4>2, Points DEF AnsweredSoFar, Between
    <3>8. CASE k > 0 /\ pc' = "prepare" /\ calls' = [i \in 1..k |-> "todo"]
      <4>1. Len(calls') = k /\ \A i \in 1..k : calls'[i] = "todo" BY <3>2, <3>8
      <4>2. Assistant(k)' = Assistant(k) BY <3>1 DEF Assistant
      <4>3. aborted' \/ (\A r \in ToSet(messages) :
              OfThisRun(r) => r = Assistant(Len(calls)) \/ HasAnswers(r, ToSet(messages)))'
        BY <3>1, <3>3, <3>4, <3>5, <4>1, <4>2
      <4>4. pc' \in Batch BY <3>8 DEF Batch
      <4> QED BY <4>1, <4>3, <4>4, Points DEF AnsweredSoFar
    <3> QED BY <2>4, <3>6, <3>7, <3>8 DEF Reply
  <2>5. CASE EndTurn
    <3>1. CASE pc' = "agentEnd" BY <3>1, NothingToAnswer
    <3>2. CASE pc' = AfterTurn
      <4>1. UNCHANGED <<messages, runs, requests, aborted>> /\ pc \in Between /\ pc' \in Between
        BY <2>5, <3>2 DEF EndTurn, AfterTurn, Between
      <4> QED BY <4>1, AnsweredGrows
    <3> QED BY <2>5, <3>1, <3>2 DEF EndTurn
  <2>6. CASE PollFollowUp
    <3>1. CASE pc' = "agentEnd" BY <3>1, NothingToAnswer
    <3>2. CASE pc' = "inject"
      <4>1. UNCHANGED <<messages, runs, requests, aborted>> /\ pc \in Between /\ pc' \in Between
        BY <2>6, <3>2 DEF PollFollowUp, Between
      <4> QED BY <4>1, AnsweredGrows
    <3> QED BY <2>6, <3>1, <3>2 DEF PollFollowUp
  <2>7. CASE StopAfterError BY <2>7, NothingToAnswer DEF StopAfterError
  <2>8. ASSUME pc \in Batch, pc' \in Batch, UNCHANGED <<messages, runs, requests, aborted>>,
               Len(calls') = Len(calls),
               \A i \in 1..Len(calls) : calls'[i] = "answered" => calls[i] = "answered"
        PROVE  AnsweredSoFar'
    BY <2>8, AnsweredGrows
  <2>9. ASSUME NEW i \in 1..MaxCalls, PrepareCall(i) PROVE AnsweredSoFar'
    <3>1. /\ pc \in Batch /\ pc' \in Batch /\ i \in 1..Len(calls)
          /\ UNCHANGED <<messages, runs, requests, aborted>>
      BY <1>1, <2>9 DEF PrepareCall, Enters, toolVars, Batch
    <3>2. PICK s \in {"prepared", "running", "ended"} : calls' = [calls EXCEPT ![i] = s]
      BY <2>9 DEF PrepareCall
    <3>3. Len(calls') = Len(calls) /\ \A j \in 1..Len(calls) : calls'[j] = "answered" => calls[j] = "answered"
      BY <1>1, <3>1, <3>2
    <3> QED BY <2>8, <3>1, <3>3
  <2>10. CASE ExecuteAll
    <3>1. /\ pc \in Batch /\ pc' \in Batch
          /\ UNCHANGED <<messages, runs, requests, aborted>>
      BY <2>10 DEF ExecuteAll, toolVars, Batch
    <3>2. Len(calls') = Len(calls) /\ \A j \in 1..Len(calls) : calls'[j] = "answered" => calls[j] = "answered"
      BY <1>1, <2>10 DEF ExecuteAll
    <3> QED BY <2>8, <3>1, <3>2
  <2>11. ASSUME NEW i \in 1..MaxCalls, FinishCall(i) PROVE AnsweredSoFar'
    <3>1. /\ pc \in Batch /\ pc' \in Batch
          /\ UNCHANGED <<messages, runs, requests, aborted>>
      BY <2>11 DEF FinishCall, toolVars, Batch
    <3>2. Len(calls') = Len(calls) /\ \A j \in 1..Len(calls) : calls'[j] = "answered" => calls[j] = "answered"
      BY <1>1, <2>11 DEF FinishCall
    <3> QED BY <2>8, <3>1, <3>2
  <2>12. ASSUME NEW i \in 1..MaxCalls, AnswerCall(i) PROVE AnsweredSoFar'
    <3>1. /\ pc = "results" /\ pc' = pc /\ i \in 1..Len(calls)
          /\ calls' = [calls EXCEPT ![i] = "answered"]
          /\ messages' = Append(messages, Result(i))
          /\ UNCHANGED <<runs, requests, aborted>>
      BY <1>1, <2>12 DEF AnswerCall
    <3>2. Result(i) \in Message BY BuiltMessages, BoundAssumption DEF TypeOK
    <3>3. ToSet(messages') = ToSet(messages) \cup {Result(i)}
      BY <1>1, <3>1, <3>2, AppendMembers
    <3>4. Result(i).role # "assistant" BY DEF Result
    <3>5. Len(calls') = Len(calls) /\ \A j \in 1..Len(calls) : j = i \/ calls'[j] = calls[j]
      BY <1>1, <3>1
    <3>6. /\ ToSet(messages) \subseteq ToSet(messages') /\ Result(i) \in ToSet(messages')
          /\ \A r \in ToSet(messages') : r \in ToSet(messages) \/ r.role # "assistant"
      BY <3>3, <3>4
    <3>7. \A j \in 1..Len(calls) :
            calls'[j] = "answered" => calls[j] = "answered" \/ Result(j) \in ToSet(messages')
      BY <3>5, <3>6
    <3> QED BY <3>1, <3>5, <3>6, <3>7, AnsweredGrows
  <2>13. CASE EndBatch
    <3>1. pc = "results" /\ UNCHANGED <<messages, runs, requests, aborted>>
      BY <2>13, EndBatchEffect, EndBatchCloses
    <3>2. CASE pc' = "prepare" /\ calls' = calls
      <4>1. pc \in Batch /\ pc' \in Batch BY <3>1, <3>2 DEF Batch
      <4> QED BY <2>8, <3>1, <3>2, <4>1
    <3>3. CASE pc' = "turnEnd"
      <4>1. ASSUME ~aborted, NEW r \in ToSet(messages), OfThisRun(r)
            PROVE  HasAnswers(r, ToSet(messages))
        <5>1. pc \in Batch BY <3>1 DEF Batch
        <5>2. BatchClosed /\ "ended" \notin ToSet(calls) BY <2>13, <3>3, EndBatchCloses
        <5>3. \A i \in 1..Len(calls) : Result(i) \in ToSet(messages)
          BY <3>1, <4>1, <5>1, <5>2, AllAnswered DEF AnsweredSoFar
        <5>4. HasAnswers(Assistant(Len(calls)), ToSet(messages))
          <6>1. Assistant(Len(calls)).n = Len(calls) BY DEF Assistant
          <6>2. \A i : AnswerTo(Assistant(Len(calls)), i) = Result(i)
            BY AnswerIsResult
          <6> QED BY <5>3, <6>1, <6>2 DEF HasAnswers
        <5>5. r = Assistant(Len(calls)) \/ HasAnswers(r, ToSet(messages))
          BY <4>1, <5>1 DEF AnsweredSoFar
        <5> QED BY <5>4, <5>5
      <4>2. \A r : OfThisRun(r)' <=> OfThisRun(r) BY <3>1 DEF OfThisRun
      <4>3. aborted' \/ (\A r \in ToSet(messages) : OfThisRun(r) => HasAnswers(r, ToSet(messages)))'
        BY <3>1, <4>1, <4>2
      <4> QED BY <3>3, <4>3, Points DEF AnsweredSoFar, Between
    <3> QED BY <2>13, <3>2, <3>3, EndBatchEffect
  <2>14. CASE FinishRun BY <2>14, NothingToAnswer DEF FinishRun
  <2> QED BY <1>4, <2>1, <2>2, <2>3, <2>4, <2>5, <2>6, <2>7, <2>9, <2>10, <2>11, <2>12, <2>13, <2>14
             DEF LoopStep
<1>5. CASE Failure
  BY <1>5, NothingToAnswer DEF Failure, RunFails, FinishCallFails, HandleRunFailure
<1>6. ASSUME NEW c \in late, LateFinish(c) PROVE AnsweredSoFar'
  <2>1. UNCHANGED <<calls, messages, runs, requests, pc, aborted>>
    BY <1>6 DEF LateFinish, ownerVars, loopVars, batchVars
  <2> QED BY <2>1, AnsweredGrows
<1>7. CASE Rest
  <2>1. UNCHANGED <<calls, messages, runs, requests, pc, aborted>> BY <1>7 DEF Rest, vars, batchVars
  <2> QED BY <2>1, AnsweredGrows
<1> QED BY <1>3, <1>4, <1>5, <1>6, <1>7 DEF Next

\* The calls that were started.  They have their results whenever the run is not
\* in the batch they belong to, whatever is aborted.
HasResult(c) == ResultOf(c) \in ToSet(messages)
Begun(c) == \E i \in 1..Len(calls) : c = Call(i) /\ calls[i] # "todo"

StartedSoFar ==
  /\ pc \in {"idle", "prompts"} => started = {}
  /\ pc \in Between => \A c \in started : HasResult(c)
  /\ pc \in Batch => \A c \in started : HasResult(c) \/ Begun(c)

LEMMA ResultOfCall ==
  ASSUME NEW i
  PROVE  ResultOf(Call(i)) = Result(i)
BY DEF ResultOf, Call, Result

\* The transcript keeps what it has, and the run its number, unless it ends.
LEMMA MessagesStay ==
  ASSUME TypeOK, SentInv, Next
  PROVE  \/ pc' \in {"stopping", "agentEnd", "failEnd"}
         \/ pc' \in {"idle", "prompts"} /\ pc' # pc
         \/ Reset
         \/ ToSet(messages) \subseteq ToSet(messages') /\ runs' = runs
<1> USE DEF ownerVars, loopVars, batchVars
<1>1. messages \in Seq(Message) /\ pendingMessages \in Seq(Message)
  BY DEF TypeOK, MessageTypes
<1>2. ASSUME NEW m \in Message, messages' = Append(messages, m)
      PROVE  ToSet(messages) \subseteq ToSet(messages')
  BY <1>1, <1>2, AppendMembers
<1>3. ASSUME messages' = messages PROVE ToSet(messages) \subseteq ToSet(messages')
  BY <1>3
<1>4. CASE OwnerStep
  <2>1. CASE Prompt \/ Continue BY <2>1 DEF Prompt, Continue, StartRun, Idle
  <2>2. CASE Steer \/ FollowUp \/ Abort \/ ClearSteeringQueue \/ ClearFollowUpQueue \/ ClearAllQueues
    BY <1>3, <2>2 DEF Steer, FollowUp, Abort, ClearSteeringQueue, ClearFollowUpQueue, ClearAllQueues
  <2> QED BY <1>4, <2>1, <2>2 DEF OwnerStep
<1>5. CASE LoopStep
  <2>1. CASE EmitMessage
    <3>1. pendingMessages # <<>> /\ messages' = Append(messages, Head(pendingMessages)) /\ runs' = runs
      BY <2>1 DEF EmitMessage
    <3> QED BY <1>1, <1>2, <3>1
  <2>2. ASSUME NEW k \in 0..MaxCalls, Reply(k)
        PROVE  ToSet(messages) \subseteq ToSet(messages') /\ runs' = runs
    <3>1. messages' = Append(messages, Assistant(k)) /\ runs' = runs BY <2>2 DEF Reply
    <3>2. Assistant(k) \in Message BY BuiltMessages, BoundAssumption DEF TypeOK
    <3> QED BY <1>2, <3>1, <3>2
  <2>3. ASSUME NEW i \in 1..MaxCalls, AnswerCall(i)
        PROVE  ToSet(messages) \subseteq ToSet(messages') /\ runs' = runs
    <3>1. messages' = Append(messages, Result(i)) /\ runs' = runs BY <2>3 DEF AnswerCall
    <3>2. Result(i) \in Message BY BuiltMessages, BoundAssumption DEF TypeOK
    <3> QED BY <1>2, <3>1, <3>2
  <2>4. CASE PollAtStart \/ Request \/ EndTurn \/ PollFollowUp \/ StopAfterError \/ ExecuteAll
    BY <1>3, <2>4 DEF PollAtStart, Request, EndTurn, PollFollowUp, StopAfterError, ExecuteAll, toolVars
  <2>5. ASSUME NEW i \in 1..MaxCalls, PrepareCall(i) \/ FinishCall(i)
        PROVE  messages' = messages /\ runs' = runs
    BY <2>5 DEF PrepareCall, FinishCall, toolVars
  <2>6. CASE EndBatch BY <1>3, <2>6, EndBatchEffect
  <2>7. CASE FinishRun BY <2>7 DEF FinishRun
  <2> QED BY <1>3, <1>5, <2>1, <2>2, <2>3, <2>4, <2>5, <2>6, <2>7 DEF LoopStep
<1>6. CASE Failure BY <1>6 DEF Failure, RunFails, FinishCallFails, HandleRunFailure
<1>7. ASSUME NEW c \in late, LateFinish(c) PROVE messages' = messages /\ runs' = runs
  BY <1>7 DEF LateFinish
<1>8. CASE Rest BY <1>3, <1>8 DEF Rest, vars
<1> QED BY <1>3, <1>4, <1>5, <1>6, <1>7, <1>8 DEF Next

\* What was started is kept, and a result stays where it is.
LEMMA StartedStays ==
  ASSUME StartedSoFar, started' = started, runs' = runs,
         ToSet(messages) \subseteq ToSet(messages'),
         \/ pc' = pc /\ (pc \in Batch => requests' = requests)
         \/ pc \in Between /\ pc' \in Between \cup Batch
         \/ pc = "prompts" /\ pc' = "inject"
         \/ pc \in Batch /\ pc' \in Batch /\ requests' = requests,
         pc \in Batch => \A i \in 1..Len(calls) :
           calls[i] # "todo" => i \in 1..Len(calls') /\ calls'[i] # "todo"
  PROVE  StartedSoFar'
<1>1. \A c \in started : HasResult(c) => HasResult(c)' BY DEF HasResult, ResultOf
<1>2. pc' \in {"idle", "prompts"} => started' = {}
  BY Points DEF StartedSoFar, Between, Batch
<1>3. pc' \in Between => \A c \in started' : HasResult(c)'
  BY <1>1, Points DEF StartedSoFar, Between, Batch
<1>4. ASSUME pc' \in Batch, NEW c \in started' PROVE HasResult(c)' \/ Begun(c)'
  <2>1. CASE pc \in Between BY <1>1, <2>1 DEF StartedSoFar
  <2>2. CASE pc \in Batch
    <3>1. requests' = requests BY <1>4, <2>2, Points
    <3>2. HasResult(c) \/ Begun(c) BY <2>2 DEF StartedSoFar
    <3>3. Begun(c) => Begun(c)' BY <2>2, <3>1 DEF Begun, Call
    <3> QED BY <1>1, <3>2, <3>3
  <2> QED BY <1>4, <2>1, <2>2, Points DEF Between, Batch
<1> QED BY <1>2, <1>3, <1>4 DEF StartedSoFar

\* When a batch ends, whatever was entered is answered.
LEMMA BegunIsAnswered ==
  ASSUME TypeOK, CallInv, pc = "results", "ended" \notin ToSet(calls),
         NEW i \in 1..Len(calls), calls[i] # "todo"
  PROVE  calls[i] = "answered"
<1>1. DOMAIN calls = 1..Len(calls) /\ calls[i] \in Status
  BY DEF TypeOK, CallTypes
<1>2. calls[i] # "ended" BY <1>1 DEF ToSet
<1>3. calls[i] \notin {"prepared", "running"} BY <1>1 DEF CallInv, CallControl
<1> QED BY <1>1, <1>2, <1>3 DEF Status

LEMMA InitStarted == Init => StartedSoFar
BY DEF Init, StartedSoFar, Between, Batch

LEMMA NextStarted == TypeOK /\ CallInv /\ SentInv /\ AnsweredSoFar /\ StartedSoFar /\ Next => StartedSoFar'
<1> SUFFICES ASSUME TypeOK, CallInv, SentInv, AnsweredSoFar, StartedSoFar, Next PROVE StartedSoFar'
  OBVIOUS
<1>1. /\ calls \in Seq(Status) /\ Len(calls) \in Nat /\ DOMAIN calls = 1..Len(calls)
      /\ messages \in Seq(Message)
  BY DEF TypeOK, CallTypes, MessageTypes
<1>2. ASSUME pc' \in {"stopping", "agentEnd", "failEnd"} PROVE StartedSoFar'
  BY <1>2 DEF StartedSoFar, Between, Batch
<1>3. ASSUME pc' \in {"idle", "prompts"}, started' = {} PROVE StartedSoFar'
  BY <1>3, Points DEF StartedSoFar, Between, Batch
<1>4. CASE OwnerStep
  <2> USE DEF ownerVars, loopVars, batchVars
  <2>1. CASE Prompt \/ Continue
    <3>1. pc = "idle" /\ pc' = "prompts" /\ started' = started
      BY <2>1 DEF Prompt, Continue, StartRun, Idle
    <3> QED BY <1>3, <3>1 DEF StartedSoFar
  <2>2. CASE Steer \/ FollowUp \/ Abort \/ ClearSteeringQueue \/ ClearFollowUpQueue \/ ClearAllQueues
    <3>1. UNCHANGED <<calls, messages, runs, requests, pc, started>>
      BY <2>2 DEF Steer, FollowUp, Abort, ClearSteeringQueue, ClearFollowUpQueue, ClearAllQueues
    <3> QED BY <3>1, StartedStays
  <2>3. CASE Reset
    <3>1. pc = "idle" /\ pc' = "idle" /\ started' = started BY <2>3 DEF Reset, Idle
    <3> QED BY <1>3, <3>1 DEF StartedSoFar
  <2> QED BY <1>4, <2>1, <2>2, <2>3 DEF OwnerStep
<1>5. CASE LoopStep
  <2> USE DEF ownerVars, loopVars, batchVars
  <2>0. \/ pc' \in {"stopping", "agentEnd", "failEnd"}
        \/ pc' \in {"idle", "prompts"} /\ pc' # pc
        \/ Reset
        \/ ToSet(messages) \subseteq ToSet(messages') /\ runs' = runs
    BY MessagesStay
  <2>1. CASE EmitMessage
    <3>1. UNCHANGED <<calls, runs, requests, pc, started>> /\ pc \in {"prompts", "inject"}
      BY <2>1 DEF EmitMessage
    <3>2. ToSet(messages) \subseteq ToSet(messages') BY <2>0, <3>1 DEF Reset, Idle
    <3> QED BY <3>1, <3>2, StartedStays
  <2>2. CASE PollAtStart
    <3>1. UNCHANGED <<calls, messages, runs, requests, started>> /\ pc = "prompts" /\ pc' = "inject"
      BY <2>2 DEF PollAtStart
    <3> QED BY <3>1, StartedStays, Points
  <2>3. CASE Request
    <3>1. UNCHANGED <<calls, messages, runs, started>> /\ pc = "inject" /\ pc' = "stream"
      BY <2>3 DEF Request
    <3>2. pc \in Between /\ pc' \in Between /\ pc \notin Batch BY <3>1 DEF Between, Batch
    <3> QED BY <3>1, <3>2, StartedStays
  <2>4. ASSUME NEW k \in 0..MaxCalls, Reply(k) PROVE StartedSoFar'
    <3>1. /\ pc = "stream" /\ started' = started /\ runs' = runs
          /\ messages' = Append(messages, Assistant(k))
          /\ pc' \in {"stopping", "turnEnd", "prepare"}
      BY <2>4 DEF Reply
    <3>2. CASE pc' = "stopping" BY <1>2, <3>2
    <3>3. CASE pc' \in {"turnEnd", "prepare"}
      <4>1. pc \in Between /\ pc \notin Batch /\ pc' \in Between \cup Batch BY <3>1, <3>3 DEF Between, Batch
      <4>2. Assistant(k) \in Message BY BuiltMessages, BoundAssumption DEF TypeOK
      <4>3. ToSet(messages) \subseteq ToSet(messages') BY <1>1, <3>1, <4>2, AppendMembers
      <4> QED BY <3>1, <4>1, <4>3, StartedStays
    <3> QED BY <3>1, <3>2, <3>3
  <2>5. CASE EndTurn \/ PollFollowUp
    <3>1. UNCHANGED <<calls, messages, runs, started>> /\ pc \in {"turnEnd", "followUp"}
          /\ pc' \in {"agentEnd", "inject", "followUp"}
      BY <2>5 DEF EndTurn, PollFollowUp, AfterTurn
    <3>2. CASE pc' = "agentEnd" BY <1>2, <3>2
    <3>3. CASE pc' # "agentEnd"
      <4>1. pc \in Between /\ pc \notin Batch /\ pc' \in Between BY <3>1, <3>3 DEF Between, Batch
      <4> QED BY <3>1, <4>1, StartedStays
    <3> QED BY <3>2, <3>3
  <2>6. CASE StopAfterError BY <1>2, <2>6 DEF StopAfterError
  <2>7. ASSUME NEW i \in 1..MaxCalls, PrepareCall(i) PROVE StartedSoFar'
    <3>1. /\ pc \in Batch /\ pc' \in Batch /\ i \in 1..Len(calls)
          /\ UNCHANGED <<messages, runs, requests>> /\ started' = started \cup {Call(i)}
      BY <1>1, <2>7 DEF PrepareCall, Enters, toolVars, Batch
    <3>2. PICK s \in {"prepared", "running", "ended"} : calls' = [calls EXCEPT ![i] = s]
      BY <2>7 DEF PrepareCall
    <3>3. /\ Len(calls') = Len(calls) /\ calls'[i] # "todo"
          /\ \A j \in 1..Len(calls) : calls[j] # "todo" => calls'[j] # "todo"
      BY <1>1, <3>1, <3>2
    <3>4. \A c \in started : HasResult(c) \/ Begun(c) BY <3>1 DEF StartedSoFar
    <3>5. \A c : HasResult(c) => HasResult(c)' BY <3>1 DEF HasResult, ResultOf
    <3>6. \A c : Begun(c) => Begun(c)' BY <3>1, <3>3 DEF Begun, Call
    <3>7. Begun(Call(i))' BY <3>1, <3>3 DEF Begun, Call
    <3>8. \A c \in started' : HasResult(c)' \/ Begun(c)'
      <4> SUFFICES ASSUME NEW c \in started' PROVE HasResult(c)' \/ Begun(c)' OBVIOUS
      <4>1. CASE c \in started BY <3>4, <3>5, <3>6, <4>1
      <4>2. CASE c = Call(i)
        <5>1. c = Call(i)' BY <3>1, <4>2 DEF Call
        <5> QED BY <3>1, <3>3, <5>1 DEF Begun, Call
      <4> QED BY <3>1, <4>1, <4>2
    <3> QED BY <3>1, <3>8, Points DEF StartedSoFar, Between, Batch
  <2>8. CASE ExecuteAll
    <3>1. /\ pc \in Batch /\ pc' \in Batch /\ UNCHANGED <<messages, runs, requests, started>>
      BY <2>8 DEF ExecuteAll, toolVars, Batch
    <3>2. \A j \in 1..Len(calls) : calls[j] # "todo" => j \in 1..Len(calls') /\ calls'[j] # "todo"
      BY <1>1, <2>8 DEF ExecuteAll
    <3> QED BY <3>1, <3>2, StartedStays
  <2>9. ASSUME NEW i \in 1..MaxCalls, FinishCall(i) PROVE StartedSoFar'
    <3>1. /\ pc \in Batch /\ pc' \in Batch /\ UNCHANGED <<messages, runs, requests, started>>
      BY <2>9 DEF FinishCall, toolVars, Batch
    <3>2. \A j \in 1..Len(calls) : calls[j] # "todo" => j \in 1..Len(calls') /\ calls'[j] # "todo"
      BY <1>1, <2>9 DEF FinishCall
    <3> QED BY <3>1, <3>2, StartedStays
  <2>10. ASSUME NEW i \in 1..MaxCalls, AnswerCall(i) PROVE StartedSoFar'
    <3>1. /\ pc \in Batch /\ pc' = pc /\ UNCHANGED <<runs, requests, started>>
          /\ messages' = Append(messages, Result(i))
      BY <2>10 DEF AnswerCall, Batch
    <3>2. Result(i) \in Message BY BuiltMessages, BoundAssumption DEF TypeOK
    <3>3. ToSet(messages) \subseteq ToSet(messages') BY <1>1, <3>1, <3>2, AppendMembers
    <3>4. \A j \in 1..Len(calls) : calls[j] # "todo" => j \in 1..Len(calls') /\ calls'[j] # "todo"
      BY <1>1, <2>10 DEF AnswerCall
    <3> QED BY <3>1, <3>3, <3>4, StartedStays
  <2>11. CASE EndBatch
    <3>1. pc = "results" /\ UNCHANGED <<messages, runs, requests, started>>
      BY <2>11, EndBatchEffect
    <3>2. pc \in Batch BY <3>1 DEF Batch
    <3>3. CASE pc' = "prepare" /\ calls' = calls
      <4>1. pc' \in Batch BY <3>3 DEF Batch
      <4> QED BY <3>1, <3>2, <3>3, <4>1, StartedStays
    <3>4. CASE pc' = "turnEnd"
      <4>1. "ended" \notin ToSet(calls) BY <2>11, EndBatchCloses
      <4>2. ASSUME NEW c \in started PROVE HasResult(c)
        <5>1. CASE Begun(c)
          <6>1. PICK i \in 1..Len(calls) : c = Call(i) /\ calls[i] # "todo" BY <5>1 DEF Begun
          <6>2. calls[i] = "answered" BY <3>1, <4>1, <6>1, BegunIsAnswered
          <6>3. Result(i) \in ToSet(messages) BY <3>2, <6>1, <6>2 DEF AnsweredSoFar
          <6> QED BY <6>1, <6>3, ResultOfCall DEF HasResult
        <5> QED BY <3>2, <5>1 DEF StartedSoFar
      <4>3. \A c \in started' : HasResult(c)' BY <3>1, <4>2 DEF HasResult, ResultOf
      <4> QED BY <3>4, <4>3, Points DEF StartedSoFar, Between, Batch
    <3> QED BY <2>11, <3>3, <3>4, EndBatchEffect
  <2>12. CASE FinishRun BY <1>3, <2>12 DEF FinishRun
  <2> QED BY <1>5, <2>1, <2>2, <2>3, <2>4, <2>5, <2>6, <2>7, <2>8, <2>9, <2>10, <2>11, <2>12 DEF LoopStep
<1>6. CASE Failure
  BY <1>2, <1>6 DEF Failure, RunFails, FinishCallFails, HandleRunFailure
<1>7. ASSUME NEW c \in late, LateFinish(c) PROVE StartedSoFar'
  <2>1. UNCHANGED <<calls, messages, runs, requests, pc, started>>
    BY <1>7 DEF LateFinish, ownerVars, loopVars, batchVars
  <2> QED BY <2>1, StartedStays
<1>8. CASE Rest
  <2>1. UNCHANGED <<calls, messages, runs, requests, pc, started>> BY <1>8 DEF Rest, vars, batchVars
  <2> QED BY <2>1, StartedStays
<1> QED BY <1>4, <1>5, <1>6, <1>7, <1>8 DEF Next

\* The model is asked only when every call that was started has its result, in a
\* run that was aborted as well, and when every call of the replies of the run has
\* one, if it was not (RequestsAreAnswered), for any number of calls and any
\* interleaving of the executions with the owner's steps.
THEOREM RequestsFollowResults == Spec => []RequestsAreAnswered
<1>1. TypeOK /\ CallInv /\ SentInv /\ AnsweredSoFar /\ [Next]_vars => AnsweredSoFar'
  <2>1. AnsweredSoFar /\ UNCHANGED vars => AnsweredSoFar'
    <3> SUFFICES ASSUME AnsweredSoFar, UNCHANGED vars PROVE AnsweredSoFar' OBVIOUS
    <3>1. UNCHANGED <<calls, messages, runs, requests, pc, aborted>> BY DEF vars, batchVars
    <3> QED BY <3>1, AnsweredGrows
  <2> QED BY <2>1, NextAnswered
<1>2. TypeOK /\ CallInv /\ SentInv /\ AnsweredSoFar /\ StartedSoFar /\ [Next]_vars => StartedSoFar'
  <2>1. StartedSoFar /\ UNCHANGED vars => StartedSoFar'
    <3> SUFFICES ASSUME StartedSoFar, UNCHANGED vars PROVE StartedSoFar' OBVIOUS
    <3>1. UNCHANGED <<calls, messages, runs, requests, pc, started>> BY DEF vars, batchVars
    <3> QED BY <3>1, StartedStays
  <2> QED BY <2>1, NextStarted
<1>3. AnsweredSoFar /\ StartedSoFar => RequestsAreAnswered
  <2> SUFFICES ASSUME AnsweredSoFar, StartedSoFar, pc = "stream"
               PROVE  StartedAreAnswered /\ (~aborted => AllAreAnswered)
    BY DEF RequestsAreAnswered
  <2>1. pc \in Between BY DEF Between
  <2>2. StartedAreAnswered BY <2>1 DEF StartedSoFar, HasResult, StartedAreAnswered
  <2>3. ~aborted => AllAreAnswered
    BY <2>1 DEF AnsweredSoFar, AllAreAnswered, OfThisRun, HasAnswers, AnswerTo
  <2> QED BY <2>2, <2>3
<1> QED BY TypeCorrect, SentInvariant, BatchInvariant, InitAnswered, InitStarted, <1>1, <1>2, <1>3, PTL DEF Spec
=============================================================================
