----------------------------- MODULE AgentLoop -----------------------------
(***************************************************************************)
(* One Agent (packages/agent/src/agent.ts) and the loop it runs            *)
(* (packages/agent/src/agent-loop.ts).                                     *)
(*                                                                         *)
(* The owner of the agent calls prompt, continue, steer, followUp, abort,  *)
(* clearAllQueues and reset at any time.  At most one run is active: an    *)
(* asynchronous fiber that polls the two queues, asks the model, executes  *)
(* the tool calls of the reply and appends everything to the transcript,   *)
(* awaiting the listeners at every event.  A step of the model is the code *)
(* between two awaits at which something else can interfere; `pc' is what  *)
(* the fiber is awaiting.                                                  *)
(***************************************************************************)
EXTENDS Naturals, Sequences, FiniteSets, SequencesExt

CONSTANTS
  MaxUser,       \* user messages the owner sends, whatever way
  MaxRuns,       \* runs started
  MaxRequests,   \* model replies that may still contain tool calls
  MaxCalls,      \* tool calls in one reply
  SteeringMode,  \* QueueMode of the steering queue
  FollowUpMode,  \* QueueMode of the follow-up queue
  CanThrow       \* may a listener or a loop callback throw

ASSUME BoundAssumption ==
  /\ MaxUser \in Nat /\ MaxRuns \in Nat
  /\ MaxRequests \in Nat /\ MaxCalls \in Nat
  /\ {SteeringMode, FollowUpMode} \subseteq {"all", "one-at-a-time"}
  /\ CanThrow \in BOOLEAN

VARIABLES
  messages,         \* AgentState.messages: the transcript
  steeringQueue,    \* user messages waiting for the end of the turn
  followUpQueue,    \* user messages waiting for the agent to stop
  pendingToolCalls, \* AgentState.pendingToolCalls
  aborted,          \* the signal of the active run
  pc,               \* what the active run awaits; "idle" when there is none
  context,          \* the loop's own copy of the transcript
  pendingMessages,  \* messages the loop holds and has not emitted yet
  skipPoll,         \* skipInitialSteeringPoll
  mode,             \* how the tool calls of the reply are executed
  calls,            \* status of each tool call of the reply
  toolResults,      \* results of the reply, not in the context yet
  hasMoreToolCalls, \* the reply wants another request
  started,          \* history: calls of the run whose tool_execution_start was emitted
  late,             \* executions that outlived the run that started them
  runs,             \* history: runs started
  requests,         \* history: requests made; identifies a reply
  sent              \* history: how each user message was sent

vars == <<messages, steeringQueue, followUpQueue, pendingToolCalls, aborted, pc,
          context, pendingMessages, skipPoll, mode, calls, toolResults,
          hasMoreToolCalls, started, late, runs, requests, sent>>

batchVars == <<mode, calls, toolResults, hasMoreToolCalls, started>>
loopVars == <<context, pendingMessages, skipPoll, batchVars>>
ownerVars == <<steeringQueue, followUpQueue, sent, runs>>

Id == 1..MaxUser
Via == {"prompt", "steer", "followUp"}
Mode == {"parallel", "sequential", "truncated"}
Status == {"todo", "prepared", "running", "ended", "answered"}
Point == {"idle", "prompts", "inject", "stream", "prepare", "execute", "results",
          "turnEnd", "followUp", "stopping", "agentEnd", "failEnd"}

(***************************************************************************)
(* Messages.  A user message is its number; a reply and a tool result      *)
(* carry the run and the request they belong to.  n is the number of tool  *)
(* calls of a reply and the position of the call a result answers.         *)
(***************************************************************************)
User(m)      == [role |-> "user", run |-> 0, turn |-> 0, n |-> m]
Assistant(k) == [role |-> "assistant", run |-> runs, turn |-> requests, n |-> k]
Result(i)    == [role |-> "toolResult", run |-> runs, turn |-> requests, n |-> i]
FailureMessage == [role |-> "assistant", run |-> runs, turn |-> 0, n |-> 0]

Message == [role : {"user", "assistant", "toolResult"}, run : Nat, turn : Nat, n : Nat]
Call(i) == <<requests, i>>

\* PendingMessageQueue.drain: what it returns and what it leaves.
Drained(mod, q) == IF mod = "all" \/ q = <<>> THEN q ELSE <<Head(q)>>
UndrainedKeeps(mod, q) ==   \* a slip: "all" copies the queue and does not empty it
  IF mod = "all" \/ q = <<>> THEN q ELSE Tail(q)
Undrained(mod, q) == IF mod = "all" \/ q = <<>> THEN <<>> ELSE Tail(q)
-----------------------------------------------------------------------------
Init ==
  /\ messages = <<>> /\ steeringQueue = <<>> /\ followUpQueue = <<>>
  /\ pendingToolCalls = {} /\ aborted = FALSE /\ pc = "idle"
  /\ context = <<>> /\ pendingMessages = <<>> /\ skipPoll = FALSE
  /\ mode = "parallel" /\ calls = <<>> /\ toolResults = <<>>
  /\ hasMoreToolCalls = FALSE /\ started = {}
  /\ late = {} /\ runs = 0 /\ requests = 0 /\ sent = <<>>

(***************************************************************************)
(* The owner.                                                              *)
(***************************************************************************)
Idle == pc = "idle"

Send(via) ==
  /\ Len(sent) < MaxUser
  /\ sent' = Append(sent, via)

\* runWithLifecycle up to the first await: the gate is taken, the context is
\* the transcript plus the prompts.
StartRun(prompts, skip) ==
  /\ Idle /\ runs < MaxRuns
  /\ runs' = runs + 1
  /\ pc' = "prompts"
  /\ aborted' = FALSE
  /\ context' = messages \o prompts
  /\ pendingMessages' = prompts
  /\ skipPoll' = skip
  /\ UNCHANGED <<messages, pendingToolCalls, batchVars, late, requests>>

Prompt ==
  /\ Send("prompt")
  /\ StartRun(<<User(Len(sent'))>>, FALSE)
  /\ UNCHANGED <<steeringQueue, followUpQueue>>

\* continue(): a transcript that ends in a reply needs a queued message.
Continue ==
  /\ messages # <<>>
  /\ \/ /\ Last(messages).role # "assistant"
        /\ StartRun(<<>>, FALSE)
        /\ UNCHANGED <<steeringQueue, followUpQueue>>
     \/ /\ Last(messages).role = "assistant"
        /\ steeringQueue # <<>>
        /\ StartRun(Drained(SteeringMode, steeringQueue), TRUE)
        /\ steeringQueue' = Undrained(SteeringMode, steeringQueue)
        /\ UNCHANGED followUpQueue
     \/ /\ Last(messages).role = "assistant"
        /\ steeringQueue = <<>> /\ followUpQueue # <<>>
        /\ StartRun(Drained(FollowUpMode, followUpQueue), FALSE)
        /\ followUpQueue' = Undrained(FollowUpMode, followUpQueue)
        /\ UNCHANGED steeringQueue
  /\ UNCHANGED sent

Steer ==
  /\ Send("steer")
  /\ steeringQueue' = Append(steeringQueue, User(Len(sent')))
  /\ UNCHANGED <<messages, followUpQueue, pendingToolCalls, aborted, pc, loopVars,
                 late, runs, requests>>

FollowUp ==
  /\ Send("followUp")
  /\ followUpQueue' = Append(followUpQueue, User(Len(sent')))
  /\ UNCHANGED <<messages, steeringQueue, pendingToolCalls, aborted, pc, loopVars,
                 late, runs, requests>>

Abort ==
  /\ ~Idle
  /\ aborted' = TRUE
  /\ UNCHANGED <<messages, ownerVars, pendingToolCalls, pc, loopVars, late,
                 requests>>

Ids(queue) == {m.n : m \in ToSet(queue)}
Withdraw(ids) == [m \in DOMAIN sent |-> IF m \in ids THEN "withdrawn" ELSE sent[m]]

ClearSteeringQueue ==
  /\ steeringQueue' = <<>> /\ UNCHANGED followUpQueue
  /\ sent' = Withdraw(Ids(steeringQueue))
  /\ UNCHANGED <<messages, pendingToolCalls, aborted, pc, loopVars, late, runs,
                 requests>>

ClearFollowUpQueue ==
  /\ followUpQueue' = <<>> /\ UNCHANGED steeringQueue
  /\ sent' = Withdraw(Ids(followUpQueue))
  /\ UNCHANGED <<messages, pendingToolCalls, aborted, pc, loopVars, late, runs,
                 requests>>

ClearAllQueues ==
  /\ steeringQueue' = <<>> /\ followUpQueue' = <<>>
  /\ sent' = Withdraw(Ids(steeringQueue \o followUpQueue))
  /\ UNCHANGED <<messages, pendingToolCalls, aborted, pc, loopVars, late, runs,
                 requests>>

NoPendingCalls == pendingToolCalls' = {}

Reset ==
  /\ Idle
  /\ messages' = <<>> /\ steeringQueue' = <<>> /\ followUpQueue' = <<>>
  /\ NoPendingCalls
  /\ sent' = Withdraw(DOMAIN sent)
  /\ UNCHANGED <<aborted, pc, loopVars, late, runs, requests>>
-----------------------------------------------------------------------------
(***************************************************************************)
(* The loop: prompts, queues and the model.                                *)
(***************************************************************************)
\* The prompts are in the context from the start; an injected message is added
\* once its listeners are done.
ContextAfterAny(m) == Append(context, m)   \* a slip: prompts are added again
ContextAfter(m) == IF pc = "inject" THEN Append(context, m) ELSE context

\* message_start and message_end of the next prompt or injected message.
EmitMessage ==
  /\ pc \in {"prompts", "inject"} /\ pendingMessages # <<>>
  /\ messages' = Append(messages, Head(pendingMessages))
  /\ context' = ContextAfter(Head(pendingMessages))
  /\ pendingMessages' = Tail(pendingMessages)
  /\ UNCHANGED <<ownerVars, pendingToolCalls, aborted, pc, skipPoll, batchVars,
                 late, requests>>

\* getSteeringMessages when runLoop starts.
PollAtStart ==
  /\ pc = "prompts" /\ pendingMessages = <<>>
  /\ pc' = "inject"
  /\ IF skipPoll
       THEN UNCHANGED <<pendingMessages, steeringQueue>>
       ELSE /\ pendingMessages' = Drained(SteeringMode, steeringQueue)
            /\ steeringQueue' = Undrained(SteeringMode, steeringQueue)
  /\ skipPoll' = FALSE
  /\ UNCHANGED <<messages, followUpQueue, pendingToolCalls, aborted, context,
                 batchVars, late, runs, requests, sent>>

\* streamAssistantResponse: the model is asked with `context'.
Request ==
  /\ pc = "inject" /\ pendingMessages = <<>>
  /\ pc' = "stream"
  /\ requests' = requests + 1
  /\ UNCHANGED <<messages, ownerVars, pendingToolCalls, aborted, loopVars, late>>

\* The final message of the stream: k tool calls, and how the loop treats them.
\* A stop with "error" or "aborted" ends the run, whatever the reply contains.
Reply(k) ==
  /\ pc = "stream"
  /\ k > 0 => requests <= MaxRequests
  /\ messages' = Append(messages, Assistant(k))
  /\ context' = Append(context, Assistant(k))
  /\ \/ pc' = "stopping" /\ UNCHANGED batchVars
     \/ /\ k = 0 /\ pc' = "turnEnd"
        /\ hasMoreToolCalls' = FALSE
        /\ UNCHANGED <<mode, calls, toolResults, started>>
     \/ /\ k > 0 /\ pc' = "prepare"
        /\ mode' \in Mode
        /\ calls' = [i \in 1..k |-> "todo"]
        /\ UNCHANGED <<toolResults, hasMoreToolCalls, started>>
  /\ UNCHANGED <<ownerVars, pendingToolCalls, aborted, pendingMessages, skipPoll,
                 late, requests>>

\* The condition of the inner loop, once the steering queue is polled.
AfterTurnOfCalls ==   \* a slip: the messages just taken are no reason to go on
  IF hasMoreToolCalls THEN "inject" ELSE "followUp"
AfterTurn == IF hasMoreToolCalls \/ steeringQueue # <<>> THEN "inject" ELSE "followUp"

\* The end of a turn: shouldStopAfterTurn, or else getSteeringMessages.
EndTurn ==
  /\ pc = "turnEnd"
  /\ \/ /\ pc' = "agentEnd"
        /\ UNCHANGED <<pendingMessages, steeringQueue>>
     \/ /\ pendingMessages' = Drained(SteeringMode, steeringQueue)
        /\ steeringQueue' = Undrained(SteeringMode, steeringQueue)
        /\ pc' = AfterTurn
  /\ UNCHANGED <<messages, followUpQueue, pendingToolCalls, aborted, context, skipPoll,
                 batchVars, late, runs, requests, sent>>

\* getFollowUpMessages, when the inner loop has nothing left to do.
PollFollowUp ==
  /\ pc = "followUp"
  /\ pendingMessages' = Drained(FollowUpMode, followUpQueue)
  /\ followUpQueue' = Undrained(FollowUpMode, followUpQueue)
  /\ pc' = IF followUpQueue # <<>> THEN "inject" ELSE "agentEnd"
  /\ UNCHANGED <<messages, steeringQueue, pendingToolCalls, aborted, context, skipPoll,
                 batchVars, late, runs, requests, sent>>

\* turn_end and agent_end after a reply that stopped with "error" or "aborted".
StopAfterError ==
  /\ pc = "stopping"
  /\ pc' = "agentEnd"
  /\ UNCHANGED <<messages, ownerVars, pendingToolCalls, aborted, loopVars, late,
                 requests>>
-----------------------------------------------------------------------------
(***************************************************************************)
(* The loop: tool calls.                                                   *)
(***************************************************************************)
toolVars == <<messages, ownerVars, aborted, context, pendingMessages, skipPoll,
              mode, hasMoreToolCalls, late, requests>>

\* The calls are entered in the order of the reply.
IsNext(i) == calls[i] = "todo" /\ \A j \in 1..(i - 1) : calls[j] # "todo"

\* No further call will be entered: all were, or the signal was found aborted
\* after one of them.  The calls of a truncated reply are failed in any case.
BatchClosed ==
  \/ "todo" \notin ToSet(calls)
  \/ aborted /\ mode # "truncated" /\ calls[1] # "todo"

\* Whether call i is entered now; EndBatch looked at the signal in the other modes.
Enters(i) ==
  /\ pc = "prepare" /\ i \in DOMAIN calls /\ IsNext(i)
  /\ mode = "parallel" => ~BatchClosed

\* tool_execution_start and prepareToolCall: the call is ready to execute, or
\* fails at once (unknown tool, invalid arguments, blocked, aborted, truncated).
\* An abort in between is an abort right after the call has failed.
PrepareCall(i) ==
  /\ Enters(i)
  /\ \/ /\ mode # "truncated" /\ ~aborted
        /\ pendingToolCalls' = pendingToolCalls \cup {Call(i)}
        /\ calls' = [calls EXCEPT ![i] = IF mode = "parallel" THEN "prepared" ELSE "running"]
        /\ pc' = IF mode = "parallel" THEN "prepare" ELSE "execute"
     \/ /\ calls' = [calls EXCEPT ![i] = "ended"]
        /\ pc' = IF mode = "parallel" THEN "prepare" ELSE "results"
        /\ UNCHANGED pendingToolCalls
  /\ started' = started \cup {Call(i)}
  /\ UNCHANGED <<toolVars, toolResults>>

\* Promise.all over the prepared calls of a parallel batch.
ExecuteAll ==
  /\ pc = "prepare" /\ mode = "parallel" /\ BatchClosed
  /\ calls' = [i \in DOMAIN calls |-> IF calls[i] = "prepared" THEN "running" ELSE calls[i]]
  /\ pc' = IF "prepared" \in ToSet(calls) THEN "execute" ELSE "results"
  /\ UNCHANGED <<toolVars, pendingToolCalls, toolResults, started>>

\* What Promise.all still waits for once call i is done.
OthersNotEnded(i) == {j \in DOMAIN calls \ {i} : calls[j] # "ended"}   \* a slip: entered or not
OthersAwaited(i) ==   \* a slip: an abort does not wait for the tools that still run
  {j \in DOMAIN calls \ {i} : calls[j] = "running" /\ ~aborted}
OthersRunning(i) == {j \in DOMAIN calls \ {i} : calls[j] = "running"}

\* A tool returned, was finalized and its tool_execution_end was emitted.
FinishCall(i) ==
  /\ pc = "execute" /\ i \in DOMAIN calls /\ calls[i] = "running"
  /\ calls' = [calls EXCEPT ![i] = "ended"]
  /\ pc' = IF OthersRunning(i) = {} THEN "results" ELSE "execute"
  /\ pendingToolCalls' = pendingToolCalls \ {Call(i)}
  /\ UNCHANGED <<toolVars, toolResults, started>>

\* orderedFinalizedCalls: results are emitted in the order of the reply.
AnswersAny(i) == calls[i] = "ended"   \* a slip: in the order of completion
AnswersNext(i) == calls[i] = "ended" /\ \A j \in 1..(i - 1) : calls[j] # "ended"

\* emitToolResultMessage.
AnswerCall(i) ==
  /\ pc = "results" /\ i \in DOMAIN calls /\ AnswersNext(i)
  /\ calls' = [calls EXCEPT ![i] = "answered"]
  /\ messages' = Append(messages, Result(i))
  /\ toolResults' = Append(toolResults, Result(i))
  /\ UNCHANGED <<ownerVars, pendingToolCalls, aborted, pc, context, pendingMessages,
                 skipPoll, mode, hasMoreToolCalls, started, late, requests>>

\* Every entered call is answered: a sequential loop enters the next call, a
\* closed batch is copied to the context and may end the turn (terminate).
EndBatch ==
  /\ pc = "results" /\ "ended" \notin ToSet(calls)
  /\ IF BatchClosed
       THEN /\ pc' = "turnEnd"
            /\ hasMoreToolCalls' \in (IF mode = "truncated" THEN {TRUE} ELSE BOOLEAN)
            /\ context' = context \o toolResults
            /\ calls' = <<>> /\ toolResults' = <<>>
       ELSE /\ pc' = "prepare"
            /\ UNCHANGED <<hasMoreToolCalls, context, calls, toolResults>>
  /\ UNCHANGED <<messages, ownerVars, pendingToolCalls, aborted, pendingMessages, skipPoll,
                 mode, started, late, requests>>
-----------------------------------------------------------------------------
(***************************************************************************)
(* Failure, and the end of the run.                                        *)
(***************************************************************************)
\* handleRunFailure.  A listener may throw again at the failure message
\* (before or after it is in the transcript), which skips the other events.
HandleRunFailure(outliving) ==
  /\ pc' = "failEnd"
  /\ late' = late \cup outliving
  /\ messages' \in {messages, Append(messages, FailureMessage)}
  /\ UNCHANGED <<ownerVars, aborted, loopVars, requests>>

\* A listener or a callback of the loop throws while the fiber awaits it.
RunFails ==
  /\ CanThrow /\ pc \notin {"idle", "execute", "followUp", "failEnd"}
  /\ HandleRunFailure({})
  /\ \/ UNCHANGED pendingToolCalls
     \/ \E i \in 1..MaxCalls : /\ Enters(i)   \* at its tool_execution_start
                              /\ pendingToolCalls' = pendingToolCalls \cup {Call(i)}

\* The listener of a tool_execution_update or of the tool_execution_end throws:
\* Promise.all rejects, and the other executions of the batch go on without the run.
FinishCallFails(i) ==
  /\ CanThrow /\ pc = "execute" /\ i \in DOMAIN calls /\ calls[i] = "running"
  /\ HandleRunFailure({Call(j) : j \in OthersRunning(i)})
  /\ pendingToolCalls' \in {pendingToolCalls, pendingToolCalls \ {Call(i)}}

\* tool_execution_end of an execution whose run has failed, whatever is active.
LateFinish(c) ==
  /\ c \in late
  /\ late' = late \ {c}
  /\ pendingToolCalls' = pendingToolCalls \ {c}
  /\ UNCHANGED <<messages, ownerVars, aborted, pc, loopVars, requests>>

\* finishRun; what the loop held is garbage.
FinishRun ==
  /\ pc \in {"agentEnd", "failEnd"}
  /\ pc' = "idle"
  /\ NoPendingCalls
  /\ aborted' = FALSE
  /\ context' = <<>> /\ pendingMessages' = <<>> /\ skipPoll' = FALSE
  /\ mode' = "parallel" /\ calls' = <<>> /\ toolResults' = <<>> /\ hasMoreToolCalls' = FALSE
  /\ started' = {}
  /\ UNCHANGED <<messages, ownerVars, late, requests>>
-----------------------------------------------------------------------------
\* An idle agent waits for its owner.
Rest == Idle /\ UNCHANGED vars

OwnerStep ==
  \/ Prompt \/ Continue \/ Steer \/ FollowUp
  \/ Abort \/ ClearSteeringQueue \/ ClearFollowUpQueue \/ ClearAllQueues \/ Reset

LoopStep ==
  \/ EmitMessage \/ PollAtStart \/ Request
  \/ \E k \in 0..MaxCalls : Reply(k)
  \/ EndTurn \/ PollFollowUp \/ StopAfterError
  \/ \E i \in 1..MaxCalls : PrepareCall(i) \/ FinishCall(i) \/ AnswerCall(i)
  \/ ExecuteAll \/ EndBatch \/ FinishRun

Failure == RunFails \/ \E i \in 1..MaxCalls : FinishCallFails(i)

Next == OwnerStep \/ LoopStep \/ Failure \/ (\E c \in late : LateFinish(c)) \/ Rest

\* The fiber is scheduled whenever it can go on: providers, tools and listeners
\* settle.  Nothing is assumed of the owner, nor that anything throws.
Fairness == WF_vars(LoopStep) /\ WF_vars(\E c \in late : LateFinish(c))

Spec == Init /\ [][Next]_vars /\ Fairness
-----------------------------------------------------------------------------
(***************************************************************************)
(* Properties.                                                             *)
(***************************************************************************)
MessageTypes ==
  /\ messages \in Seq(Message) /\ context \in Seq(Message)
  /\ steeringQueue \in Seq(Message) /\ followUpQueue \in Seq(Message)
  /\ pendingMessages \in Seq(Message) /\ toolResults \in Seq(Message)

FlagTypes == aborted \in BOOLEAN /\ skipPoll \in BOOLEAN /\ hasMoreToolCalls \in BOOLEAN

CallTypes ==
  /\ calls \in Seq(Status) /\ mode \in Mode
  /\ pendingToolCalls \subseteq Nat \X Nat /\ started \subseteq Nat \X Nat /\ late \subseteq Nat \X Nat

RunTypes ==
  /\ pc \in Point /\ runs \in Nat /\ requests \in Nat
  /\ sent \in Seq(Via \cup {"withdrawn"})

TypeOK == MessageTypes /\ FlagTypes /\ CallTypes /\ RunTypes

\* What the model is asked is the transcript: the loop's private copy, updated
\* in five places, never misses or repeats a message the listeners were told of
\* (agent-loop.ts:113-204, 347-396, 237; agent.ts:589-592).
ContextIsTranscript == pc = "stream" => context = messages

\* Why: while it runs, the loop's copy lacks only the results of the current reply,
\* and it starts ahead of the transcript by the prompts that are not emitted yet
\* (agent-loop.ts:103-128, 222-241, 347-396; agent.ts:412-430).
ContextCopy ==
  /\ pc = "prompts" => context = messages \o pendingMessages
  /\ pc \in {"inject", "stream", "prepare", "execute", "results", "turnEnd", "followUp"} =>
       messages = context \o toolResults
  /\ pc \in {"idle", "prompts", "inject", "stream", "turnEnd", "followUp"} => toolResults = <<>>

\* A tool result stands in the transcript right behind the call it answers or
\* behind the result of the call before it, whatever order the tools finished
\* in and whatever was aborted or failed (agent-loop.ts:580-589).
AnswersFollowCalls ==
  \A p \in DOMAIN messages : messages[p].role = "toolResult" =>
    /\ p > 1
    /\ LET before == messages[p - 1]
           answer == messages[p]
       IN  /\ before.run = answer.run /\ before.turn = answer.turn
           /\ IF answer.n = 1
                THEN before.role = "assistant" /\ before.n >= 1
                ELSE before.role = "toolResult" /\ before.n = answer.n - 1

\* Whenever the model is asked again, each call of the run whose start was emitted
\* has its result, also when the run was aborted while calls were prepared or
\* executed; and unless it was aborted, so has every call of all its replies
\* (agent-loop.ts:190-241, 481-595).
ResultOf(c) == [role |-> "toolResult", run |-> runs, turn |-> c[1], n |-> c[2]]
StartedAreAnswered == \A c \in started : ResultOf(c) \in ToSet(messages)
AllAreAnswered ==
  \A r \in ToSet(messages) : r.role = "assistant" /\ r.run = runs =>
    \A i \in 1..r.n : [r EXCEPT !.role = "toolResult", !.n = i] \in ToSet(messages)

RequestsAreAnswered ==
  pc = "stream" => StartedAreAnswered /\ (~aborted => AllAreAnswered)

\* Messages sent the same way reach the transcript in the order they were sent
\* and at most once, over every path that moves them: both polls, continue(),
\* a run that fails with messages in hand (agent.ts:151-164, 393-404).
Queue(via) == IF via = "followUp" THEN followUpQueue ELSE steeringQueue
IsSent(m, via) == m.role = "user" /\ sent[m.n] = via

DeliveredInOrder ==
  \A via \in Via :
    LET line == messages \o pendingMessages \o Queue(via)
    IN  \A p, q \in DOMAIN line :
          p < q /\ IsSent(line[p], via) /\ IsSent(line[q], via) => line[p].n < line[q].n

\* A message that was not withdrawn stays in a queue, in the hands of the loop or
\* in the transcript: only a run that failed drops what it held
\* (agent.ts:151-168, 543-568, agent-loop.ts:181, 281-289).
Held == ToSet(messages \o pendingMessages \o steeringQueue \o followUpQueue)

NoMessageLost ==
  [][\A m \in DOMAIN sent' :
       /\ m \in DOMAIN sent => User(m) \in Held
       /\ sent'[m] # "withdrawn"
       /\ pc # "failEnd"
       => User(m) \in Held']_vars

\* pendingToolCalls names exactly the calls of the active run that were started
\* and not finished, also while executions of a failed run are still going on
\* (agent.ts:594-606, 562-568).
PendingToolCallsExact ==
  pc # "failEnd" =>
    pendingToolCalls = {Call(i) : i \in {j \in DOMAIN calls : calls[j] \in {"prepared", "running"}}}

\* Why: the control point says which statuses the calls can have, and an execution
\* that outlived its run belongs to an earlier request than the one in progress
\* (agent-loop.ts:467-595).
CallControl ==
  /\ calls # <<>> => pc \in {"prepare", "execute", "results", "failEnd"}
  /\ \A i \in DOMAIN calls :
       /\ pc = "prepare" => calls[i] # "running" /\ (mode # "parallel" => calls[i] # "prepared")
       /\ pc = "execute" => calls[i] # "prepared"
       /\ pc = "results" => calls[i] \notin {"prepared", "running"}
  /\ \A c \in late : /\ c[1] <= requests
                     /\ pc \in {"stream", "prepare", "execute", "results"} => c[1] # requests

\* Every run settles, whatever is aborted, blocked or thrown: prompt() and
\* waitForIdle() resolve (agent.ts:516-568).
RunSettles == ~Idle ~> Idle

\* packages/agent/src/agent.ts:341, "Resolve when the current run and all awaited
\* event listeners have finished": no execution of a run outlives it.
IdleMeansSettled == Idle => late = {}
=============================================================================
