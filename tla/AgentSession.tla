---------------------------- MODULE AgentSession ----------------------------
(***************************************************************************)
(* The session around an Agent                                             *)
(* (packages/coding-agent/src/core/agent-session.ts): prompts, queued      *)
(* messages, the retry of failed replies, compaction, and the session log. *)
(*                                                                         *)
(* A caller is an invocation of prompt() or sendCustomMessage() that may   *)
(* end up driving the agent: at[c] is what it awaits.  One caller at most  *)
(* awaits a run of the agent, whose loop (packages/agent/src/agent-loop.ts)*)
(* is modelled as far as it touches the session: pc is what the run awaits.*)
(* AgentLoop has the loop itself, with its tool calls and its own copy of  *)
(* the context.  Texts are distinct, so that a message is known by its     *)
(* number; a token count is a choice, and every message weighs the same.   *)
(***************************************************************************)
EXTENDS Integers, Sequences, FiniteSets, SequencesExt, FiniteSetsExt

CONSTANTS
  Caller,          \* the invocations that can be under way
  MaxSent,         \* messages the clients of the session send
  MaxTroubles,     \* replies that fail or call a tool
  MaxCompactions,  \* compactions the log may hold before one more is not wanted
  MaxRetries,      \* settings.retry.maxRetries
  KeepRecent,      \* settings.compaction.keepRecentTokens, in messages
  MaxBeside        \* of those troubles, once prompts or compactions overlap

ASSUME CallerAssumption == IsFiniteSet(Caller)
ASSUME BoundsAssumption ==
  /\ MaxSent \in Nat /\ MaxTroubles \in Nat
  /\ MaxCompactions \in Nat /\ MaxRetries \in Nat
  /\ KeepRecent \in Nat \ {0} /\ MaxBeside \in Nat

VARIABLES
  messages, log, unsaved,         \* agent.state.messages; the entries of the
                                  \* session; a message on its way to them
  steering, followUp,             \* the agent's queues
  nextTurn, bash,                 \* _pendingNextTurnMessages, _pendingBashMessages
  pc, hand, skip, aborted,        \* the run: what it awaits, messages it holds,
                                  \* skipInitialSteeringPoll, its signal
  last, retryAttempt, recovered,  \* _lastAssistantMessage, _retryAttempt,
                                  \* _overflowRecoveryAttempted
  active, waiter,                 \* _isAgentRunActive; somebody waits for idle
  manual, manualCut,              \* compact(): its stage, its preparation
  at, held, cut, retry,           \* the callers: stage, messages of the prompt,
                                  \* preparation and willRetry of a compaction
  sent, gone, recoveries, refused,    \* history: messages sent; withdrawn or rejected;
                                  \* continuations since the last progress;
                                  \* agent.continue() threw
  overlap                         \* history: a prompt or compaction was "accepted"
                                  \* while an accepted prompt had not started its
                                  \* run; a prompt "started" while one was active

context == <<messages, log, unsaved>>
queues  == <<steering, followUp>>
pending == <<nextTurn, bash>>
run     == <<pc, hand, skip, aborted>>
post    == <<last, retryAttempt, recovered>>
idling  == <<active, waiter, manual, manualCut>>
callers == <<at, held, cut, retry>>
history == <<sent, gone, recoveries, refused, overlap>>
vars == <<context, queues, pending, run, post, idling, callers, history>>

Failed == {"error", "overflow", "length"}     \* a retryable error, a context
                                              \* overflow, a truncated reply
Reply  == Failed \cup {"ok", "call", "aborted"}
Client == {"user", "aside", "bash"}           \* aside: a custom message
Message == [kind : Reply \cup Client \cup {"result", "summary", "none"}, n : Nat]
NoMessage == [kind |-> "none", n |-> 0]

Preflight  == {"preflight", "precompact", "presaved", "before"}
Working    == {"running", "backoff", "cancelled", "recover", "restored"}
Stage      == Preflight \cup Working \cup {"idle", "settling"}

\* Every message that was emitted has been saved.
Quiet == unsaved = <<>>

\* The messages of these kinds among the first of s, and in all of it.
Picked(kinds, s) ==
  LET of[k \in 0..Len(s)] ==
        IF k = 0 THEN <<>>
        ELSE IF s[k].kind \in kinds THEN Append(of[k - 1], s[k]) ELSE of[k - 1]
  IN of
Of(kinds, s) == Picked(kinds, s)[Len(s)]
IsReply(s)   == s # <<>> /\ Last(s).kind \in Reply

Init ==
  /\ messages = <<>> /\ log = <<>> /\ unsaved = <<>>
  /\ steering = <<>> /\ followUp = <<>>
  /\ nextTurn = <<>> /\ bash = <<>>
  /\ pc = "off" /\ hand = <<>> /\ skip = FALSE /\ aborted = FALSE
  /\ last = NoMessage /\ retryAttempt = 0 /\ recovered = FALSE
  /\ active = FALSE /\ waiter = FALSE /\ manual = "off" /\ manualCut = 0
  /\ at = [c \in Caller |-> "idle"] /\ held = [c \in Caller |-> <<>>]
  /\ cut = [c \in Caller |-> 0] /\ retry = [c \in Caller |-> FALSE]
  /\ sent = 0 /\ gone = {} /\ recoveries = 0 /\ refused = FALSE /\ overlap = "none"

-----------------------------------------------------------------------------
(* The session log and its compaction.                                     *)

\* A compaction is an entry that holds the index of the first entry it keeps.
Compactions(l) == {i \in DOMAIN l : l[i].kind = "summary"}
LastCompaction(l) == IF Compactions(l) = {} THEN 0 ELSE Max(Compactions(l))

\* buildSessionContext: the summary, what it keeps, and what came after it.
Context(l) ==
  LET k == LastCompaction(l) IN
  IF k = 0 THEN l
  ELSE <<l[k]>> \o SubSeq(l, l[k].n, k - 1) \o SubSeq(l, k + 1, Len(l))

\* Whether reply m is older than the latest compaction.
Stale(m) == \E i \in DOMAIN log : log[i] = m /\ i < LastCompaction(log)

\* The entries that may be summarised, and those a cut may precede.
Boundary(l) == IF LastCompaction(l) = 0 THEN 1 ELSE l[LastCompaction(l)].n
CutPoints(l) == {i \in Boundary(l)..Len(l) : l[i].kind \notin {"summary", "result"}}

\* findCutPoint: the first cut point among the recent entries, or else of all.
CutPoint(l) ==
  LET recent == {i \in CutPoints(l) : i > Len(l) - KeepRecent} IN
  IF recent = {} \/ Len(l) - KeepRecent < Boundary(l) - 1
    THEN Min(CutPoints(l)) ELSE Min(recent)

\* prepareCompaction: there is something new, and something to summarise.
Preparable(l) ==
  /\ l # <<>> /\ Last(l).kind # "summary" /\ CutPoints(l) # {}
  /\ \E i \in Boundary(l)..(CutPoint(l) - 1) : l[i].kind # "summary"

Summary(first) == [kind |-> "summary", n |-> first]

\* The context loses the reply it ends with.
WithoutReply(ms) == IF IsReply(ms) THEN Front(ms) ELSE ms
WithoutFailure(ms) ==
  IF ms # <<>> /\ Last(ms).kind \in Failed THEN Front(ms) ELSE ms

-----------------------------------------------------------------------------
(* What clients of the session ask for at any time.                        *)

\* No prompt that was accepted has still to start its run, and no compaction is
\* asked for.  The program does not look.
NoPreflight == \A d \in Caller : at[d] \notin Preflight
Undisturbed == manual = "off" /\ NoPreflight
Noted(alone) == overlap' = IF alone \/ overlap # "none" THEN overlap ELSE "accepted"

Accept(kind) == [kind |-> kind, n |-> sent + 1]
Send == sent < MaxSent /\ sent' = sent + 1

\* _flushPendingBashMessages, when the context is ms.
FlushAgain(ms) ==   \* a slip: the results stay pending
  /\ messages' = ms \o bash /\ log' = log \o bash /\ UNCHANGED bash
FlushContextOnly(ms) ==   \* a slip: the results are not saved
  /\ messages' = ms \o bash /\ bash' = <<>> /\ UNCHANGED log
Flush(ms) == messages' = ms \o bash /\ log' = log \o bash /\ bash' = <<>>

\* An invocation that has not begun; one is as good as another.
Fresh(c) == at[c] = "idle" /\ c = CHOOSE d \in Caller : at[d] = "idle"

\* prompt() while the session is idle, up to its first wait: pending bash
\* results go first.
Prompt(c) ==
  /\ Fresh(c) /\ Send /\ Noted(Undisturbed)
  /\ ~active /\ manual \in {"off", "wait"}
  /\ at' = [at EXCEPT ![c] = "preflight"]
  /\ held' = [held EXCEPT ![c] = <<Accept("user")>>]
  /\ Flush(messages)
  /\ UNCHANGED <<unsaved, queues, nextTurn, run, post, idling, cut, retry, gone,
                 recoveries, refused>>

\* steer() and followUp(), or prompt() while the session is active.
Queue(kind) ==
  /\ Send
  /\ \/ steering' = Append(steering, Accept(kind)) /\ UNCHANGED followUp
     \/ followUp' = Append(followUp, Accept(kind)) /\ UNCHANGED steering
  /\ UNCHANGED <<context, pending, run, post, idling, callers, gone, recoveries,
                 refused, overlap>>

\* sendCustomMessage() with deliverAs "nextTurn".
SendNextTurn ==
  /\ Send
  /\ nextTurn' = Append(nextTurn, Accept("aside"))
  /\ UNCHANGED <<context, queues, bash, run, post, idling, callers, gone, recoveries,
                 refused, overlap>>

\* sendCustomMessage() without a turn: it is part of the context at once.
SendAside ==
  /\ Send
  /\ messages' = Append(messages, Accept("aside"))
  /\ log' = Append(log, Accept("aside"))
  /\ UNCHANGED <<unsaved, queues, pending, run, post, idling, callers, gone,
                 recoveries, refused, overlap>>

\* recordBashResult.
Record ==
  IF active
    THEN bash' = Append(bash, Accept("bash")) /\ UNCHANGED <<messages, log>>
    ELSE /\ messages' = Append(messages, Accept("bash"))
         /\ log' = Append(log, Accept("bash"))
         /\ UNCHANGED bash
RecordBash ==
  /\ Send /\ Record
  /\ UNCHANGED <<unsaved, queues, nextTurn, run, post, idling, callers, gone,
                 recoveries, refused, overlap>>

ClearQueue ==
  /\ gone' = gone \cup {m.n : m \in ToSet(steering \o followUp)}
  /\ steering' = <<>> /\ followUp' = <<>>
  /\ UNCHANGED <<context, pending, run, post, idling, callers, sent, recoveries,
                 refused, overlap>>

\* abortRetry and agent.abort.
Interrupt ==
  /\ aborted' = (aborted \/ pc # "off")
  /\ at' = [c \in Caller |-> IF at[c] = "backoff" THEN "cancelled" ELSE at[c]]
  /\ UNCHANGED <<context, queues, pending, pc, hand, skip, post, active, manualCut,
                 held, cut, retry, sent, gone, recoveries, refused>>

\* abort(): it returns when the session is idle.
Abort == Interrupt /\ waiter' = (waiter \/ active) /\ UNCHANGED <<manual, overlap>>

\* compact() aborts first.
Compact ==
  /\ manual = "off" /\ Noted(NoPreflight)
  /\ Cardinality(Compactions(log)) < MaxCompactions
  /\ manual' = IF active THEN "wait" ELSE "ready"
  /\ waiter' = (waiter \/ active)
  /\ Interrupt

-----------------------------------------------------------------------------
(* The end of a caller's work: what it leaves to settle, or a run.         *)

\* The run of the agent that c drives is over when c goes on.
PcAfter(c) == IF at[c] = "running" THEN "off" ELSE pc

\* The finally of _runAgentPrompt, when the context is ms: bash results are
\* flushed, and the session is idle before those who listen hear of it.
Finally(c, ms) ==
  /\ Flush(ms)
  /\ active' = FALSE
  /\ at' = [at EXCEPT ![c] = "settling"]
  /\ pc' = PcAfter(c)
  /\ held' = [held EXCEPT ![c] = <<>>]
  /\ UNCHANGED <<unsaved, queues, nextTurn, hand, skip, aborted, waiter, manual,
                 manualCut, cut, retry>>

\* The agent starts a run that c awaits, with these messages first.
StartRun(c, ms, skipPoll) ==
  /\ hand' = ms /\ skip' = skipPoll /\ aborted' = FALSE
  /\ pc' = "prompts"
  /\ at' = [at EXCEPT ![c] = "running"]

CanContinue(c, ms) ==
  /\ PcAfter(c) = "off" /\ ms # <<>>
  /\ IsReply(ms) => steering # <<>> \/ followUp # <<>>

\* agent.continue(): a context that ends in a reply needs a queued message.
\* Queues are in mode "one-at-a-time".
Continue(c, ms) ==
  \/ /\ CanContinue(c, ms)
     /\ \/ /\ ~IsReply(ms)
           /\ StartRun(c, <<>>, FALSE) /\ UNCHANGED <<steering, followUp>>
        \/ /\ IsReply(ms) /\ steering # <<>>
           /\ StartRun(c, <<Head(steering)>>, TRUE)
           /\ steering' = Tail(steering) /\ UNCHANGED followUp
        \/ /\ IsReply(ms) /\ steering = <<>>
           /\ StartRun(c, <<Head(followUp)>>, FALSE)
           /\ followUp' = Tail(followUp) /\ UNCHANGED steering
     /\ messages' = ms
     /\ UNCHANGED <<log, unsaved, pending, idling, held, cut, retry, refused>>
  \/ /\ ~CanContinue(c, ms)
     /\ refused' = TRUE
     /\ Finally(c, ms)

Queued == steering # <<>> \/ followUp # <<>>

\* Whether a run that is over goes on.
GoesOnIfTold(go) == go   \* a slip: the loop has drained the queues
GoesOn(go) == go \/ Queued

\* What happens when a reply needs no compaction, or its compaction is over: a
\* prompt is built, a run that is over goes on if it should or must, and c is
\* done otherwise.
Proceed(c, ms, go) ==
  IF at[c] \in Preflight
    THEN /\ at' = [at EXCEPT ![c] = "before"]
         /\ held' = [held EXCEPT ![c] = @ \o nextTurn] /\ nextTurn' = <<>>
         /\ messages' = ms
         /\ UNCHANGED <<log, unsaved, queues, bash, run, idling, cut, retry,
                        refused>>
    ELSE IF GoesOn(go) THEN Continue(c, ms)
    ELSE Finally(c, ms) /\ UNCHANGED refused

\* _runAutoCompaction up to the summary; nothing happens if nothing can be done.
StartCompaction(c, ms, willRetry) ==
  IF ~Preparable(log) THEN Proceed(c, ms, FALSE)
  ELSE /\ at' = [at EXCEPT ![c] = IF @ \in Preflight THEN "precompact" ELSE "recover"]
       /\ cut' = [cut EXCEPT ![c] = CutPoint(log)]
       /\ retry' = [retry EXCEPT ![c] = willRetry]
       /\ messages' = ms /\ pc' = PcAfter(c)
       /\ UNCHANGED <<log, unsaved, queues, pending, hand, skip, aborted, idling,
                      held, refused>>

\* _checkCompaction of reply m: an overflow or a truncated reply is taken out
\* and recovered from once; above the threshold the context is compacted.
CheckCompaction(c, m) ==
  LET looked == ~Stale(m) /\ (m.kind = "aborted" => at[c] \in Preflight)
      overflow == looked /\ m.kind \in {"overflow", "length"} IN
  \/ /\ overflow /\ ~recovered
     /\ recovered' = TRUE
     /\ StartCompaction(c, WithoutReply(messages), TRUE)
  \/ /\ ~overflow \/ recovered
     /\ Proceed(c, messages, FALSE)
     /\ UNCHANGED recovered
  \/ /\ looked /\ ~overflow
     /\ Cardinality(Compactions(log)) < MaxCompactions
     /\ StartCompaction(c, messages, FALSE)
     /\ UNCHANGED recovered

-----------------------------------------------------------------------------
(* The steps of a caller.                                                  *)

\* No model, no credentials: prompt() throws.
PreflightFails(c) ==
  /\ at[c] = "preflight"
  /\ at' = [at EXCEPT ![c] = "idle"]
  /\ held' = [held EXCEPT ![c] = <<>>]
  /\ gone' = gone \cup {m.n : m \in ToSet(held[c])}
  /\ UNCHANGED <<context, queues, pending, run, post, idling, cut, retry, sent,
                 recoveries, refused, overlap>>

\* The last reply is checked for compaction before the prompt is built.
CheckBefore(c) ==
  /\ at[c] = "preflight"
  /\ LET replies == Of(Reply, messages) IN
     IF replies = <<>>
       THEN Proceed(c, messages, FALSE) /\ UNCHANGED recovered
       ELSE CheckCompaction(c, Last(replies))
  /\ UNCHANGED <<last, retryAttempt, sent, gone, recoveries, overlap>>

\* _runAgentPrompt, from prompt() or from a custom message that triggers a turn.
\* The agent throws if a run is active, and the messages are not taken.
RunPrompt(c, ms) ==
  IF pc = "off"
    THEN /\ StartRun(c, ms, FALSE)
         /\ active' = TRUE
         /\ held' = [held EXCEPT ![c] = <<>>]
         /\ UNCHANGED <<context, queues, pending, waiter, manual, manualCut, cut,
                        retry, gone, refused>>
    ELSE /\ gone' = gone \cup {m.n : m \in ToSet(ms)}
         /\ Finally(c, messages)
         /\ UNCHANGED refused
Run(c) ==
  /\ at[c] = "before"
  /\ RunPrompt(c, held[c])
  /\ overlap' = IF active THEN "started" ELSE overlap
  /\ UNCHANGED <<post, sent, recoveries>>
Trigger(c) ==
  /\ Fresh(c) /\ ~active /\ Send /\ Noted(Undisturbed)
  /\ RunPrompt(c, <<Accept("aside")>>)
  /\ UNCHANGED <<post, recoveries>>

\* Is this an error to retry, and are there attempts left?
RetryableOnceMore(m) == m.kind = "error" /\ retryAttempt <= MaxRetries   \* a slip
Retryable(m) == m.kind = "error" /\ retryAttempt < MaxRetries

\* _prepareRetry: the failed reply is taken out of the context, and c waits.
SettledMeanwhile == active' = FALSE   \* a slip: agent_end settles the session
ActiveMeanwhile == UNCHANGED active
PrepareRetry(c) ==
  /\ retryAttempt' = retryAttempt + 1
  /\ messages' = WithoutReply(messages)
  /\ at' = [at EXCEPT ![c] = "backoff"] /\ pc' = "off"
  /\ UNCHANGED <<log, unsaved, queues, pending, hand, skip, aborted, recovered,
                 waiter, manual, manualCut, held, cut, retry, refused>>
  /\ ActiveMeanwhile

\* agent_end has been listened to: _handlePostAgentRun.
PostRun(c) ==
  /\ at[c] = "running" /\ pc = "end" /\ Quiet
  /\ last' = NoMessage
  /\ IF last = NoMessage
       THEN Finally(c, messages) /\ UNCHANGED <<retryAttempt, recovered, refused>>
     ELSE IF Retryable(last) THEN PrepareRetry(c)
     ELSE /\ retryAttempt' = IF last.kind \in {"error", "overflow"} THEN 0 ELSE retryAttempt
          /\ CheckCompaction(c, last)
  /\ UNCHANGED <<sent, gone, recoveries, overlap>>

CancelledKeepsAttempt == retryAttempt   \* a slip
CancelledAttempt == 0

\* The backoff is over, or was cancelled: then the reply is checked as any other.
\* It was not kept, but it is an error, which only the threshold concerns.
BackoffOver(c) ==
  /\ \/ /\ at[c] = "backoff"
        /\ Continue(c, messages) /\ UNCHANGED <<retryAttempt, nextTurn>>
     \/ /\ at[c] = "cancelled"
        /\ retryAttempt' = CancelledAttempt
        /\ \/ Proceed(c, messages, FALSE)
           \/ /\ Cardinality(Compactions(log)) < MaxCompactions
              /\ StartCompaction(c, messages, FALSE)
  /\ UNCHANGED <<last, recovered, sent, gone, recoveries, overlap>>

\* The summary of an automatic compaction is there, or failed or was cancelled.
SummaryEnds(c) ==
  /\ at[c] \in {"precompact", "recover"}
  /\ \/ /\ Proceed(c, messages, FALSE)
     \/ /\ log' = Append(log, Summary(cut[c]))
        /\ messages' = Context(log')
        /\ at' = [at EXCEPT ![c] = IF @ = "precompact" THEN "presaved" ELSE "restored"]
        /\ UNCHANGED <<unsaved, queues, pending, run, idling, held, cut, retry, refused>>
  /\ UNCHANGED <<post, sent, gone, recoveries, overlap>>

\* session_compact has been listened to.  What is kept may end in the failed
\* reply again.
CompactionEnds(c) ==
  /\ at[c] \in {"presaved", "restored"}
  /\ Proceed(c, IF retry[c] THEN WithoutFailure(messages) ELSE messages, retry[c])
  /\ recoveries' = recoveries + (IF retry[c] /\ at[c] = "restored" THEN 1 ELSE 0)
  /\ UNCHANGED <<post, sent, gone, overlap>>

\* The finally of _emitAgentSettled: those who wait are told, unless another run
\* has begun, and compact() goes on.
WakeNobody == FALSE   \* a slip: the flag was read before agent_settled was heard of
Wakes == ~active
Settled(c) ==
  /\ at[c] = "settling"
  /\ at' = [at EXCEPT ![c] = "idle"]
  /\ waiter' = (waiter /\ ~Wakes)
  /\ manual' = IF Wakes /\ manual = "wait" THEN "ready" ELSE manual
  /\ UNCHANGED <<context, queues, pending, run, post, active, manualCut, held, cut,
                 retry, history>>

-----------------------------------------------------------------------------
(* compact(), once the session is idle.                                    *)

ManualStep ==
  \/ /\ manual = "ready" /\ Preparable(log)
     /\ manualCut' = CutPoint(log) /\ manual' = "summary"
     /\ UNCHANGED <<messages, log>>
  \/ /\ manual = "ready" /\ ~Preparable(log)
     /\ manual' = "off" /\ UNCHANGED <<messages, log, manualCut>>
  \/ /\ manual = "summary"    \* it failed, or was cancelled
     /\ manual' = "off" /\ UNCHANGED <<messages, log, manualCut>>
  \/ /\ manual = "summary"
     /\ log' = Append(log, Summary(manualCut))
     /\ messages' = Context(log')
     /\ manual' = "saved" /\ UNCHANGED manualCut
  \/ /\ manual = "saved"
     /\ manual' = "off" /\ UNCHANGED <<messages, log, manualCut>>
Manual ==
  /\ ManualStep
  /\ UNCHANGED <<unsaved, queues, pending, run, post, active, waiter, callers, history>>

-----------------------------------------------------------------------------
(* The run of the agent, and what the session does at its events.          *)

runRest == <<pending, skip, aborted, idling, callers, sent, gone, refused, overlap>>
\* message_start and message_end of a message the loop holds: it is in the context.
Emit ==
  /\ pc \in {"prompts", "inject"} /\ hand # <<>> /\ Quiet
  /\ messages' = Append(messages, Head(hand))
  /\ unsaved' = <<Head(hand)>> /\ hand' = Tail(hand)
  /\ recovered' = (recovered /\ Head(hand).kind # "user")
  /\ recoveries' = 0
  /\ UNCHANGED <<log, steering, followUp, pc, last, retryAttempt, runRest>>

\* Whether a recovery is still the last thing that happened.
OnlyErrorsRecovered(m) == recovered /\ m.kind \in {"error", "overflow"}   \* a slip
StillRecovered(m) == recovered /\ m.kind \in Failed

\* The extensions have seen the message: it is saved.  A reply that succeeds
\* ends retries and recovery.
Save ==
  /\ unsaved # <<>>
  /\ log' = log \o unsaved /\ unsaved' = <<>>
  /\ LET m == unsaved[1] IN
     IF m.kind \notin Reply THEN UNCHANGED <<post, recoveries>>
     ELSE /\ last' = m
          /\ recovered' = StillRecovered(m)
          /\ retryAttempt' = IF m.kind \in {"error", "overflow"} THEN retryAttempt ELSE 0
          /\ recoveries' = IF m.kind \in Failed THEN recoveries ELSE 0
  /\ UNCHANGED <<messages, queues, pc, hand, runRest>>

\* getSteeringMessages as the loop starts.
Poll ==
  /\ pc = "prompts" /\ hand = <<>> /\ Quiet
  /\ pc' = "inject" /\ skip' = FALSE
  /\ IF skip \/ steering = <<>> THEN UNCHANGED <<hand, steering>>
     ELSE hand' = <<Head(steering)>> /\ steering' = Tail(steering)
  /\ UNCHANGED <<context, followUp, pending, aborted, post, idling, callers,
                 history>>

\* The model replies.
Number(kinds) == Len(Of(kinds, log)) + 1
Troubles == Failed \cup {"call"}
Bound == IF overlap = "none" THEN MaxTroubles ELSE Min({MaxTroubles, MaxBeside})
ReplyWith(kind) ==
  /\ pc = "inject" /\ hand = <<>> /\ Quiet
  /\ kind = "aborted" => aborted
  /\ kind \in Troubles => Number(Troubles) <= Bound
  /\ unsaved' = <<[kind |-> kind, n |-> Number(Reply)]>>
  /\ messages' = messages \o unsaved'
  /\ pc' = IF kind = "call" THEN "tool"
           ELSE IF kind \in {"ok", "length"} THEN "replied" ELSE "end"
  /\ UNCHANGED <<log, queues, hand, post, recoveries, runRest>>

ToolResult ==
  /\ pc = "tool" /\ Quiet
  /\ unsaved' = <<[kind |-> "result", n |-> Number(Reply) - 1]>>
  /\ messages' = messages \o unsaved'
  /\ pc' = "called"
  /\ UNCHANGED <<log, queues, hand, post, recoveries, runRest>>

\* The end of a turn: steering messages first, and follow-ups if the agent
\* would stop.
EndTurn ==
  /\ pc \in {"called", "replied"} /\ Quiet
  /\ \/ /\ steering # <<>>
        /\ hand' = <<Head(steering)>> /\ steering' = Tail(steering)
        /\ pc' = "inject" /\ UNCHANGED followUp
     \/ /\ steering = <<>> /\ pc = "called"
        /\ pc' = "inject" /\ UNCHANGED <<hand, steering, followUp>>
     \/ /\ steering = <<>> /\ pc = "replied" /\ followUp # <<>>
        /\ hand' = <<Head(followUp)>> /\ followUp' = Tail(followUp)
        /\ pc' = "inject" /\ UNCHANGED steering
     \/ /\ ~Queued /\ pc = "replied"
        /\ pc' = "end" /\ UNCHANGED <<hand, steering, followUp>>
  /\ UNCHANGED <<context, post, recoveries, runRest>>

-----------------------------------------------------------------------------
CallerStep(c) ==
  \/ PreflightFails(c) \/ CheckBefore(c) \/ Run(c)
  \/ PostRun(c) \/ BackoffOver(c) \/ SummaryEnds(c) \/ CompactionEnds(c)
  \/ Settled(c)
RunStep ==
  \/ Emit \/ Save \/ Poll \/ ToolResult \/ EndTurn
  \/ \E kind \in Reply : ReplyWith(kind)
Request ==
  \/ \E c \in Caller : Prompt(c) \/ Trigger(c)
  \/ Queue("user") \/ (active /\ Queue("aside"))
  \/ SendNextTurn \/ SendAside \/ RecordBash \/ ClearQueue \/ Abort \/ Compact
Next == Request \/ RunStep \/ Manual \/ \E c \in Caller : CallerStep(c)

\* The event loop goes on, models reply and timers fire; clients owe nothing.
Fairness ==
  /\ WF_vars(RunStep) /\ WF_vars(Manual)
  /\ \A c \in Caller : WF_vars(CallerStep(c))
Spec == Init /\ [][Next]_vars
FairSpec == Spec /\ Fairness

-----------------------------------------------------------------------------
(* Properties.                                                             *)

TypeOK ==
  /\ {messages, log, unsaved, steering, followUp, nextTurn, bash, hand} \subseteq Seq(Message)
  /\ gone \subseteq 1..sent /\ sent \in 0..MaxSent
  /\ pc \in {"off", "prompts", "inject", "tool", "called", "replied", "end"}
  /\ {skip, aborted, recovered, active, waiter, refused} \subseteq BOOLEAN
  /\ overlap \in {"none", "accepted", "started"}
  /\ last \in Message /\ retryAttempt \in 0..MaxRetries /\ recoveries \in Nat
  /\ manual \in {"off", "wait", "ready", "summary", "saved"} /\ manualCut \in Nat
  /\ at \in [Caller -> Stage] /\ held \in [Caller -> Seq(Message)]
  /\ cut \in [Caller -> Nat] /\ retry \in [Caller -> BOOLEAN]

\* An idle session has no run of the agent, no retry and no recovery under way:
\* what isIdle says (the comment on it promises the automatic compaction before
\* a prompt, too).  Nothing but a prompt that starts on an active session, since
\* it was accepted before, makes an end of that.
IdleIsIdle ==
  overlap # "started" /\ ~active => pc = "off" /\ \A c \in Caller : at[c] \notin Working
IdleIsAlwaysIdle == ~active => pc = "off" /\ \A c \in Caller : at[c] \notin Working

\* Nobody waits for an idle session in vain: while abort() or waitForIdle()
\* waits, a run is there to end or its end is being listened to.
WaitersWake == waiter => active \/ \E c \in Caller : at[c] = "settling"

\* The count of retries does not outlive the prompt: it would be taken off the
\* retries of the next.
RetryClosed == retryAttempt > 0 => active

\* An overflow is recovered from once: without a message or a good reply in
\* between the turn is not compacted and tried again a second time.
RecoversOnce == recoveries <= 1

\* agent.continue() never refuses, which would reject the prompt.
ContinueAccepted == ~refused

\* Where message i of a client stands in s, and in the prompts that callers hold.
Places(i, s) == {k \in DOMAIN s : s[k].kind \in Client /\ s[k].n = i}
HeldPlaces(i) == UNION {{c} \X Places(i, held[c]) : c \in Caller}
Elsewhere == steering \o followUp \o nextTurn \o bash \o hand \o unsaved \o log

\* A message that was accepted is in one place, and there once, until it is in
\* the session for good; only those are gone that a client withdrew or whose
\* prompt was rejected.
MessagesAreKept ==
  \A i \in 1..sent :
    Cardinality(Places(i, Elsewhere)) + Cardinality(HeldPlaces(i)) =
      IF i \in gone THEN 0 ELSE 1

\* The agent works with the context a reload of the session would give it, but
\* for failed replies that were taken out, and for where asides stand.  What a
\* run has emitted and not saved is lost from it when the compaction of another
\* prompt comes in between.
ContextAgrees ==
  LET session == Context(log) \o unsaved
      kept == Client \cup Reply \cup {"result", "summary"}
      core == kept \ (Failed \cup {"aside"}) IN
  /\ Of(core, messages) = Of(core, session)
  /\ ToSet(Of({"aside"}, messages)) = ToSet(Of({"aside"}, session))
  /\ ToSet(Of(Failed, messages)) \subseteq ToSet(session)
ContextIsSession == overlap = "none" => ContextAgrees

\* A session that becomes idle leaves nothing queued, also after an error, an
\* abort or a compaction.
SettlesEmpty ==
  [][active /\ ~active' => steering' = <<>> /\ followUp' = <<>>]_vars

\* abort(), waitForIdle() and compact() return.
WaitersReturn == waiter ~> ~waiter
=============================================================================
