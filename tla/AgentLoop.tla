------------------------------ MODULE AgentLoop ------------------------------
(***************************************************************************)
(* One agent invocation: run_agent_loop of agents/runtime/loop.py.  The    *)
(* bootstrap tool calls run first, then a LangGraph graph with the nodes   *)
(* llm, tools, compact_context and budget_exhausted; every execution of a  *)
(* node is one superstep, and LangGraph raises an error when the end is    *)
(* not reached in recursion_limit supersteps.  The model is free in what   *)
(* it asks for, the tools in what they return.                             *)
(*                                                                         *)
(* The page the tools look at is a version number.  A navigation or an     *)
(* interaction that succeeds makes a new version; one that fails or times  *)
(* out may have made one as well before it failed.                         *)
(***************************************************************************)
EXTENDS Integers, Sequences, FiniteSets

CONSTANTS
    MaxCalls,          \* max_tool_calls
    MaxContinuations,  \* context_continuation_max; 0 when continuation is off
    RepeatLimit,       \* repeated_tool_call_limit
    NoProgressLimit,   \* no_progress_turn_limit
    RetryAttempts,     \* llm_retry_attempts
    ReadCalls,         \* the cacheable calls the model may make (READONLY_TOOLS)
    CacheSize,         \* max_size of the tool result cache
    Batches,           \* the lists of tool calls a model answer may carry
    BootTools          \* number of bootstrap tools

Calls == ReadCalls \cup {"navigate", "note", "unknown"}

\* recursion_limit of the compiled graph
RecursionLimit ==
    LET scaled == (MaxCalls + BootTools + 3) * 4 IN IF scaled > 25 THEN scaled ELSE 25

ASSUME BoundsAssumption ==
    /\ MaxCalls \in Nat \ {0} /\ MaxContinuations \in Nat /\ BootTools \in Nat
    /\ RepeatLimit \in Nat \ {0} /\ NoProgressLimit \in Nat \ {0}
    /\ RetryAttempts \in Nat \ {0} /\ CacheSize \in Nat \ {0}

ASSUME BatchesAssumption ==
    /\ Batches \subseteq Seq(Calls) \ {<<>>}
    /\ ReadCalls \cap {"navigate", "note", "unknown"} = {}

\* The configuration fits the recursion limit.  It does for the default of 4
\* continuations and any tool budget; config.py does not bound the setting.
ContinuationsFit == 2 * MaxCalls + 3 * MaxContinuations + 3 <= RecursionLimit

VARIABLES
    pc,          \* where the invocation is
    verdict,     \* how it ended: the stop_reason of the result, or the exception
    cancel,      \* observer.is_cancel_requested()
    steps,       \* supersteps executed
    boot,        \* bootstrap tools done
    attempt,     \* attempt of the model call under way
    made,        \* tool_calls_made
    asking,      \* tool calls of the last model answer
    todo,        \* the allowed ones that tool_node has not answered yet
    open,        \* calls in the message list that have no tool message
    turn,        \* what tool_node has seen: cache hits, mutation, site down
    pending,     \* context_compaction_pending
    continuation,\* continuation_index
    exhausted,   \* budget_exhausted
    stop,        \* stop_reason in the graph state
    lastBatch,   \* last_tool_batch_signature
    repeats,     \* repeated_tool_batch_count
    noProgress,  \* no_progress_turn_count
    cache,       \* tool results in insertion order: the call, the page version seen
    page,        \* version of the page
    unsure       \* a failed call has changed the page since the cache was cleared

agentVars == <<pc, verdict, cancel, steps, boot, attempt, made, asking, todo, open, turn, pending,
          continuation, exhausted, stop, lastBatch, repeats, noProgress, cache, page, unsure>>

modelVars   == <<pending, exhausted, asking>>
guardVars   == <<stop, lastBatch, repeats, noProgress>>
cacheVars   == <<cache, page, unsure>>
counterVars == <<steps, boot, made, continuation>>

NoTurn == [hits |-> 0, size |-> 0, mutated |-> FALSE, down |-> FALSE]

AgentInit ==
    /\ pc = (IF BootTools > 0 THEN "boot" ELSE "llm")
    /\ verdict = "none" /\ cancel = FALSE
    /\ steps = 0 /\ boot = 0 /\ attempt = 1 /\ made = 0 /\ continuation = 0
    /\ asking = <<>> /\ todo = <<>> /\ open = 0 /\ turn = NoTurn
    /\ pending = FALSE /\ exhausted = FALSE
    /\ stop = "" /\ lastBatch = <<>> /\ repeats = 0 /\ noProgress = 0
    /\ cache = <<>> /\ page = 0 /\ unsure = FALSE

Ended == pc = "done"
InGraph == pc \notin {"boot", "bootWait", "done"}

FinishLoop(how) == pc' = "done" /\ verdict' = how

\* LangGraph is about to execute a node
NodeStarts == pc \in {"tools", "compact"} \/ (pc \in {"llm", "final"} /\ attempt = 1)

-----------------------------------------------------------------------------
\* _run_bootstrap_tool: one outside call, its errors and its time limit become
\* a result; the cancel flag is read before and after.
BootCall ==
    /\ pc = "boot" /\ ~cancel
    /\ pc' = "bootWait"
    /\ UNCHANGED <<verdict, cancel, attempt, todo, open, turn>>
    /\ UNCHANGED <<modelVars, guardVars, cacheVars, counterVars>>

BootResult ==
    /\ pc = "bootWait" /\ ~cancel
    /\ boot' = boot + 1
    /\ pc' = (IF boot' = BootTools THEN "llm" ELSE "boot")
    /\ UNCHANGED <<verdict, cancel, steps, made, continuation, attempt, todo, open, turn>>
    /\ UNCHANGED <<modelVars, guardVars, cacheVars>>

-----------------------------------------------------------------------------
\* llm_node, up to an attempt of the model call with the tools bound
CallModel ==
    /\ pc = "llm" /\ ~cancel
    /\ pc' = "llmWait"
    /\ UNCHANGED <<verdict, cancel, attempt, todo, open, turn>>
    /\ UNCHANGED <<modelVars, guardVars, cacheVars, counterVars>>

\* The model answers in text: route_after_llm ends the graph.
ModelFinishes ==
    /\ pc = "llmWait"
    /\ steps' = steps + 1 /\ attempt' = 1
    /\ asking' = <<>> /\ pending' = FALSE /\ exhausted' = FALSE
    /\ FinishLoop("completed")
    /\ UNCHANGED <<cancel, boot, made, continuation, todo, open, turn>>
    /\ UNCHANGED <<guardVars, cacheVars>>

\* The model asks for tools; `full` says that the context passed the threshold.
ModelAsks(calls, full) ==
    /\ pc = "llmWait"
    /\ steps' = steps + 1 /\ attempt' = 1
    /\ asking' = calls /\ open' = open + Len(calls)
    /\ pending' = (full /\ continuation < MaxContinuations)
    /\ exhausted' = FALSE
    /\ pc' = "tools"
    /\ UNCHANGED <<verdict, cancel, boot, made, continuation, todo, turn>>
    /\ UNCHANGED <<guardVars, cacheVars>>

NextAttempt == attempt + 1

\* _invoke_llm_with_retries: a time-out or a retryable error while attempts
\* are left sleeps and tries again, anything else is raised.
ModelFails(retryable) ==
    /\ pc \in {"llmWait", "finalWait"}
    /\ IF retryable /\ attempt < RetryAttempts
         THEN /\ attempt' = NextAttempt
              /\ pc' = (IF pc = "llmWait" THEN "llm" ELSE "final")
              /\ UNCHANGED verdict
         ELSE UNCHANGED attempt /\ FinishLoop("error")
    /\ UNCHANGED <<cancel, todo, open, turn, modelVars, guardVars, cacheVars, counterVars>>

-----------------------------------------------------------------------------
Allowed(calls) ==
    LET remaining == MaxCalls - made
    IN  SubSeq(calls, 1, IF Len(calls) < remaining THEN Len(calls) ELSE remaining)

\* tool_node takes as many of the calls as the budget allows.
DispatchTools ==
    /\ pc = "tools" /\ ~cancel
    /\ todo' = Allowed(asking)
    /\ exhausted' = (Len(asking) > Len(Allowed(asking)))
    /\ turn' = [NoTurn EXCEPT !.size = Len(Allowed(asking))]
    /\ pc' = "calls"
    /\ UNCHANGED <<verdict, cancel, attempt, open, pending, asking>>
    /\ UNCHANGED <<guardVars, cacheVars, counterVars>>

Cached(call) == \E i \in DOMAIN cache : cache[i].call = call

\* The result of a call is appended to the messages.
Answered == todo' = Tail(todo) /\ open' = open - 1

MayCallUnchecked == pc = "calls" /\ todo # <<>>      \* mutant of MayCall
MayCall == pc = "calls" /\ todo # <<>> /\ ~cancel

\* A call that is answered without leaving the process: the tool is unknown,
\* or a read-only call whose result is in the cache.
AnswerInside ==
    /\ MayCall
    /\ Head(todo) = "unknown" \/ Cached(Head(todo))
    /\ made' = made + 1
    /\ turn' = [turn EXCEPT !.hits = IF Cached(Head(todo)) THEN @ + 1 ELSE @]
    /\ Answered
    /\ UNCHANGED <<pc, verdict, cancel, steps, boot, continuation, attempt>>
    /\ UNCHANGED <<modelVars, guardVars, cacheVars>>

CallTool ==
    /\ MayCall
    /\ Head(todo) # "unknown" /\ ~Cached(Head(todo))
    /\ made' = made + 1
    /\ pc' = "toolWait"
    /\ UNCHANGED <<verdict, cancel, steps, boot, continuation, attempt, todo, open, turn>>
    /\ UNCHANGED <<modelVars, guardVars, cacheVars>>

\* ToolResultCache.put: a full cache drops its oldest entry first.
Put(call) ==
    Append(IF Len(cache) >= CacheSize THEN Tail(cache) ELSE cache, [call |-> call, seen |-> page])

CacheAfter(call) ==
    CASE call \in ReadCalls -> Put(call)
      [] call = "navigate"  -> <<>>
      [] OTHER              -> cache

ToolSucceeds ==
    /\ pc = "toolWait"
    /\ pc' = "calls" /\ Answered
    /\ LET call == Head(todo)
       IN  /\ turn' = [turn EXCEPT !.mutated = @ \/ call = "navigate"]
           /\ cache' = CacheAfter(call)
           /\ page' = (IF call = "navigate" THEN page + 1 ELSE page)
           /\ unsure' = (unsure /\ call # "navigate")
    /\ UNCHANGED <<verdict, cancel, attempt, modelVars, guardVars, counterVars>>

\* An error, or the tool's time limit (`down`: its text says that the site
\* cannot be reached; the text of the time limit itself does).  `moved`: the
\* page had changed when the call failed.
ToolFails(down, moved) ==
    /\ pc = "toolWait"
    /\ moved => Head(todo) = "navigate"
    /\ pc' = "calls" /\ Answered
    /\ turn' = [turn EXCEPT !.down = @ \/ down]
    /\ page' = (IF moved THEN page + 1 ELSE page)
    /\ unsure' = (unsure \/ moved)
    /\ UNCHANGED <<cache, verdict, cancel, attempt, modelVars, guardVars, counterVars>>

Spent == made >= MaxCalls

Continues == pending /\ continuation < MaxContinuations

\* route_after_tools
AfterTurn(reason, spent) ==
    IF Continues /\ reason = "" THEN "compact"
    ELSE IF spent \/ reason # "" THEN "final"
    ELSE "llm"

\* The end of tool_node, and route_after_tools on the state it returns: a turn
\* that repeats the last one, or a turn in which every call was a cache hit,
\* counts towards a stop; a stop or a spent budget leads to the final answer,
\* unless the context is to be compacted first.
EndTurn ==
    /\ pc = "calls" /\ todo = <<>>
    /\ steps' = steps + 1
    /\ lastBatch' = SubSeq(asking, 1, turn.size)
    /\ repeats' = (IF lastBatch' # <<>> /\ lastBatch' = lastBatch THEN repeats + 1 ELSE 1)
    /\ noProgress' = (IF turn.size > 0 /\ ~turn.mutated /\ turn.hits = turn.size
                        THEN noProgress + 1 ELSE 0)
    /\ stop' = CASE turn.down -> "site_down"
                 [] ~turn.down /\ (repeats' >= RepeatLimit \/ noProgress' >= NoProgressLimit)
                       -> "no_progress"
                 [] OTHER -> ""
    /\ exhausted' = (exhausted \/ Spent)
    /\ pc' = AfterTurn(stop', exhausted')
    /\ UNCHANGED <<verdict, cancel, boot, made, continuation, attempt, todo, open, turn>>
    /\ UNCHANGED <<pending, asking, cacheVars>>

NextIndex == continuation + 1
KeptOpen == open                 \* mutant of OpenAfterRemoval
OpenAfterRemoval == 0

\* compact_context_node: the messages are replaced by the system prompt, the
\* first message and a capsule of the working state.
Compact ==
    /\ pc = "compact"
    /\ steps' = steps + 1
    /\ continuation' = NextIndex
    /\ open' = OpenAfterRemoval /\ pending' = FALSE
    /\ lastBatch' = <<>> /\ repeats' = 0 /\ noProgress' = 0
    /\ pc' = "llm"
    /\ UNCHANGED <<verdict, cancel, boot, made, attempt, asking, todo, turn, exhausted, stop>>
    /\ UNCHANGED cacheVars

\* budget_exhausted_node: one answer from the model without tools.
CallModelLast ==
    /\ pc = "final" /\ ~cancel
    /\ pc' = "finalWait"
    /\ UNCHANGED <<verdict, cancel, attempt, todo, open, turn>>
    /\ UNCHANGED <<modelVars, guardVars, cacheVars, counterVars>>

\* The reason of the result: the stop reason, or else the budget.
FinalAnswer ==
    /\ pc = "finalWait"
    /\ steps' = steps + 1
    /\ exhausted' = FALSE
    /\ FinishLoop(IF stop # "" THEN stop ELSE "budget_exhausted")
    /\ UNCHANGED <<cancel, boot, made, continuation, attempt, asking, pending, todo, open, turn>>
    /\ UNCHANGED <<guardVars, cacheVars>>

-----------------------------------------------------------------------------
CancelAgent ==
    /\ ~cancel /\ ~Ended
    /\ cancel' = TRUE
    /\ UNCHANGED <<pc, verdict, attempt, todo, open, turn>>
    /\ UNCHANGED <<modelVars, guardVars, cacheVars, counterVars>>

\* _assert_not_cancelled, where the loop calls it
NoticeCancel ==
    /\ cancel
    /\ \/ pc \in {"boot", "bootWait", "llm", "tools", "final"}
       \/ pc = "calls" /\ todo # <<>>
    /\ FinishLoop("cancelled")
    /\ UNCHANGED <<cancel, attempt, todo, open, turn>>
    /\ UNCHANGED <<modelVars, guardVars, cacheVars, counterVars>>

\* agent_timeout_seconds around the graph; the bootstrap is outside of it.
TimeOut ==
    /\ InGraph
    /\ FinishLoop("timed_out")
    /\ UNCHANGED <<cancel, attempt, todo, open, turn>>
    /\ UNCHANGED <<modelVars, guardVars, cacheVars, counterVars>>

Proceed ==
    \/ BootCall \/ BootResult
    \/ CallModel \/ ModelFinishes
    \/ \E calls \in Batches, full \in BOOLEAN : ModelAsks(calls, full)
    \/ \E retryable \in BOOLEAN : ModelFails(retryable)
    \/ DispatchTools \/ AnswerInside \/ CallTool \/ ToolSucceeds
    \/ \E down, moved \in BOOLEAN : ToolFails(down, moved)
    \/ EndTurn \/ Compact \/ CallModelLast \/ FinalAnswer
    \/ NoticeCancel

AgentNext == Proceed \/ CancelAgent \/ TimeOut

\* Every wait has a time limit (the tool's, the model call's), so the loop
\* always goes on; nothing else is assumed of the tools or of the model.
AgentFairness == WF_agentVars(Proceed)

AgentSpec == AgentInit /\ [][AgentNext]_agentVars /\ AgentFairness

-----------------------------------------------------------------------------
LoopOutcomes == {"completed", "budget_exhausted", "no_progress", "site_down",
             "error", "cancelled", "timed_out"}

\* The types, and the ranges of the counters.
AgentTypeOK ==
    /\ pc \in {"boot", "bootWait", "llm", "llmWait", "tools", "calls", "toolWait",
               "compact", "final", "finalWait", "done"}
    /\ verdict \in LoopOutcomes \cup {"none"} /\ (Ended <=> verdict # "none")
    /\ cancel \in BOOLEAN /\ pending \in BOOLEAN /\ exhausted \in BOOLEAN /\ unsure \in BOOLEAN
    /\ steps \in Nat /\ boot \in 0..BootTools /\ attempt \in 1..RetryAttempts
    /\ made \in 0..MaxCalls /\ continuation \in 0..MaxContinuations
    /\ asking \in Seq(Calls) /\ todo \in Seq(Calls) /\ lastBatch \in Seq(Calls) /\ open \in Nat
    /\ turn \in [hits : Nat, size : Nat, mutated : BOOLEAN, down : BOOLEAN]
    /\ stop \in {"", "site_down", "no_progress"}
    /\ repeats \in Nat /\ noProgress \in Nat /\ page \in Nat
    /\ cache \in Seq([call : ReadCalls, seen : Nat])

\* The recursion limit computed from the tool budget is never what ends an
\* agent: the bound on supersteps that the loop's own limits imply stays under
\* it, whatever the model asks for and however the continuations fall.
EndsBeforeRecursionLimit == ContinuationsFit /\ NodeStarts => steps < RecursionLimit

\* An agent that reports budget_exhausted has spent its whole budget of tool
\* calls, also when the last answer was cut off or the context was compacted
\* after the budget ran out.
BudgetReportedTrue == verdict = "budget_exhausted" => made = MaxCalls

\* A model that has tools bound is never given messages with a tool call that
\* has no tool message: calls the budget cut off stay unanswered only in the
\* request for the final answer, and only when the budget is spent.
CallsAnswered ==
    /\ pc \in {"llm", "llmWait"} => open = 0
    /\ pc \in {"final", "finalWait"} /\ open > 0 => made = MaxCalls

\* What the cache holds was read from the current version of the page, unless a
\* call that failed has changed the page since the cache was last cleared.
CacheFresh == \A i \in DOMAIN cache : cache[i].seen = page \/ unsure

\* After a cancel request no call to the model or to a tool is begun.
NoCallAfterCancel ==
    [][\A w \in {"bootWait", "llmWait", "toolWait", "finalWait"} :
          cancel /\ pc' = w => pc = w]_agentVars

\* An agent that was told to stop makes no further tool call.
StopIsFinal ==
    [][stop # "" => made' = made /\ stop' = stop /\ verdict' \notin {"completed", "budget_exhausted"}]_agentVars

\* Every invocation ends.
AgentEnds == <>Ended

\* An agent ends within LangGraph's recursion limit and tells the truth about
\* its budget, its messages stay acceptable to a provider, and its cache to
\* the page (loop.py:1138-1381, 1786-1883).
LoopSafe ==
    AgentTypeOK /\ EndsBeforeRecursionLimit /\ BudgetReportedTrue /\ CallsAnswered /\ CacheFresh

\* Neither a cancelled agent nor one that was told to stop goes on calling.
StopsCalling == NoCallAfterCancel /\ StopIsFinal
=============================================================================
