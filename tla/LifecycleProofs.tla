-------------------------- MODULE LifecycleProofs --------------------------
(***************************************************************************)
(* For any budgets, sites, slots, connections, scopes, cookies, attempts   *)
(* and crashes: the safety of what has to come to an end.                  *)
(*   LoopSafeHolds, StopsCallingHolds  AgentLoop,       by LoopInv         *)
(*   HealthIsSafe                      SiteHealth,      by HealthInv       *)
(*   BrowsersAreSafe                   BrowserSessions, by BrowserInv      *)
(*   StoreIsTrue                       RunStore,        by StoreInv        *)
(***************************************************************************)
EXTENDS AgentLoop, SiteHealth, BrowserSessions, RunStore,
        SequenceTheorems, FiniteSetTheorems, TLAPS

-----------------------------------------------------------------------------
(* An agent's loop.  The invariant follows the supersteps: a turn of the   *)
(* model and the tools takes two and makes at least one of the MaxCalls    *)
(* calls, unless the budget is spent; then the graph goes to the final     *)
(* answer, or to one of the MaxContinuations compactions, which takes a    *)
(* third.  Will is the number of calls made when the turn is over; it is   *)
(* fixed when the turn begins.                                             *)

Will == made + Len(todo) - (IF pc = "toolWait" THEN 1 ELSE 0)

BeforeModel ==
    /\ pc \in {"boot", "bootWait"} => boot < BootTools
    /\ pc \in {"boot", "bootWait", "llm", "llmWait"} =>
          open = 0 /\ steps <= 2 * made + 3 * continuation

BeforeTools ==
    pc = "tools" => /\ Len(asking) > 0 /\ open = Len(asking)
                    /\ steps <= 2 * made + 3 * continuation + 1

InTurn ==
    /\ pc \in {"calls", "toolWait"} =>
          /\ turn.size <= Len(asking) /\ turn.size <= Will /\ Will <= MaxCalls
          /\ open = Len(todo) + Len(asking) - turn.size
          /\ turn.size < Len(asking) => exhausted
          /\ exhausted => Will = MaxCalls
          /\ turn.size = 0 => Will = MaxCalls
          /\ steps <= 2 * (Will - turn.size) + 3 * continuation + 1
    /\ pc = "toolWait" => Len(todo) > 0 /\ Head(todo) # "unknown"

AfterTools ==
    /\ pc \in {"compact", "final", "finalWait"} => steps <= 2 * made + 3 * continuation + 2
    /\ pc = "compact" => continuation < MaxContinuations
    /\ pc \in {"final", "finalWait"} /\ (stop = "" \/ open > 0) => made = MaxCalls

Stopped ==
    /\ stop # "" => /\ pc \in {"final", "finalWait", "done"}
                    /\ verdict \notin {"completed", "budget_exhausted"}
    /\ verdict = "budget_exhausted" => made = MaxCalls

LoopInv ==
    AgentTypeOK /\ BeforeModel /\ BeforeTools /\ InTurn /\ AfterTools /\ Stopped /\ CacheFresh

-----------------------------------------------------------------------------
(* What the helpers return.                                                *)

(* The allowed calls are a beginning of what the model asked for that fits *)
(* the rest of the budget; they are all of it, or the whole rest.          *)
LEMMA AllowedFits ==
  ASSUME NEW calls \in Seq(Calls), made \in 0..MaxCalls
  PROVE  /\ Allowed(calls) \in Seq(Calls)
         /\ Len(Allowed(calls)) <= Len(calls) /\ made + Len(Allowed(calls)) <= MaxCalls
         /\ Len(Allowed(calls)) < Len(calls) => made + Len(Allowed(calls)) = MaxCalls
         /\ Len(Allowed(calls)) = 0 /\ Len(calls) > 0 => made = MaxCalls
<1> DEFINE n == IF Len(calls) < MaxCalls - made THEN Len(calls) ELSE MaxCalls - made
<1>1. MaxCalls \in Nat /\ Len(calls) \in Nat
  BY BoundsAssumption
<1>2. n \in 0 .. Len(calls)
  BY <1>1
<1>3. SubSeq(calls, 1, n) \in Seq(Calls) /\ Len(SubSeq(calls, 1, n)) = n
  BY <1>1, <1>2, SubSeqProperties
<1>4. Allowed(calls) = SubSeq(calls, 1, n)
  BY DEF Allowed
<1> QED
  BY <1>1, <1>3, <1>4

(* A put keeps the cache a sequence of results, all of them old ones but   *)
(* the new one, which was read from the current page.                      *)
LEMMA PutKeeps ==
  ASSUME AgentTypeOK, NEW call \in ReadCalls
  PROVE  /\ Put(call) \in Seq([call : ReadCalls, seen : Nat])
         /\ CacheFresh => \A i \in DOMAIN Put(call) : Put(call)[i].seen = page \/ unsure
<1> DEFINE new == [call |-> call, seen |-> page]
           rest == IF Len(cache) >= CacheSize THEN Tail(cache) ELSE cache
<1>1. new \in [call : ReadCalls, seen : Nat] /\ cache \in Seq([call : ReadCalls, seen : Nat])
  BY DEF AgentTypeOK
<1>2. /\ rest \in Seq([call : ReadCalls, seen : Nat])
      /\ CacheFresh => \A i \in DOMAIN rest : rest[i].seen = page \/ unsure
  <2>1. CASE Len(cache) >= CacheSize
    <3>1. cache # <<>>
      BY <1>1, <2>1, BoundsAssumption
    <3> QED
      BY <1>1, <2>1, <3>1, HeadTailProperties DEF CacheFresh
  <2>2. CASE ~(Len(cache) >= CacheSize)
    BY <1>1, <2>2 DEF CacheFresh
  <2> QED
    BY <2>1, <2>2
<1> HIDE DEF rest
<1>3. Append(rest, new) \in Seq([call : ReadCalls, seen : Nat])
  BY <1>1, <1>2
<1>4. ASSUME CacheFresh, NEW i \in DOMAIN Append(rest, new)
      PROVE  Append(rest, new)[i].seen = page \/ unsure
  <2>1. CASE i = Len(rest) + 1
    BY <1>1, <1>2, <2>1
  <2>2. CASE i # Len(rest) + 1
    BY <1>1, <1>2, <1>4, <2>2
  <2> QED
    BY <2>1, <2>2
<1> QED
  BY <1>3, <1>4 DEF Put, rest

(* The counters of the invariant are numbers.                              *)
Numbers ==
  /\ steps \in Nat /\ made \in Nat /\ continuation \in Nat /\ MaxCalls \in Nat
  /\ Len(todo) \in Nat /\ Len(asking) \in Nat /\ turn.size \in Nat
  /\ MaxContinuations \in Nat /\ boot \in Nat /\ page \in Nat /\ open \in Nat
  /\ made <= MaxCalls /\ continuation <= MaxContinuations

LEMMA Counts == AgentTypeOK => Numbers
<1> SUFFICES ASSUME AgentTypeOK PROVE Numbers
  OBVIOUS
<1>1. /\ steps \in Nat /\ boot \in 0..BootTools
      /\ made \in 0..MaxCalls /\ continuation \in 0..MaxContinuations
      /\ asking \in Seq(Calls) /\ todo \in Seq(Calls) /\ open \in Nat /\ page \in Nat
      /\ turn \in [hits : Nat, size : Nat, mutated : BOOLEAN, down : BOOLEAN]
  BY Zenon DEF AgentTypeOK
<1>2. Len(todo) \in Nat /\ Len(asking) \in Nat
  BY <1>1
<1>3. turn.size \in Nat
  BY <1>1
<1> QED
  BY <1>1, <1>2, <1>3, BoundsAssumption DEF Numbers

(* What is left of the calls of a turn when its first one is answered.     *)
LEMMA TodoTail ==
  ASSUME AgentTypeOK, Len(todo) > 0
  PROVE  /\ Head(todo) \in Calls /\ Tail(todo) \in Seq(Calls)
         /\ Len(Tail(todo)) = Len(todo) - 1
<1>1. todo \in Seq(Calls)
  BY Zenon DEF AgentTypeOK
<1>2. todo # <<>>
  BY <1>1
<1> QED
  BY <1>1, <1>2, HeadTailProperties

-----------------------------------------------------------------------------
(* The invariant.                                                          *)

(* It holds when the loop starts.                                          *)
LEMMA LoopInit == AgentInit => LoopInv
<1> SUFFICES ASSUME AgentInit PROVE LoopInv
  OBVIOUS
<1>a. /\ pc = (IF BootTools > 0 THEN "boot" ELSE "llm") /\ verdict = "none" /\ stop = ""
  BY DEF AgentInit
<1>d. /\ steps = 0 /\ boot = 0 /\ attempt = 1 /\ made = 0 /\ continuation = 0
      /\ open = 0 /\ repeats = 0 /\ noProgress = 0 /\ page = 0
  BY DEF AgentInit
<1>b. /\ asking = <<>> /\ todo = <<>> /\ lastBatch = <<>> /\ cache = <<>>
      /\ cancel = FALSE /\ pending = FALSE /\ exhausted = FALSE /\ unsure = FALSE
  BY DEF AgentInit
<1>c. turn = [hits |-> 0, size |-> 0, mutated |-> FALSE, down |-> FALSE]
  BY DEF AgentInit, NoTurn
<1>1. AgentTypeOK
  <2>1. pc \in {"boot", "llm"} /\ verdict = "none" /\ stop = ""
    BY <1>a
  <2>2. /\ steps \in Nat /\ boot \in 0..BootTools /\ attempt \in 1..RetryAttempts
        /\ made \in 0..MaxCalls /\ continuation \in 0..MaxContinuations
        /\ open \in Nat /\ repeats \in Nat /\ noProgress \in Nat /\ page \in Nat
    BY <1>d, BoundsAssumption
  <2>3. /\ asking \in Seq(Calls) /\ todo \in Seq(Calls) /\ lastBatch \in Seq(Calls)
        /\ cache \in Seq([call : ReadCalls, seen : Nat])
    BY <1>b, EmptySeq
  <2>4. turn \in [hits : Nat, size : Nat, mutated : BOOLEAN, down : BOOLEAN]
    BY <1>c
  <2>5. cancel \in BOOLEAN /\ pending \in BOOLEAN /\ exhausted \in BOOLEAN /\ unsure \in BOOLEAN
    BY <1>b
  <2> QED
    BY <2>1, <2>2, <2>3, <2>4, <2>5 DEF AgentTypeOK, Ended
<1>2. BeforeModel
  <2>1. pc = "boot" => boot < BootTools
    BY <1>a, <1>d, BoundsAssumption
  <2>2. steps <= 2 * made + 3 * continuation /\ open = 0
    BY <1>d
  <2>3. pc \in {"boot", "llm"}
    BY <1>a
  <2> QED
    BY <2>1, <2>2, <2>3 DEF BeforeModel
<1>3. BeforeTools /\ InTurn /\ AfterTools /\ Stopped
  <2>1. pc \in {"boot", "llm"} /\ verdict = "none" /\ stop = ""
    BY <1>a
  <2> QED
    BY <2>1 DEF BeforeTools, InTurn, AfterTools, Stopped
<1>4. CacheFresh
  BY <1>b DEF CacheFresh
<1> QED
  BY <1>1, <1>2, <1>3, <1>4 DEF LoopInv

(* A bootstrap call and its result keep it.                                *)
LEMMA BootKeeps ==
  ASSUME LoopInv, BootCall \/ BootResult
  PROVE  LoopInv'
<1>0. /\ AgentTypeOK /\ BeforeModel /\ BeforeTools /\ InTurn /\ AfterTools /\ Stopped /\ CacheFresh
  BY DEF LoopInv
<1>n. Numbers
  BY <1>0, Counts
<1>a. /\ pc \in {"boot", "bootWait"} /\ steps' = steps /\ made' = made /\ continuation' = continuation
      /\ open' = open
      /\ \/ pc' = "bootWait" /\ boot' = boot
         \/ boot' = boot + 1 /\ pc' = (IF boot' = BootTools THEN "llm" ELSE "boot")
  BY Zenon DEF BootCall, BootResult, counterVars
<1>u. UNCHANGED <<verdict, cancel, pending, exhausted, unsure, steps, attempt, made,
                 continuation, asking, todo, lastBatch, open, turn, stop,
                 repeats, noProgress, page, cache>>
  BY Zenon DEF BootCall, BootResult, modelVars, guardVars, cacheVars, counterVars
<1>b. boot < BootTools /\ BootTools \in Nat /\ open = 0
  BY <1>0, <1>a, BoundsAssumption DEF BeforeModel
<1>c. steps <= 2 * made + 3 * continuation
  BY <1>0, <1>a DEF BeforeModel
<1>d. boot' \in 0..BootTools
  BY <1>a, <1>b, <1>n DEF Numbers
<1>e. pc' \in {"boot", "bootWait"} => boot' < BootTools
  <2>1. CASE boot' = boot
    BY <1>b, <2>1
  <2>2. CASE boot' = boot + 1 /\ pc' = (IF boot' = BootTools THEN "llm" ELSE "boot")
    <3>1. boot' = BootTools \/ boot' < BootTools
      BY <1>b, <1>d
    <3> QED
      BY <2>2, <3>1
  <2> QED
    BY <1>a, <2>1, <2>2
<1>f. pc' \in {"boot", "bootWait", "llm"}
  BY <1>a
<1>1. AgentTypeOK'
  <2>1. /\ verdict' \in LoopOutcomes \cup {"none"} /\ cancel' \in BOOLEAN
        /\ pending' \in BOOLEAN /\ exhausted' \in BOOLEAN /\ unsure' \in BOOLEAN
        /\ steps' \in Nat /\ attempt' \in 1..RetryAttempts /\ made' \in 0..MaxCalls
        /\ continuation' \in 0..MaxContinuations /\ asking' \in Seq(Calls)
        /\ todo' \in Seq(Calls) /\ lastBatch' \in Seq(Calls) /\ open' \in Nat
        /\ turn' \in [hits : Nat, size : Nat, mutated : BOOLEAN, down : BOOLEAN]
        /\ stop' \in {"", "site_down", "no_progress"} /\ repeats' \in Nat
        /\ noProgress' \in Nat /\ page' \in Nat
        /\ cache' \in Seq([call : ReadCalls, seen : Nat])
        /\ verdict' = "none"
    BY <1>0, <1>a, <1>u DEF AgentTypeOK, Ended
  <2> QED
    BY <1>d, <1>f, <2>1 DEF AgentTypeOK, Ended
<1>2. BeforeModel' /\ BeforeTools'
  BY <1>a, <1>b, <1>c, <1>e, <1>f DEF BeforeModel, BeforeTools
<1>3. InTurn'
  BY <1>f DEF InTurn
<1>4. AfterTools'
  BY <1>f DEF AfterTools
<1>5. Stopped'
  BY <1>0, <1>a, <1>u DEF Stopped
<1>6. CacheFresh'
  BY <1>0, <1>u DEF CacheFresh
<1> QED
  BY <1>1, <1>2, <1>3, <1>4, <1>5, <1>6 DEF LoopInv

(* Calling the model, with tools or for the final answer, keeps it.        *)
LEMMA ModelKeeps ==
  ASSUME LoopInv, CallModel \/ CallModelLast
  PROVE  LoopInv'
<1>0. /\ AgentTypeOK /\ BeforeModel /\ BeforeTools /\ InTurn /\ AfterTools /\ Stopped /\ CacheFresh
  BY DEF LoopInv
<1>a. \/ pc = "llm" /\ pc' = "llmWait"
      \/ pc = "final" /\ pc' = "finalWait"
  <2>1. CASE CallModel
    BY <2>1 DEF CallModel
  <2>2. CASE CallModelLast
    BY <2>2, Zenon DEF CallModelLast
  <2> QED
    BY <2>1, <2>2
<1>u. UNCHANGED <<verdict, cancel, pending, exhausted, unsure, steps, boot, attempt,
                 made, continuation, asking, todo, lastBatch, open, turn, stop,
                 repeats, noProgress, page, cache>>
  BY Zenon DEF CallModel, CallModelLast, modelVars, guardVars, cacheVars, counterVars
<1>1. AgentTypeOK'
  <2>1. /\ verdict' \in LoopOutcomes \cup {"none"} /\ cancel' \in BOOLEAN
        /\ pending' \in BOOLEAN /\ exhausted' \in BOOLEAN /\ unsure' \in BOOLEAN
        /\ steps' \in Nat /\ boot' \in 0..BootTools /\ attempt' \in 1..RetryAttempts
        /\ made' \in 0..MaxCalls /\ continuation' \in 0..MaxContinuations
        /\ asking' \in Seq(Calls) /\ todo' \in Seq(Calls) /\ lastBatch' \in Seq(Calls)
        /\ open' \in Nat
        /\ turn' \in [hits : Nat, size : Nat, mutated : BOOLEAN, down : BOOLEAN]
        /\ stop' \in {"", "site_down", "no_progress"} /\ repeats' \in Nat
        /\ noProgress' \in Nat /\ page' \in Nat
        /\ cache' \in Seq([call : ReadCalls, seen : Nat])
        /\ verdict' = "none"
    BY <1>0, <1>a, <1>u DEF AgentTypeOK, Ended
  <2> QED
    BY <1>a, <2>1 DEF AgentTypeOK, Ended
<1>2. BeforeModel' /\ BeforeTools'
  BY <1>0, <1>a, <1>u DEF BeforeModel, BeforeTools
<1>3. InTurn'
  BY <1>a DEF InTurn
<1>4. AfterTools'
  BY <1>0, <1>a, <1>u DEF AfterTools
<1>5. Stopped'
  BY <1>0, <1>a, <1>u DEF Stopped
<1>6. CacheFresh'
  BY <1>0, <1>u DEF CacheFresh
<1> QED
  BY <1>1, <1>2, <1>3, <1>4, <1>5, <1>6 DEF LoopInv

(* An answer in text that ends the agent keeps it.                         *)
LEMMA FinishesKeeps ==
  ASSUME LoopInv, ModelFinishes \/ FinalAnswer
  PROVE  LoopInv'
<1>0. /\ AgentTypeOK /\ BeforeModel /\ BeforeTools /\ InTurn /\ AfterTools /\ Stopped /\ CacheFresh
  BY DEF LoopInv
<1>n. Numbers
  BY <1>0, Counts
<1>a. /\ steps' = steps + 1 /\ pc' = "done" /\ made' = made /\ stop' = stop
      /\ \/ pc = "llmWait" /\ verdict' = "completed"
         \/ pc = "finalWait" /\ verdict' = (IF stop # "" THEN stop ELSE "budget_exhausted")
  BY Zenon DEF ModelFinishes, FinalAnswer, FinishLoop, guardVars
<1>u. UNCHANGED <<cancel, unsure, boot, made, continuation, todo, lastBatch, open,
                 turn, stop, repeats, noProgress, page, cache>>
  BY Zenon DEF ModelFinishes, FinalAnswer, guardVars, cacheVars
<1>v. /\ attempt' \in {1, attempt} /\ asking' \in {<<>>, asking}
      /\ pending' \in {FALSE, pending} /\ exhausted' = FALSE
  BY DEF ModelFinishes, FinalAnswer
<1>1. AgentTypeOK'
  <2>1. /\ cancel' \in BOOLEAN /\ unsure' \in BOOLEAN /\ boot' \in 0..BootTools
        /\ made' \in 0..MaxCalls /\ continuation' \in 0..MaxContinuations
        /\ todo' \in Seq(Calls) /\ lastBatch' \in Seq(Calls) /\ open' \in Nat
        /\ turn' \in [hits : Nat, size : Nat, mutated : BOOLEAN, down : BOOLEAN]
        /\ stop' \in {"", "site_down", "no_progress"} /\ repeats' \in Nat
        /\ noProgress' \in Nat /\ page' \in Nat
        /\ cache' \in Seq([call : ReadCalls, seen : Nat])
        /\ attempt \in 1..RetryAttempts /\ asking \in Seq(Calls) /\ pending \in BOOLEAN
        /\ stop \in {"", "site_down", "no_progress"}
    BY <1>0, <1>u DEF AgentTypeOK
  <2>2. steps' \in Nat
    <3>1. steps' = steps + 1
      BY <1>a
    <3> QED
      BY <1>n, <3>1 DEF Numbers
  <2>3. verdict' \in LoopOutcomes /\ verdict' # "none"
    BY <1>a, <2>1 DEF LoopOutcomes
  <2>4. attempt' \in 1..RetryAttempts
    <3>1. 1 \in 1..RetryAttempts
      BY BoundsAssumption
    <3> QED
      BY <1>v, <2>1, <3>1
  <2>5. asking' \in Seq(Calls) /\ pending' \in BOOLEAN /\ exhausted' \in BOOLEAN
    BY <1>v, <2>1, EmptySeq
  <2> QED
    BY <1>a, <2>1, <2>2, <2>3, <2>4, <2>5 DEF AgentTypeOK, Ended
<1>2. BeforeModel' /\ BeforeTools'
  BY <1>a DEF BeforeModel, BeforeTools
<1>3. InTurn'
  BY <1>a DEF InTurn
<1>4. AfterTools'
  BY <1>a DEF AfterTools
<1>5. Stopped'
  <2>1. pc = "llmWait" => stop = ""
    BY <1>0 DEF Stopped
  <2>2. pc = "finalWait" /\ stop = "" => made = MaxCalls
    BY <1>0 DEF AfterTools
  <2>3. stop # "" => stop \notin {"completed", "budget_exhausted"}
    BY <1>0, Zenon DEF AgentTypeOK
  <2> QED
    BY <1>a, <2>1, <2>2, <2>3 DEF Stopped
<1>6. CacheFresh'
  BY <1>0, <1>u DEF CacheFresh
<1> QED
  BY <1>1, <1>2, <1>3, <1>4, <1>5, <1>6 DEF LoopInv

(* An answer that asks for tools keeps it.                                 *)
LEMMA AsksKeeps ==
  ASSUME LoopInv, NEW calls \in Batches, NEW full \in BOOLEAN, ModelAsks(calls, full)
  PROVE  LoopInv'
<1>0. /\ AgentTypeOK /\ BeforeModel /\ BeforeTools /\ InTurn /\ AfterTools /\ Stopped /\ CacheFresh
  BY DEF LoopInv
<1>n. Numbers
  BY <1>0, Counts
<1>a. /\ pc = "llmWait" /\ pc' = "tools" /\ steps' = steps + 1 /\ open' = open + Len(calls)
      /\ asking' = calls /\ made' = made /\ continuation' = continuation
  BY Zenon DEF ModelAsks
<1>u. UNCHANGED <<verdict, cancel, unsure, boot, made, continuation, todo, lastBatch,
                 turn, stop, repeats, noProgress, page, cache>>
  BY Zenon DEF ModelAsks, guardVars, cacheVars
<1>v. attempt' = 1 /\ exhausted' = FALSE /\ pending' \in BOOLEAN
  BY DEF ModelAsks
<1>b. calls \in Seq(Calls) /\ Len(calls) \in Nat /\ Len(calls) > 0
  BY BatchesAssumption
<1>c. open = 0
  BY <1>0, <1>a DEF BeforeModel
<1>s. steps <= 2 * made + 3 * continuation
  BY <1>0, <1>a DEF BeforeModel
<1>1. AgentTypeOK'
  <2>1. /\ verdict' \in LoopOutcomes \cup {"none"} /\ cancel' \in BOOLEAN
        /\ unsure' \in BOOLEAN /\ boot' \in 0..BootTools /\ made' \in 0..MaxCalls
        /\ continuation' \in 0..MaxContinuations /\ todo' \in Seq(Calls)
        /\ lastBatch' \in Seq(Calls)
        /\ turn' \in [hits : Nat, size : Nat, mutated : BOOLEAN, down : BOOLEAN]
        /\ stop' \in {"", "site_down", "no_progress"} /\ repeats' \in Nat
        /\ noProgress' \in Nat /\ page' \in Nat
        /\ cache' \in Seq([call : ReadCalls, seen : Nat])
        /\ verdict' = "none"
    BY <1>0, <1>a, <1>u DEF AgentTypeOK, Ended
  <2>2. steps' \in Nat /\ open' \in Nat
    BY <1>a, <1>b, <1>c, <1>n DEF Numbers
  <2>3. attempt' \in 1..RetryAttempts
    BY <1>v, BoundsAssumption
  <2> QED
    BY <1>a, <1>b, <1>v, <2>1, <2>2, <2>3 DEF AgentTypeOK, Ended
<1>2. BeforeModel' /\ BeforeTools'
  <2>1. steps' <= 2 * made' + 3 * continuation' + 1
    BY <1>a, <1>s, <1>n DEF Numbers
  <2>2. open' = Len(asking') /\ Len(asking') > 0
    BY <1>a, <1>b, <1>c
  <2> QED
    BY <1>a, <2>1, <2>2 DEF BeforeModel, BeforeTools
<1>3. InTurn'
  BY <1>a DEF InTurn
<1>4. AfterTools'
  BY <1>a DEF AfterTools
<1>5. Stopped'
  BY <1>0, <1>a, <1>u DEF Stopped
<1>6. CacheFresh'
  BY <1>0, <1>u DEF CacheFresh
<1> QED
  BY <1>1, <1>2, <1>3, <1>4, <1>5, <1>6 DEF LoopInv

(* A failed model call, retried or not, keeps it.                          *)
LEMMA FailsKeeps ==
  ASSUME LoopInv, NEW retryable \in BOOLEAN, ModelFails(retryable)
  PROVE  LoopInv'
<1>0. /\ AgentTypeOK /\ BeforeModel /\ BeforeTools /\ InTurn /\ AfterTools /\ Stopped /\ CacheFresh
  BY DEF LoopInv
<1>a. /\ pc \in {"llmWait", "finalWait"}
      /\ \/ /\ pc' = (IF pc = "llmWait" THEN "llm" ELSE "final") /\ verdict' = verdict
            /\ attempt < RetryAttempts /\ attempt' = attempt + 1
         \/ pc' = "done" /\ verdict' = "error" /\ attempt' = attempt
  BY DEF ModelFails, NextAttempt, FinishLoop
<1>u. UNCHANGED <<cancel, pending, exhausted, unsure, steps, boot, made,
                 continuation, asking, todo, lastBatch, open, turn, stop,
                 repeats, noProgress, page, cache>>
  BY Zenon DEF ModelFails, modelVars, guardVars, cacheVars, counterVars
<1>1. AgentTypeOK'
  <2>1. /\ cancel' \in BOOLEAN /\ pending' \in BOOLEAN /\ exhausted' \in BOOLEAN
        /\ unsure' \in BOOLEAN /\ steps' \in Nat /\ boot' \in 0..BootTools
        /\ made' \in 0..MaxCalls /\ continuation' \in 0..MaxContinuations
        /\ asking' \in Seq(Calls) /\ todo' \in Seq(Calls) /\ lastBatch' \in Seq(Calls)
        /\ open' \in Nat
        /\ turn' \in [hits : Nat, size : Nat, mutated : BOOLEAN, down : BOOLEAN]
        /\ stop' \in {"", "site_down", "no_progress"} /\ repeats' \in Nat
        /\ noProgress' \in Nat /\ page' \in Nat
        /\ cache' \in Seq([call : ReadCalls, seen : Nat])
        /\ verdict = "none" /\ attempt \in 1..RetryAttempts
    BY <1>0, <1>a, <1>u DEF AgentTypeOK, Ended
  <2>2. attempt' \in 1..RetryAttempts
    <3>2. attempt \in 1..RetryAttempts
      BY <2>1
    <3>1. attempt < RetryAttempts => attempt + 1 \in 1..RetryAttempts
      BY <3>2, BoundsAssumption
    <3> QED
      BY <1>a, <2>1, <3>1
  <2>3. /\ pc' \in {"llm", "final", "done"} /\ verdict' \in LoopOutcomes \cup {"none"}
        /\ pc' = "done" <=> verdict' # "none"
    BY <1>a, <2>1 DEF LoopOutcomes
  <2> QED
    BY <2>1, <2>2, <2>3 DEF AgentTypeOK, Ended
<1>2. BeforeModel' /\ BeforeTools'
  BY <1>0, <1>a, <1>u DEF BeforeModel, BeforeTools
<1>3. InTurn'
  BY <1>a DEF InTurn
<1>4. AfterTools'
  BY <1>0, <1>a, <1>u DEF AfterTools
<1>5. Stopped'
  BY <1>0, <1>a, <1>u DEF Stopped
<1>6. CacheFresh'
  BY <1>0, <1>u DEF CacheFresh
<1> QED
  BY <1>1, <1>2, <1>3, <1>4, <1>5, <1>6 DEF LoopInv

(* Taking the allowed calls keeps it.                                      *)
LEMMA DispatchKeeps ==
  ASSUME LoopInv, DispatchTools
  PROVE  LoopInv'
<1>0. /\ AgentTypeOK /\ BeforeModel /\ BeforeTools /\ InTurn /\ AfterTools /\ Stopped /\ CacheFresh
  BY DEF LoopInv
<1>n. Numbers
  BY <1>0, Counts
<1>a. /\ pc = "tools" /\ pc' = "calls" /\ todo' = Allowed(asking)
      /\ turn' = [NoTurn EXCEPT !.size = Len(Allowed(asking))]
      /\ exhausted' = (Len(asking) > Len(Allowed(asking)))
      /\ asking' = asking /\ made' = made /\ open' = open
      /\ steps' = steps /\ continuation' = continuation
  BY Zenon DEF DispatchTools, counterVars
<1>u. UNCHANGED <<verdict, cancel, pending, unsure, steps, boot, attempt, made,
                 continuation, asking, lastBatch, open, stop, repeats,
                 noProgress, page, cache>>
  BY Zenon DEF DispatchTools, guardVars, cacheVars, counterVars
<1>b. asking \in Seq(Calls) /\ made \in 0..MaxCalls
  BY <1>0, Zenon DEF AgentTypeOK
<1> DEFINE n == Len(Allowed(asking))
<1>c. Allowed(asking) \in Seq(Calls) /\ n \in Nat
  BY <1>b, AllowedFits
<1>d. /\ n <= Len(asking) /\ made + n <= MaxCalls
      /\ n < Len(asking) => made + n = MaxCalls
      /\ n = 0 /\ Len(asking) > 0 => made = MaxCalls
  BY <1>b, AllowedFits
<1>e. Len(asking) > 0 /\ open = Len(asking)
  BY <1>0, <1>a DEF BeforeTools
<1>s. steps <= 2 * made + 3 * continuation + 1
  BY <1>0, <1>a DEF BeforeTools
<1>f. /\ turn' \in [hits : Nat, size : Nat, mutated : BOOLEAN, down : BOOLEAN]
  BY <1>a, <1>c DEF NoTurn
<1>g. turn'.size = n /\ Len(todo') = n
  BY <1>a DEF NoTurn
<1>h. Will' = made + n
  BY <1>a, <1>c, <1>g, <1>n DEF Will, Numbers
<1> HIDE DEF n
<1>1. AgentTypeOK'
  <2>1. /\ verdict' \in LoopOutcomes \cup {"none"} /\ cancel' \in BOOLEAN
        /\ pending' \in BOOLEAN /\ unsure' \in BOOLEAN /\ steps' \in Nat
        /\ boot' \in 0..BootTools /\ attempt' \in 1..RetryAttempts
        /\ made' \in 0..MaxCalls /\ continuation' \in 0..MaxContinuations
        /\ asking' \in Seq(Calls) /\ lastBatch' \in Seq(Calls) /\ open' \in Nat
        /\ stop' \in {"", "site_down", "no_progress"} /\ repeats' \in Nat
        /\ noProgress' \in Nat /\ page' \in Nat
        /\ cache' \in Seq([call : ReadCalls, seen : Nat])
        /\ verdict' = "none"
    BY <1>0, <1>a, <1>u DEF AgentTypeOK, Ended
  <2>2. exhausted' \in BOOLEAN
    BY <1>a
  <2> QED
    BY <1>a, <1>c, <1>f, <2>1, <2>2 DEF AgentTypeOK, Ended
<1>2. BeforeModel' /\ BeforeTools'
  BY <1>a DEF BeforeModel, BeforeTools
<1>3. InTurn'
  <2>1. open' = Len(todo') + Len(asking') - turn'.size
    BY <1>a, <1>c, <1>e, <1>g, <1>n DEF Numbers
  <2>2. n = 0 => Will' = MaxCalls
    BY <1>d, <1>e, <1>h, <1>n DEF Numbers
  <2>3. steps' <= 2 * (Will' - turn'.size) + 3 * continuation' + 1
    <3>1. Will' - turn'.size = made
      BY <1>c, <1>g, <1>h, <1>n DEF Numbers
    <3> QED
      BY <1>a, <1>s, <3>1
  <2>4. turn'.size <= Len(asking') /\ turn'.size <= Will' /\ Will' <= MaxCalls
    BY <1>a, <1>c, <1>d, <1>g, <1>h, <1>n DEF Numbers
  <2>5. /\ exhausted' <=> n < Len(asking)
        /\ exhausted' => Will' = MaxCalls
    BY <1>a, <1>c, <1>d, <1>h, <1>n DEF Numbers, n
  <2> QED
    BY <1>a, <1>g, <2>1, <2>2, <2>3, <2>4, <2>5 DEF InTurn
<1>4. AfterTools'
  BY <1>a DEF AfterTools
<1>5. Stopped'
  BY <1>0, <1>a, <1>u DEF Stopped
<1>6. CacheFresh'
  BY <1>0, <1>u DEF CacheFresh
<1> QED
  BY <1>1, <1>2, <1>3, <1>4, <1>5, <1>6 DEF LoopInv

(* Answering a call inside or sending it to its tool keeps it.             *)
LEMMA CallsKeep ==
  ASSUME LoopInv, AnswerInside \/ CallTool
  PROVE  LoopInv'
<1>0. /\ AgentTypeOK /\ BeforeModel /\ BeforeTools /\ InTurn /\ AfterTools /\ Stopped /\ CacheFresh
  BY DEF LoopInv
<1>n. Numbers
  BY <1>0, Counts
<1>a. /\ pc = "calls" /\ todo # <<>> /\ made' = made + 1
      /\ steps' = steps /\ continuation' = continuation
      /\ asking' = asking /\ exhausted' = exhausted
      /\ \/ pc' = "calls" /\ todo' = Tail(todo) /\ open' = open - 1
         \/ pc' = "toolWait" /\ todo' = todo /\ open' = open /\ Head(todo) # "unknown"
  BY Zenon DEF AnswerInside, CallTool, MayCall, Answered, modelVars, counterVars
<1>u. UNCHANGED <<verdict, cancel, attempt, pending, exhausted, asking, stop, lastBatch, repeats,
                  noProgress, steps, boot, continuation, cache, page, unsure>>
  BY Zenon DEF AnswerInside, CallTool, modelVars, guardVars, cacheVars
<1>b. Len(todo) > 0
  <2>1. todo \in Seq(Calls)
    BY <1>0, Zenon DEF AgentTypeOK
  <2> QED
    BY <1>a, <2>1
<1>c. /\ Head(todo) \in Calls /\ Tail(todo) \in Seq(Calls) /\ Len(Tail(todo)) = Len(todo) - 1
  BY <1>0, <1>b, TodoTail
<1>w. Will = made + Len(todo) /\ Will' = Will
  <2>1. Will = made + Len(todo)
    BY <1>a, <1>n DEF Will, Numbers
  <2>2. CASE pc' = "calls" /\ todo' = Tail(todo)
    <3>1. Will' = (made + 1) + (Len(todo) - 1)
      BY <1>a, <1>c, <1>n, <2>2 DEF Will, Numbers
    <3> QED
      BY <2>1, <3>1, <1>n DEF Numbers
  <2>3. CASE pc' = "toolWait" /\ todo' = todo
    BY <1>a, <1>n, <2>1, <2>3 DEF Will, Numbers
  <2> QED
    BY <1>a, <2>1, <2>2, <2>3
<1>d. /\ turn.size <= Len(asking) /\ turn.size <= Will /\ Will <= MaxCalls
      /\ open = Len(todo) + Len(asking) - turn.size
      /\ turn.size < Len(asking) => exhausted
      /\ exhausted => Will = MaxCalls
      /\ turn.size = 0 => Will = MaxCalls
  BY <1>0, <1>a DEF InTurn
<1>s. steps <= 2 * (Will - turn.size) + 3 * continuation + 1
  BY <1>0, <1>a DEF InTurn
<1>e. turn \in [hits : Nat, size : Nat, mutated : BOOLEAN, down : BOOLEAN]
  BY <1>0, Zenon DEF AgentTypeOK
<1>f. turn' \in [hits : Nat, size : Nat, mutated : BOOLEAN, down : BOOLEAN]
  BY <1>e DEF AnswerInside, CallTool
<1>g. turn'.size = turn.size
  BY <1>e DEF AnswerInside, CallTool
<1>1. AgentTypeOK'
  <2>1. /\ verdict' \in LoopOutcomes \cup {"none"} /\ verdict' = "none"
        /\ cancel' \in BOOLEAN /\ pending' \in BOOLEAN /\ exhausted' \in BOOLEAN /\ unsure' \in BOOLEAN
        /\ steps' \in Nat /\ boot' \in 0..BootTools /\ attempt' \in 1..RetryAttempts
        /\ continuation' \in 0..MaxContinuations
        /\ asking' \in Seq(Calls) /\ lastBatch' \in Seq(Calls) /\ todo \in Seq(Calls)
        /\ stop' \in {"", "site_down", "no_progress"}
        /\ repeats' \in Nat /\ noProgress' \in Nat /\ page' \in Nat
        /\ cache' \in Seq([call : ReadCalls, seen : Nat])
    BY <1>0, <1>a, <1>u DEF AgentTypeOK, Ended
  <2>2. made' \in 0..MaxCalls
    BY <1>a, <1>b, <1>d, <1>n, <1>w DEF Numbers
  <2>3. open' \in Nat
    <3>1. open > 0
      BY <1>b, <1>d, <1>n DEF Numbers
    <3> QED
      BY <1>a, <1>n, <3>1 DEF Numbers
  <2>4. todo' \in Seq(Calls) /\ pc' \in {"calls", "toolWait"}
    BY <1>a, <1>c, <2>1
  <2> QED
    BY <1>f, <2>1, <2>2, <2>3, <2>4 DEF AgentTypeOK, Ended
<1>2. BeforeModel' /\ BeforeTools'
  BY <1>a DEF BeforeModel, BeforeTools
<1>3. InTurn'
  <2>1. open' = Len(todo') + Len(asking') - turn'.size
    <3>1. open = Len(todo) + Len(asking') - turn'.size
      BY <1>a, <1>d, <1>g
    <3>2. CASE todo' = todo /\ open' = open
      BY <3>1, <3>2
    <3>3. CASE todo' = Tail(todo) /\ open' = open - 1
      <4>0. /\ open = Len(todo) + Len(asking) - turn.size /\ open \in Nat
            /\ Len(todo) \in Nat /\ Len(asking) \in Nat /\ turn.size \in Nat
        BY <1>d, <1>n DEF Numbers
      <4>1. open - 1 = (Len(todo) - 1) + Len(asking) - turn.size
        BY <4>0
      <4> QED
        BY <1>a, <1>c, <1>g, <3>3, <4>1
    <3> QED
      BY <1>a, <3>2, <3>3
  <2>2. steps' <= 2 * (Will' - turn'.size) + 3 * continuation' + 1
    <3>1. Will' - turn'.size = Will - turn.size
      BY <1>g, <1>w
    <3> QED
      BY <1>a, <1>s, <3>1
  <2>3. pc' = "toolWait" => Len(todo') > 0 /\ Head(todo') # "unknown"
    BY <1>a, <1>b
  <2> QED
    BY <1>a, <1>d, <1>g, <1>w, <2>1, <2>2, <2>3 DEF InTurn
<1>4. AfterTools'
  BY <1>a DEF AfterTools
<1>5. Stopped'
  <2>1. verdict' = "none"
    BY <1>0, <1>a, <1>u DEF AgentTypeOK, Ended
  <2>2. stop' = ""
    BY <1>0, <1>a, <1>u DEF Stopped
  <2> QED
    BY <2>1, <2>2 DEF Stopped
<1>6. CacheFresh'
  BY <1>0, <1>u DEF CacheFresh
<1> QED
  BY <1>1, <1>2, <1>3, <1>4, <1>5, <1>6 DEF LoopInv

(* A tool result keeps it.                                                 *)
LEMMA SucceedsKeeps ==
  ASSUME LoopInv, ToolSucceeds
  PROVE  LoopInv'
<1>0. /\ AgentTypeOK /\ BeforeModel /\ BeforeTools /\ InTurn /\ AfterTools /\ Stopped /\ CacheFresh
  BY DEF LoopInv
<1>n. Numbers
  BY <1>0, Counts
<1>a. /\ pc = "toolWait" /\ pc' = "calls" /\ todo' = Tail(todo) /\ open' = open - 1
      /\ steps' = steps /\ made' = made /\ continuation' = continuation
      /\ asking' = asking /\ exhausted' = exhausted
  BY Zenon DEF ToolSucceeds, Answered, modelVars, guardVars, counterVars
<1>u. UNCHANGED <<verdict, cancel, attempt, pending, exhausted, asking, stop, lastBatch, repeats,
                  noProgress, steps, boot, made, continuation>>
  BY Zenon DEF ToolSucceeds, modelVars, guardVars, counterVars
<1>b. /\ Len(todo) > 0 /\ turn.size <= Len(asking) /\ turn.size <= made + Len(todo) - 1
      /\ made + Len(todo) - 1 <= MaxCalls
      /\ open = Len(todo) + Len(asking) - turn.size
      /\ turn.size < Len(asking) => exhausted
      /\ exhausted => made + Len(todo) - 1 = MaxCalls
      /\ turn.size = 0 => made + Len(todo) - 1 = MaxCalls
  BY <1>0, <1>n, <1>a DEF InTurn, Will, Numbers
<1>w. Will = made + Len(todo) - 1
  BY <1>a DEF Will
<1>s. steps <= 2 * (Will - turn.size) + 3 * continuation + 1
  BY <1>0, <1>a DEF InTurn
<1>c. /\ Head(todo) \in Calls /\ Tail(todo) \in Seq(Calls) /\ Len(Tail(todo)) = Len(todo) - 1
  BY <1>0, <1>b, TodoTail
<1>d. turn \in [hits : Nat, size : Nat, mutated : BOOLEAN, down : BOOLEAN]
  BY <1>0, Zenon DEF AgentTypeOK
<1>e. turn' \in [hits : Nat, size : Nat, mutated : BOOLEAN, down : BOOLEAN]
  BY <1>d DEF ToolSucceeds
<1>z. turn'.size = turn.size
  BY <1>d DEF ToolSucceeds
<1>f. /\ page' \in Nat /\ unsure' \in BOOLEAN
      /\ cache' \in Seq([call : ReadCalls, seen : Nat])
  <2>0. page \in Nat /\ unsure \in BOOLEAN /\ cache \in Seq([call : ReadCalls, seen : Nat])
    BY <1>0, Zenon DEF AgentTypeOK
  <2>1. page' \in Nat /\ unsure' \in BOOLEAN
    BY <2>0 DEF ToolSucceeds
  <2>2. CASE Head(todo) \in ReadCalls
    <3>1. cache' = Put(Head(todo))
      BY <2>2, BatchesAssumption DEF ToolSucceeds, CacheAfter
    <3> QED
      BY <1>0, <2>1, <2>2, <3>1, PutKeeps
  <2>3. CASE Head(todo) = "navigate"
    BY <2>1, <2>3, BatchesAssumption DEF ToolSucceeds, CacheAfter
  <2>4. CASE Head(todo) \notin ReadCalls /\ Head(todo) # "navigate"
    BY <2>0, <2>1, <2>4 DEF ToolSucceeds, CacheAfter
  <2> QED
    BY <2>2, <2>3, <2>4
<1>1. AgentTypeOK'
  <2>1. /\ verdict' \in LoopOutcomes \cup {"none"} /\ (Ended' <=> verdict' # "none")
        /\ cancel' \in BOOLEAN /\ pending' \in BOOLEAN /\ exhausted' \in BOOLEAN
        /\ steps' \in Nat /\ boot' \in 0..BootTools /\ attempt' \in 1..RetryAttempts
        /\ made' \in 0..MaxCalls /\ continuation' \in 0..MaxContinuations
        /\ asking' \in Seq(Calls) /\ lastBatch' \in Seq(Calls)
        /\ stop' \in {"", "site_down", "no_progress"}
        /\ repeats' \in Nat /\ noProgress' \in Nat
    BY <1>0, <1>a, <1>u DEF AgentTypeOK, Ended
  <2>2. open' \in Nat
    BY <1>0, <1>a, <1>b, <1>n DEF Numbers
  <2> QED
    BY <1>a, <1>c, <1>e, <1>f, <2>1, <2>2 DEF AgentTypeOK
<1>2. BeforeModel' /\ BeforeTools'
  BY <1>a DEF BeforeModel, BeforeTools
<1>3. InTurn'
  <2>1. Will' = made + Len(todo) - 1
    BY <1>a, <1>c, <1>n DEF Will, Numbers
  <2>2. steps' <= 2 * (Will' - turn'.size) + 3 * continuation' + 1
    <3>1. Will' - turn'.size = Will - turn.size
      BY <1>z, <1>w, <2>1
    <3> QED
      BY <1>a, <1>s, <3>1
  <2>3. open' = Len(todo') + Len(asking') - turn'.size
    BY <1>a, <1>b, <1>c, <1>z, <1>n DEF Numbers
  <2>4. turn'.size <= Len(asking') /\ turn'.size <= Will' /\ Will' <= MaxCalls
    BY <1>a, <1>b, <1>z, <2>1
  <2> QED
    BY <1>a, <1>b, <1>z, <2>1, <2>2, <2>3, <2>4 DEF InTurn
<1>4. AfterTools'
  BY <1>a DEF AfterTools
<1>5. Stopped'
  BY <1>0, <1>a, <1>u DEF Stopped
<1>6. CacheFresh'
  <2>1. CASE Head(todo) \in ReadCalls
    <3>1. cache' = Put(Head(todo)) /\ page' = page /\ unsure' = unsure
      BY <1>0, <2>1, BatchesAssumption DEF ToolSucceeds, CacheAfter, AgentTypeOK
    <3> QED
      BY <1>0, <2>1, <3>1, PutKeeps DEF CacheFresh
  <2>2. CASE Head(todo) = "navigate"
    <3>1. cache' = <<>>
      BY <2>2, BatchesAssumption DEF ToolSucceeds, CacheAfter
    <3> QED
      BY <3>1 DEF CacheFresh
  <2>3. CASE Head(todo) \notin ReadCalls /\ Head(todo) # "navigate"
    <3>1. cache' = cache /\ page' = page /\ unsure' = unsure
      BY <1>0, <2>3 DEF ToolSucceeds, CacheAfter, AgentTypeOK
    <3> QED
      BY <1>0, <3>1 DEF CacheFresh
  <2> QED
    BY <2>1, <2>2, <2>3
<1> QED
  BY <1>1, <1>2, <1>3, <1>4, <1>5, <1>6 DEF LoopInv

(* An error or time-out of a tool keeps it.                                *)
LEMMA ToolFailsKeeps ==
  ASSUME LoopInv, NEW down \in BOOLEAN, NEW moved \in BOOLEAN, ToolFails(down, moved)
  PROVE  LoopInv'
<1>0. /\ AgentTypeOK /\ BeforeModel /\ BeforeTools /\ InTurn /\ AfterTools /\ Stopped /\ CacheFresh
  BY DEF LoopInv
<1>n. Numbers
  BY <1>0, Counts
<1>a. /\ pc = "toolWait" /\ pc' = "calls" /\ todo' = Tail(todo) /\ open' = open - 1
      /\ steps' = steps /\ made' = made /\ continuation' = continuation
      /\ asking' = asking /\ exhausted' = exhausted
  BY Zenon DEF ToolFails, Answered, modelVars, guardVars, counterVars
<1>u. UNCHANGED <<verdict, cancel, attempt, pending, exhausted, asking, stop, lastBatch, repeats,
                  noProgress, steps, boot, made, continuation>>
  BY Zenon DEF ToolFails, modelVars, guardVars, counterVars
<1>b. /\ Len(todo) > 0 /\ turn.size <= Len(asking) /\ turn.size <= made + Len(todo) - 1
      /\ made + Len(todo) - 1 <= MaxCalls
      /\ open = Len(todo) + Len(asking) - turn.size
      /\ turn.size < Len(asking) => exhausted
      /\ exhausted => made + Len(todo) - 1 = MaxCalls
      /\ turn.size = 0 => made + Len(todo) - 1 = MaxCalls
  BY <1>0, <1>n, <1>a DEF InTurn, Will, Numbers
<1>w. Will = made + Len(todo) - 1
  BY <1>a DEF Will
<1>s. steps <= 2 * (Will - turn.size) + 3 * continuation + 1
  BY <1>0, <1>a DEF InTurn
<1>c. /\ Head(todo) \in Calls /\ Tail(todo) \in Seq(Calls) /\ Len(Tail(todo)) = Len(todo) - 1
  BY <1>0, <1>b, TodoTail
<1>d. turn \in [hits : Nat, size : Nat, mutated : BOOLEAN, down : BOOLEAN]
  BY <1>0, Zenon DEF AgentTypeOK
<1>e. turn' \in [hits : Nat, size : Nat, mutated : BOOLEAN, down : BOOLEAN]
  BY <1>d DEF ToolFails
<1>z. turn'.size = turn.size
  BY <1>d DEF ToolFails
<1>g. /\ cache' = cache /\ page' = (IF moved THEN page + 1 ELSE page)
      /\ unsure' = (unsure \/ moved)
  BY Zenon DEF ToolFails
<1>h. page \in Nat /\ unsure \in BOOLEAN /\ cache \in Seq([call : ReadCalls, seen : Nat])
  BY <1>0, Zenon DEF AgentTypeOK
<1>f. /\ page' \in Nat /\ unsure' \in BOOLEAN
      /\ cache' \in Seq([call : ReadCalls, seen : Nat])
  <2>1. CASE moved
    BY <1>g, <1>h, <2>1
  <2>2. CASE ~moved
    BY <1>g, <1>h, <2>2
  <2> QED
    BY <2>1, <2>2
<1>1. AgentTypeOK'
  <2>1. /\ verdict' \in LoopOutcomes \cup {"none"} /\ (Ended' <=> verdict' # "none")
        /\ cancel' \in BOOLEAN /\ pending' \in BOOLEAN /\ exhausted' \in BOOLEAN
        /\ steps' \in Nat /\ boot' \in 0..BootTools /\ attempt' \in 1..RetryAttempts
        /\ made' \in 0..MaxCalls /\ continuation' \in 0..MaxContinuations
        /\ asking' \in Seq(Calls) /\ lastBatch' \in Seq(Calls)
        /\ stop' \in {"", "site_down", "no_progress"}
        /\ repeats' \in Nat /\ noProgress' \in Nat
    BY <1>0, <1>a, <1>u DEF AgentTypeOK, Ended
  <2>2. open' \in Nat
    BY <1>0, <1>a, <1>b, <1>n DEF Numbers
  <2> QED
    BY <1>a, <1>c, <1>e, <1>f, <2>1, <2>2 DEF AgentTypeOK
<1>2. BeforeModel' /\ BeforeTools'
  BY <1>a DEF BeforeModel, BeforeTools
<1>3. InTurn'
  <2>1. Will' = made + Len(todo) - 1
    BY <1>a, <1>c, <1>n DEF Will, Numbers
  <2>2. steps' <= 2 * (Will' - turn'.size) + 3 * continuation' + 1
    <3>1. Will' - turn'.size = Will - turn.size
      BY <1>z, <1>w, <2>1
    <3> QED
      BY <1>a, <1>s, <3>1
  <2>3. open' = Len(todo') + Len(asking') - turn'.size
    BY <1>a, <1>b, <1>c, <1>z, <1>n DEF Numbers
  <2>4. turn'.size <= Len(asking') /\ turn'.size <= Will' /\ Will' <= MaxCalls
    BY <1>a, <1>b, <1>z, <2>1
  <2> QED
    BY <1>a, <1>b, <1>z, <2>1, <2>2, <2>3, <2>4 DEF InTurn
<1>4. AfterTools'
  BY <1>a DEF AfterTools
<1>5. Stopped'
  BY <1>0, <1>a, <1>u DEF Stopped
<1>6. CacheFresh'
  BY <1>0, <1>g, <1>h DEF CacheFresh
<1> QED
  BY <1>1, <1>2, <1>3, <1>4, <1>5, <1>6 DEF LoopInv

(* The end of a turn, and the route taken after it, keep it.               *)
LEMMA EndTurnKeeps ==
  ASSUME LoopInv, EndTurn
  PROVE  LoopInv'
<1>0. /\ AgentTypeOK /\ BeforeModel /\ BeforeTools /\ InTurn /\ AfterTools /\ Stopped /\ CacheFresh
  BY DEF LoopInv
<1>n. Numbers
  BY <1>0, Counts
<1>a. /\ pc = "calls" /\ todo = <<>> /\ steps' = steps + 1
      /\ exhausted' = (exhausted \/ made >= MaxCalls)
      /\ made' = made /\ continuation' = continuation /\ open' = open
  BY DEF EndTurn, Spent
<1>u. /\ lastBatch' = SubSeq(asking, 1, turn.size)
      /\ stop' \in {"", "site_down", "no_progress"}
      /\ UNCHANGED <<verdict, cancel, boot, made, continuation, attempt, todo, open, turn>>
      /\ UNCHANGED <<pending, asking>> /\ UNCHANGED <<cache, page, unsure>>
  BY DEF EndTurn, cacheVars
<1>v. repeats' \in {repeats + 1, 1} /\ noProgress' \in {noProgress + 1, 0}
  BY DEF EndTurn
<1>b. Len(todo) = 0
  BY <1>a
<1>g. Will = made /\ Len(todo) + Len(asking) - turn.size = Len(asking) - turn.size
  BY <1>a, <1>b, <1>n DEF Will, Numbers
<1>c. /\ turn.size <= Len(asking) /\ turn.size <= made
      /\ open = Len(asking) - turn.size
      /\ turn.size < Len(asking) => exhausted
      /\ exhausted => made = MaxCalls
      /\ turn.size = 0 => made = MaxCalls
  BY <1>0, <1>g, <1>a DEF InTurn
<1>s. steps <= 2 * (made - turn.size) + 3 * continuation + 1
  BY <1>0, <1>g, <1>a DEF InTurn
<1>h. turn.size > 0 => steps' <= 2 * made + 3 * continuation
  BY <1>a, <1>s, <1>n DEF Numbers
<1>i. steps' <= 2 * made + 3 * continuation + 2
  BY <1>a, <1>s, <1>n DEF Numbers
<1>j. /\ ~exhausted' => ~exhausted /\ ~(made >= MaxCalls)
      /\ exhausted' => exhausted \/ made >= MaxCalls
  BY <1>a, Zenon
<1>k. ~(made >= MaxCalls) => made < MaxCalls
  BY <1>n DEF Numbers
<1>l. made >= MaxCalls => made = MaxCalls
  BY <1>n DEF Numbers
<1>d. \/ pc' = "compact" /\ continuation < MaxContinuations /\ stop' = ""
      \/ pc' = "final" /\ (exhausted' \/ stop' # "")
      \/ pc' = "llm" /\ ~exhausted' /\ stop' = ""
  BY DEF EndTurn, AfterTurn, Continues
<1>e. exhausted \in BOOLEAN /\ asking \in Seq(Calls) /\ repeats \in Nat /\ noProgress \in Nat
  BY <1>0, Zenon DEF AgentTypeOK
<1>f. SubSeq(asking, 1, turn.size) \in Seq(Calls)
  BY <1>0, <1>c, <1>e, <1>n, SubSeqProperties DEF Numbers
<1>1. AgentTypeOK'
  <2>1. /\ verdict' \in LoopOutcomes \cup {"none"} /\ verdict' = "none"
        /\ cancel' \in BOOLEAN /\ pending' \in BOOLEAN /\ unsure' \in BOOLEAN
        /\ boot' \in 0..BootTools /\ attempt' \in 1..RetryAttempts
        /\ made' \in 0..MaxCalls /\ continuation' \in 0..MaxContinuations
        /\ asking' \in Seq(Calls) /\ todo' \in Seq(Calls) /\ open' \in Nat
        /\ turn' \in [hits : Nat, size : Nat, mutated : BOOLEAN, down : BOOLEAN]
        /\ page' \in Nat /\ cache' \in Seq([call : ReadCalls, seen : Nat])
    BY <1>0, <1>a, <1>u DEF AgentTypeOK, Ended
  <2>2. steps' \in Nat /\ exhausted' \in BOOLEAN
    BY <1>a, <1>e, <1>n DEF Numbers
  <2>4. repeats' \in Nat /\ noProgress' \in Nat
    BY <1>v, <1>e
  <2>5. lastBatch' \in Seq(Calls)
    BY <1>u, <1>f
  <2>3. pc' \in {"compact", "final", "llm"}
    BY <1>d
  <2> QED
    BY <1>u, <2>1, <2>2, <2>3, <2>4, <2>5 DEF AgentTypeOK, Ended
<1>2. BeforeModel' /\ BeforeTools'
  <2>1. CASE pc' = "llm"
    <3>1. ~exhausted /\ made < MaxCalls
      BY <1>d, <1>j, <1>k, <2>1
    <3>2. turn.size > 0 /\ turn.size = Len(asking)
      BY <1>c, <1>n, <3>1 DEF Numbers
    <3>3. open' = 0
      BY <1>a, <1>c, <1>n, <3>2 DEF Numbers
    <3> QED
      BY <1>a, <1>h, <2>1, <3>2, <3>3 DEF BeforeModel, BeforeTools
  <2>2. CASE pc' \in {"compact", "final"}
    BY <2>2 DEF BeforeModel, BeforeTools
  <2> QED
    BY <1>d, <2>1, <2>2
<1>3. InTurn'
  BY <1>d DEF InTurn
<1>4. AfterTools'
  <2>1. pc' = "final" /\ (stop' = "" \/ open' > 0) => made' = MaxCalls
    <3>1. SUFFICES ASSUME pc' = "final", stop' = "" \/ open' > 0 PROVE made = MaxCalls
      BY <1>a
    <3>2. CASE stop' = ""
      BY <1>c, <1>d, <1>j, <1>l, <3>1, <3>2
    <3>3. CASE open' > 0
      BY <1>a, <1>c, <1>n, <3>3 DEF Numbers
    <3> QED
      BY <3>1, <3>2, <3>3
  <2> QED
    BY <1>a, <1>d, <1>i, <2>1 DEF AfterTools
<1>5. Stopped'
  BY <1>0, <1>a, <1>u, <1>d DEF Stopped, AgentTypeOK, Ended
<1>6. CacheFresh'
  BY <1>0, <1>u DEF CacheFresh
<1> QED
  BY <1>1, <1>2, <1>3, <1>4, <1>5, <1>6 DEF LoopInv

(* A compaction keeps it.                                                  *)
LEMMA CompactKeeps ==
  ASSUME LoopInv, Compact
  PROVE  LoopInv'
<1>0. /\ AgentTypeOK /\ BeforeModel /\ BeforeTools /\ InTurn /\ AfterTools /\ Stopped /\ CacheFresh
  BY DEF LoopInv
<1>n. Numbers
  BY <1>0, Counts
<1>a. /\ pc = "compact" /\ pc' = "llm" /\ steps' = steps + 1 /\ continuation' = continuation + 1
      /\ open' = 0 /\ made' = made
  BY DEF Compact, NextIndex, OpenAfterRemoval
<1>u. /\ pending' = FALSE /\ lastBatch' = <<>> /\ repeats' = 0 /\ noProgress' = 0
      /\ UNCHANGED <<verdict, cancel, boot, made, attempt, asking, todo, turn, exhausted, stop>>
      /\ UNCHANGED <<cache, page, unsure>>
  BY DEF Compact, cacheVars
<1>b. steps <= 2 * made + 3 * continuation + 2 /\ continuation < MaxContinuations
  BY <1>0, <1>a DEF AfterTools
<1>1. AgentTypeOK'
  <2>1. /\ verdict' \in LoopOutcomes \cup {"none"} /\ verdict' = "none"
        /\ cancel' \in BOOLEAN /\ exhausted' \in BOOLEAN /\ unsure' \in BOOLEAN
        /\ boot' \in 0..BootTools /\ attempt' \in 1..RetryAttempts /\ made' \in 0..MaxCalls
        /\ asking' \in Seq(Calls) /\ todo' \in Seq(Calls)
        /\ turn' \in [hits : Nat, size : Nat, mutated : BOOLEAN, down : BOOLEAN]
        /\ stop' \in {"", "site_down", "no_progress"}
        /\ page' \in Nat /\ cache' \in Seq([call : ReadCalls, seen : Nat])
    BY <1>0, <1>a, <1>u DEF AgentTypeOK, Ended
  <2>2. /\ steps' \in Nat /\ continuation' \in 0..MaxContinuations /\ open' \in Nat
    BY <1>a, <1>b, <1>n DEF Numbers
  <2>4. repeats' \in Nat /\ noProgress' \in Nat /\ pending' \in BOOLEAN
    BY <1>u
  <2>3. lastBatch' \in Seq(Calls)
    BY <1>u, EmptySeq
  <2> QED
    BY <1>a, <2>1, <2>2, <2>3, <2>4 DEF AgentTypeOK, Ended
<1>2. BeforeModel' /\ BeforeTools'
  BY <1>0, <1>a, <1>b, <1>n DEF BeforeModel, BeforeTools, Numbers
<1>3. InTurn'
  BY <1>a DEF InTurn
<1>4. AfterTools'
  BY <1>a DEF AfterTools
<1>5. Stopped'
  BY <1>0, <1>a, <1>u DEF Stopped
<1>6. CacheFresh'
  BY <1>0, <1>u DEF CacheFresh
<1> QED
  BY <1>1, <1>2, <1>3, <1>4, <1>5, <1>6 DEF LoopInv

(* A cancel request, its effect and the time limit keep it.                *)
LEMMA EndKeeps ==
  ASSUME LoopInv, NoticeCancel \/ TimeOut \/ CancelAgent
  PROVE  LoopInv'
<1>0. /\ AgentTypeOK /\ BeforeModel /\ BeforeTools /\ InTurn /\ AfterTools /\ Stopped /\ CacheFresh
  BY DEF LoopInv
<1>a. /\ \/ pc' = "done" /\ verdict' \in {"cancelled", "timed_out"} /\ cancel' = cancel
         \/ ~Ended /\ UNCHANGED <<pc, verdict>> /\ cancel' = TRUE
      /\ UNCHANGED <<attempt, todo, open, turn>> /\ UNCHANGED <<pending, exhausted, asking>>
      /\ UNCHANGED <<stop, lastBatch, repeats, noProgress>> /\ UNCHANGED <<cache, page, unsure>>
      /\ UNCHANGED <<steps, boot, made, continuation>>
  BY DEF NoticeCancel, TimeOut, CancelAgent, FinishLoop, modelVars, guardVars, cacheVars, counterVars
<1>1. AgentTypeOK'
  BY <1>0, <1>a, ZenonT(40) DEF AgentTypeOK, Ended, LoopOutcomes
<1>2. BeforeModel' /\ BeforeTools'
  BY <1>0, <1>a DEF BeforeModel, BeforeTools
<1>3. InTurn'
  BY <1>0, <1>a DEF InTurn, Will
<1>4. AfterTools'
  BY <1>0, <1>a DEF AfterTools
<1>5. Stopped'
  BY <1>0, <1>a DEF Stopped
<1>6. CacheFresh'
  BY <1>0, <1>a DEF CacheFresh
<1> QED
  BY <1>1, <1>2, <1>3, <1>4, <1>5, <1>6 DEF LoopInv

(* A step of the loop keeps the invariant.                                 *)
LEMMA LoopStep ==
  ASSUME LoopInv, [AgentNext]_agentVars
  PROVE  LoopInv'
<1>1. CASE AgentNext
  BY <1>1, BootKeeps, ModelKeeps, FinishesKeeps, AsksKeeps, FailsKeeps, DispatchKeeps, CallsKeep,
     SucceedsKeeps, ToolFailsKeeps, EndTurnKeeps, CompactKeeps, EndKeeps DEF AgentNext, Proceed
<1>2. CASE UNCHANGED agentVars
  <2> USE <1>2 DEF agentVars
  <2>1. AgentTypeOK'
    BY ZenonT(40) DEF LoopInv, AgentTypeOK, Ended
  <2>2. BeforeModel' /\ BeforeTools'
    BY DEF LoopInv, BeforeModel, BeforeTools
  <2>3. InTurn'
    BY DEF LoopInv, InTurn, Will
  <2>4. AfterTools' /\ Stopped' /\ CacheFresh'
    BY DEF LoopInv, AfterTools, Stopped, CacheFresh
  <2> QED
    BY <2>1, <2>2, <2>3, <2>4 DEF LoopInv
<1> QED
  BY <1>1, <1>2

(* The invariant holds in every behaviour.                                 *)
LEMMA LoopInvHolds == AgentSpec => []LoopInv
  BY LoopInit, LoopStep, PTL DEF AgentSpec

-----------------------------------------------------------------------------
(* The types of the loop's state and the ranges of its counters, the tool  *)
(* budget and the number of continuations among them.                      *)
THEOREM LoopTypeCorrect == AgentSpec => []AgentTypeOK
<1>1. LoopInv => AgentTypeOK
  BY DEF LoopInv
<1> QED
  BY <1>1, LoopInvHolds, PTL

(* For every tool budget and number of continuations that fit: the number  *)
(* of supersteps stays under the recursion limit of the graph, so that it  *)
(* is the loop that ends an agent and never LangGraph's error.             *)
THEOREM UnderRecursionLimit == AgentSpec => []EndsBeforeRecursionLimit
<1>1. LoopInv => EndsBeforeRecursionLimit
  <2> SUFFICES ASSUME LoopInv, ContinuationsFit, NodeStarts
               PROVE  steps < RecursionLimit
    BY DEF EndsBeforeRecursionLimit
  <2>0. AgentTypeOK /\ BeforeModel /\ BeforeTools /\ AfterTools
    BY DEF LoopInv
  <2>n. Numbers
    BY <2>0, Counts
  <2>1. pc \in {"llm", "tools", "compact", "final"}
    BY DEF NodeStarts
  <2>2. steps <= 2 * made + 3 * continuation + 2
    <3>1. CASE pc = "llm"
      <4>1. steps <= 2 * made + 3 * continuation
        BY <2>0, <3>1 DEF BeforeModel
      <4> QED
        BY <4>1, <2>n DEF Numbers
    <3>2. CASE pc = "tools"
      <4>1. steps <= 2 * made + 3 * continuation + 1
        BY <2>0, <3>2 DEF BeforeTools
      <4> QED
        BY <4>1, <2>n DEF Numbers
    <3>3. CASE pc \in {"compact", "final"}
      BY <2>0, <3>3 DEF AfterTools
    <3> QED
      BY <2>1, <3>1, <3>2, <3>3
  <2>3. 2 * MaxCalls + 3 * MaxContinuations + 3 <= RecursionLimit /\ RecursionLimit \in Nat
    BY BoundsAssumption DEF ContinuationsFit, RecursionLimit
  <2> QED
    BY <2>0, <2>2, <2>3, <2>n DEF Numbers
<1> QED
  BY <1>1, LoopInvHolds, PTL

(* An agent that reports a spent budget has made all of its calls.         *)
THEOREM BudgetTrue == AgentSpec => []BudgetReportedTrue
<1>1. LoopInv => BudgetReportedTrue
  BY DEF LoopInv, Stopped, BudgetReportedTrue
<1> QED
  BY <1>1, LoopInvHolds, PTL

(* The model never gets messages with an unanswered tool call, except in   *)
(* the request for the final answer of an agent whose budget is spent.     *)
THEOREM MessagesAnswered == AgentSpec => []CallsAnswered
<1>1. LoopInv => CallsAnswered
  BY DEF LoopInv, BeforeModel, AfterTools, CallsAnswered
<1> QED
  BY <1>1, LoopInvHolds, PTL

(* The tool result cache holds nothing read from an older page, unless a   *)
(* failed call has moved the page.                                         *)
THEOREM CacheIsFresh == AgentSpec => []CacheFresh
<1>1. LoopInv => CacheFresh
  BY DEF LoopInv
<1> QED
  BY <1>1, LoopInvHolds, PTL

(* An agent that was told to stop goes to its final answer and makes no    *)
(* further call.                                                           *)
THEOREM StopHolds == AgentSpec => StopIsFinal
<1>1. LoopInv /\ [AgentNext]_agentVars =>
        [stop # "" => made' = made /\ stop' = stop /\ verdict' \notin {"completed", "budget_exhausted"}]_agentVars
  <2> SUFFICES ASSUME LoopInv, AgentNext, stop # ""
               PROVE  made' = made /\ stop' = stop /\ verdict' \notin {"completed", "budget_exhausted"}
    OBVIOUS
  <2>1. pc \in {"final", "finalWait", "done"} /\ verdict \notin {"completed", "budget_exhausted"}
        /\ stop \in {"site_down", "no_progress"}
    BY DEF LoopInv, Stopped, AgentTypeOK
  <2>2. CASE CallModelLast \/ FinalAnswer \/ NoticeCancel \/ CancelAgent \/ TimeOut
    BY <2>1, <2>2 DEF CallModelLast, FinalAnswer, NoticeCancel, CancelAgent, TimeOut, FinishLoop,
       modelVars, guardVars, cacheVars, counterVars
  <2>3. CASE \E retryable \in BOOLEAN : ModelFails(retryable)
    BY <2>1, <2>3 DEF ModelFails, FinishLoop, modelVars, guardVars, cacheVars, counterVars
  <2> QED
    BY <2>1, <2>2, <2>3 DEF AgentNext, Proceed, BootCall, BootResult, CallModel, ModelFinishes,
       ModelAsks, DispatchTools, AnswerInside, CallTool, MayCall, ToolSucceeds, ToolFails, EndTurn, Compact
<1> QED
  BY <1>1, LoopInvHolds, PTL DEF AgentSpec, StopIsFinal

(* After a cancel request no call to the model or to a tool is begun.      *)
THEOREM CancelStopsCalls == AgentSpec => NoCallAfterCancel
<1>1. [AgentNext]_agentVars =>
        [\A w \in {"bootWait", "llmWait", "toolWait", "finalWait"} : cancel /\ pc' = w => pc = w]_agentVars
  <2> SUFFICES ASSUME AgentNext, cancel, NEW w \in {"bootWait", "llmWait", "toolWait", "finalWait"}, pc' = w
               PROVE  pc = w
    OBVIOUS
  <2> QED
    BY DEF AgentNext, Proceed, BootCall, BootResult, CallModel, ModelFinishes, ModelAsks, ModelFails,
       DispatchTools, AnswerInside, CallTool, MayCall, ToolSucceeds, ToolFails, EndTurn, AfterTurn, Compact,
       CallModelLast, FinalAnswer, CancelAgent, NoticeCancel, TimeOut, FinishLoop
<1> QED
  BY <1>1, PTL DEF AgentSpec, NoCallAfterCancel

(* An agent ends within the recursion limit and tells the truth about its  *)
(* budget, its messages and its cache, for every budget and cache size.    *)
THEOREM LoopSafeHolds == AgentSpec => []LoopSafe
<1>1. AgentTypeOK /\ EndsBeforeRecursionLimit /\ BudgetReportedTrue /\ CallsAnswered /\ CacheFresh
        => LoopSafe
  BY DEF LoopSafe
<1> QED
  BY <1>1, LoopTypeCorrect, UnderRecursionLimit, BudgetTrue, MessagesAnswered, CacheIsFresh, PTL

(* An agent that is cancelled or told to stop begins no further call.      *)
THEOREM StopsCallingHolds == AgentSpec => StopsCalling
  BY CancelStopsCalls, StopHolds DEF StopsCalling

-----------------------------------------------------------------------------
(* A health check: what it reports of a site is the best of its attempts,  *)
(* so that no site that answered with a page or a guard is offered for     *)
(* deletion.                                                               *)

All == Answers \cup Silences

Shape ==
    /\ urlsLeft \in [Candidates -> 0..2]
    /\ probing \subseteq Candidates /\ reported \subseteq Candidates
    /\ probing \cap reported = {}
    /\ best \in [Candidates -> All \cup {""}]
    /\ tried \in [Candidates -> Seq(All)]

\* A site has two URLs at the most, and one left while it is probed.
Counted ==
    /\ \A c \in Candidates : Len(tried[c]) + urlsLeft[c] <= 2
    /\ \A c \in probing : urlsLeft[c] > 0

\* best_result is the best so far; no attempt of a site that is still probed
\* has worked.
BestSoFar ==
    /\ \A c \in Candidates :
          /\ best[c] = "" => Outcomes(c) = {}
          /\ best[c] \in Working <=> Outcomes(c) \cap Working # {}
          /\ Outcomes(c) \cap Answers # {} => best[c] \in Answers
    /\ \A c \in probing : best[c] \notin Working
    /\ \A c \in Candidates : c \notin probing \cup reported => best[c] = ""
    /\ \A c \in reported : best[c] # ""

HealthInv == Shape /\ Counted /\ BestSoFar

\* Before the first attempt there is nothing to be true to.
LEMMA HealthStart == HealthInit => HealthInv
<1> SUFFICES ASSUME HealthInit PROVE HealthInv
  OBVIOUS
<1>1. Shape
  <2>1. <<>> \in Seq(All)
    BY EmptySeq
  <2>2. /\ tried = [c \in Candidates |-> <<>>] /\ best = [c \in Candidates |-> ""]
        /\ urlsLeft \in [Candidates -> 0..2] /\ probing = {} /\ reported = {}
    BY DEF HealthInit
  <2>3. tried \in [Candidates -> Seq(All)]
    BY <2>1, <2>2
  <2>4. best \in [Candidates -> All \cup {""}]
    BY <2>2
  <2> QED
    BY <2>2, <2>3, <2>4 DEF Shape
<1>2. \A c \in Candidates : tried[c] = <<>> /\ best[c] = "" /\ urlsLeft[c] \in 0..2
  BY DEF HealthInit
<1>3. \A c \in Candidates : Outcomes(c) = {} /\ Len(tried[c]) = 0
  <2>1. Len(<<>>) = 0 /\ DOMAIN <<>> = {}
    OBVIOUS
  <2> QED
    BY <1>2, <2>1 DEF Outcomes
<1>4. Counted
  <2>1. \A n \in 0..2 : 0 + n <= 2
    OBVIOUS
  <2>2. \A c \in Candidates : Len(tried[c]) + urlsLeft[c] <= 2
    BY <1>2, <1>3, <2>1
  <2> QED
    BY <2>2 DEF Counted, HealthInit
<1>5. BestSoFar
  BY <1>2, <1>3 DEF BestSoFar, HealthInit, Working
<1> QED
  BY <1>1, <1>4, <1>5 DEF HealthInv

\* A slot is taken, or a site without a URL is unreachable at once.
LEMMA EnterKeeps ==
    ASSUME HealthInv, NEW c \in Candidates, Enter(c)
    PROVE  HealthInv'
<1>1. /\ urlsLeft' = urlsLeft /\ tried' = tried
      /\ c \notin probing /\ c \notin reported /\ best[c] = ""
  BY DEF Enter, HealthInv, BestSoFar
<1>2. \A d \in Candidates : Outcomes(d)' = Outcomes(d)
  BY <1>1 DEF Outcomes
<1>3. CASE urlsLeft[c] = 0
  <2>1. best' = [best EXCEPT ![c] = "unreachable"] /\ reported' = reported \cup {c} /\ probing' = probing
    BY <1>3 DEF Enter
  <2>2. "unreachable" \in All /\ "unreachable" \notin Working
    BY DEF All, Silences, Working
  <2>3. Shape'
    BY <1>1, <2>1, <2>2 DEF HealthInv, Shape
  <2>4. Counted'
    BY <1>1, <2>1 DEF HealthInv, Counted
  <2>5. Outcomes(c) = {}
    BY <1>1 DEF HealthInv, BestSoFar
  <2>6. best'[c] = "unreachable" /\ \A d \in Candidates : d # c => best'[d] = best[d]
    BY <2>1 DEF HealthInv, Shape
  <2>7. \A d \in Candidates :
          /\ best'[d] = "" => Outcomes(d)' = {}
          /\ best'[d] \in Working <=> Outcomes(d)' \cap Working # {}
          /\ Outcomes(d)' \cap Answers # {} => best'[d] \in Answers
    BY <1>2, <2>2, <2>5, <2>6 DEF HealthInv, BestSoFar
  <2>8. \A d \in probing' : best'[d] \notin Working
    BY <1>1, <2>1, <2>6 DEF HealthInv, BestSoFar, Shape
  <2>9. /\ \A d \in Candidates : d \notin probing' \cup reported' => best'[d] = ""
        /\ \A d \in reported' : best'[d] # ""
    BY <1>1, <2>1, <2>6 DEF HealthInv, BestSoFar, Shape
  <2>10. BestSoFar'
    BY <2>7, <2>8, <2>9 DEF BestSoFar
  <2> QED
    BY <2>3, <2>4, <2>10 DEF HealthInv
<1>4. CASE urlsLeft[c] # 0
  <2>1. best' = best /\ reported' = reported /\ probing' = probing \cup {c}
    BY <1>4 DEF Enter
  <2>2. Shape'
    BY <1>1, <2>1 DEF HealthInv, Shape
  <2>3. urlsLeft[c] > 0
    <3>1. urlsLeft[c] \in 0..2
      BY DEF HealthInv, Shape
    <3> QED
      BY <1>4, <3>1
  <2>4. Counted'
    BY <1>1, <2>1, <2>3 DEF HealthInv, Counted
  <2>5. "" \notin Working
    BY DEF Working
  <2>6. BestSoFar'
    BY <1>1, <1>2, <2>1, <2>5 DEF HealthInv, BestSoFar
  <2> QED
    BY <2>2, <2>4, <2>6 DEF HealthInv
<1> QED
  BY <1>3, <1>4

\* An attempt adds its outcome, and takes one of the URLs left.
LEMMA AttemptKeeps ==
    ASSUME HealthInv, NEW c \in Candidates, NEW o \in All, Attempt(c, o)
    PROVE  HealthInv'
<1>1. /\ c \in probing /\ urlsLeft[c] \in 1..2 /\ tried[c] \in Seq(All)
      /\ Len(tried[c]) + urlsLeft[c] <= 2 /\ best[c] \notin Working
  <2>1. c \in probing
    BY DEF Attempt
  <2>2. /\ urlsLeft[c] \in 0..2 /\ tried[c] \in Seq(All)
    BY DEF HealthInv, Shape
  <2>3. /\ urlsLeft[c] > 0 /\ best[c] \notin Working
        /\ Len(tried[c]) + urlsLeft[c] <= 2
    BY <2>1 DEF HealthInv, Counted, BestSoFar
  <2> QED
    BY <2>1, <2>2, <2>3
<1>2. /\ tried' = [tried EXCEPT ![c] = Append(@, o)]
      /\ urlsLeft' = [urlsLeft EXCEPT ![c] = @ - 1]
      /\ best' = [best EXCEPT ![c] = IF o \in Working THEN o ELSE Better(@, o)]
  BY DEF Attempt
<1>3. \/ probing' = probing \ {c} /\ reported' = reported \cup {c}
      \/ probing' = probing /\ reported' = reported /\ urlsLeft[c] # 1 /\ o \notin Working
  BY DEF Attempt
<1>4. /\ tried'[c] = Append(tried[c], o) /\ tried'[c] \in Seq(All)
      /\ Len(tried'[c]) = Len(tried[c]) + 1
      /\ urlsLeft'[c] = urlsLeft[c] - 1 /\ urlsLeft'[c] \in 0..2
      /\ best'[c] = IF o \in Working THEN o ELSE Better(best[c], o)
  <2>1. /\ tried'[c] = Append(tried[c], o) /\ urlsLeft'[c] = urlsLeft[c] - 1
        /\ best'[c] = IF o \in Working THEN o ELSE Better(best[c], o)
    BY <1>2 DEF HealthInv, Shape
  <2>2. Append(tried[c], o) \in Seq(All) /\ Len(Append(tried[c], o)) = Len(tried[c]) + 1
    BY <1>1
  <2>3. urlsLeft[c] - 1 \in 0..2
    BY <1>1
  <2> QED
    BY <2>1, <2>2, <2>3
<1>5. \A d \in Candidates : d # c =>
          tried'[d] = tried[d] /\ urlsLeft'[d] = urlsLeft[d] /\ best'[d] = best[d]
  BY <1>2 DEF HealthInv, Shape
<1>6. Outcomes(c)' = Outcomes(c) \cup {o}
  <2>1. DOMAIN tried'[c] = 1..Len(tried[c]) + 1 /\ DOMAIN tried[c] = 1..Len(tried[c])
    BY <1>1, <1>4
  <2>2. \A i \in 1..Len(tried[c]) : tried'[c][i] = tried[c][i]
    BY <1>1, <1>4
  <2>3. tried'[c][Len(tried[c]) + 1] = o /\ Len(tried[c]) \in Nat
    BY <1>1, <1>4
  <2> QED
    BY <2>1, <2>2, <2>3 DEF Outcomes
<1>7. \A d \in Candidates : d # c => Outcomes(d)' = Outcomes(d)
  BY <1>5 DEF Outcomes
<1>8. /\ best'[c] \in All /\ best'[c] # ""
      /\ best'[c] \in Working <=> Outcomes(c)' \cap Working # {}
      /\ Outcomes(c)' \cap Answers # {} => best'[c] \in Answers
  <2>1. /\ best[c] = "" => Outcomes(c) = {}
        /\ best[c] \in Working <=> Outcomes(c) \cap Working # {}
        /\ Outcomes(c) \cap Answers # {} => best[c] \in Answers
        /\ best[c] \in All \cup {""}
    BY DEF HealthInv, Shape, BestSoFar
  <2>2. Working \subseteq Answers /\ "" \notin All /\ Answers \subseteq All
    BY DEF Working, Answers, Silences, All
  <2>3. CASE o \in Working
    BY <1>4, <1>6, <2>2, <2>3
  <2>4. CASE o \notin Working
    <3>1. best'[c] = Better(best[c], o)
      BY <1>4, <2>4
    <3> QED
      BY <1>1, <1>6, <2>1, <2>2, <2>4, <3>1 DEF Better
  <2> QED
    BY <2>3, <2>4
<1>9. o \notin Working => best'[c] \notin Working
  BY <1>1, <1>4 DEF Better
<1>10. Shape'
  <2>1. /\ urlsLeft' \in [Candidates -> 0..2] /\ tried' \in [Candidates -> Seq(All)]
        /\ best' \in [Candidates -> All \cup {""}]
    BY <1>2, <1>4, <1>8 DEF HealthInv, Shape
  <2> QED
    BY <1>1, <1>3, <2>1 DEF HealthInv, Shape
<1>11. Counted'
  <2>1. \A d \in Candidates : Len(tried'[d]) + urlsLeft'[d] <= 2
    <3>1. Len(tried'[c]) + urlsLeft'[c] <= 2
      BY <1>1, <1>4
    <3> QED
      BY <1>5, <3>1 DEF HealthInv, Counted
  <2>2. \A d \in probing' : urlsLeft'[d] > 0
    <3>1. \A d \in probing' : d \in probing
      BY <1>3
    <3>2. ASSUME c \in probing' PROVE urlsLeft'[c] > 0
      <4>1. urlsLeft[c] # 1
        BY <1>3, <3>2
      <4> QED
        BY <1>1, <1>4, <4>1
    <3>3. \A d \in probing : d \in Candidates /\ urlsLeft[d] > 0
      BY DEF HealthInv, Counted, Shape
    <3> QED
      BY <1>5, <3>1, <3>2, <3>3
  <2> QED
    BY <2>1, <2>2 DEF Counted
<1>12. BestSoFar'
  <2>1. \A d \in Candidates :
          /\ best'[d] = "" => Outcomes(d)' = {}
          /\ best'[d] \in Working <=> Outcomes(d)' \cap Working # {}
          /\ Outcomes(d)' \cap Answers # {} => best'[d] \in Answers
    BY <1>5, <1>7, <1>8 DEF HealthInv, BestSoFar
  <2>2. \A d \in probing' : best'[d] \notin Working
    BY <1>3, <1>5, <1>9 DEF HealthInv, BestSoFar, Shape
  <2>3. \A d \in reported' : best'[d] # ""
    BY <1>3, <1>5, <1>8 DEF HealthInv, BestSoFar, Shape
  <2>4. \A d \in Candidates : d \notin probing' \cup reported' => best'[d] = ""
    <3>1. \A d \in Candidates : d \notin probing' \cup reported' => d # c /\ d \notin probing \cup reported
      BY <1>1, <1>3
    <3> QED
      BY <1>5, <3>1 DEF HealthInv, BestSoFar
  <2> QED
    BY <2>1, <2>2, <2>3, <2>4 DEF BestSoFar
<1> QED
  BY <1>10, <1>11, <1>12 DEF HealthInv

\* A step that leaves the sites alone.
LEMMA HealthStutter ==
    ASSUME HealthInv, urlsLeft' = urlsLeft, probing' = probing, tried' = tried, best' = best,
           reported' = reported
    PROVE  HealthInv'
<1>1. \A c \in Candidates : Outcomes(c)' = Outcomes(c)
  BY DEF Outcomes
<1> QED
  BY <1>1 DEF HealthInv, Shape, Counted, BestSoFar

\* HealthSafe: a site is offered for deletion only if none of its attempts
\* reached it (_probe_site_health, datasets.py).
THEOREM HealthIsSafe == HealthSpec => []HealthSafe
<1>1. HealthInv /\ [HealthNext]_healthVars => HealthInv'
  <2> SUFFICES ASSUME HealthInv, [HealthNext]_healthVars PROVE HealthInv'
    OBVIOUS
  <2>1. ASSUME NEW c \in Candidates, Enter(c) PROVE HealthInv'
    BY <2>1, EnterKeeps
  <2>2. ASSUME NEW c \in Candidates, NEW o \in Answers \cup Silences, Attempt(c, o) PROVE HealthInv'
    BY <2>2, AttemptKeeps DEF All
  <2>3. ASSUME NEW c \in Candidates, Collapse(c) PROVE HealthInv'
    BY <2>3, HealthStutter DEF Collapse
  <2>4. CASE UNCHANGED healthVars
    BY <2>4, HealthStutter DEF healthVars
  <2> QED
    BY <2>1, <2>2, <2>3, <2>4 DEF HealthNext, HealthStep
<1>2. HealthInv => HealthSafe
  <2> SUFFICES ASSUME HealthInv PROVE HealthSafe
    OBVIOUS
  <2>1. ASSUME NEW c \in Candidates PROVE Len(tried[c]) <= 2
    <3>1. urlsLeft[c] \in 0..2 /\ tried[c] \in Seq(All) /\ Len(tried[c]) + urlsLeft[c] <= 2
      BY DEF HealthInv, Shape, Counted
    <3>2. Len(tried[c]) \in Nat
      BY <3>1
    <3> QED
      BY <3>1, <3>2
  <2>2. HealthTypeOK
    BY <2>1 DEF HealthInv, Shape, BestSoFar, HealthTypeOK, All
  <2>3. OfferedRightly
    BY DEF HealthInv, Shape, BestSoFar, OfferedRightly, Working
  <2> QED
    BY <2>2, <2>3 DEF HealthSafe
<1> QED
  BY <1>1, <1>2, HealthStart, PTL DEF HealthSpec

-----------------------------------------------------------------------------
(* The browsers of the tools server.  BrowserInv knows that a browser that *)
(* starts is the one launch under way of its scope, and that one which can *)
(* be shared is the one in the map (LaunchesKnown): so an undisturbed      *)
(* scope has no open connection while a launch is under way, and the count *)
(* of a new record is right from the start.  Of the jar it knows that who  *)
(* writes it has its lock, over all that was in it, unless it could not    *)
(* read it (JarHeld).                                                      *)

\* Connections, the browsers that bear their names, and their scopes.
ConnsKnown ==
    /\ \A c \in Conns : conn[c] = "new" => browser[c] = "none" /\ ~pageGone[c]
    /\ \A c \in Conns : conn[c] # "new" => scope[c] \in Scopes
    /\ \A c \in Conns : conn[c] = "open" => holds[c] \in Conns /\ scope[holds[c]] = scope[c]
    /\ \A c \in Conns : browser[c] \in {"none", "starting"} => \A d \in Conns : conn[d] = "open" => holds[d] # c
    /\ \A s \in Scopes : current[s] # NoBrowser => scope[current[s]] = s

\* A browser that starts is the launch under way of its scope, for which there was
\* nothing to share; one that can be shared is the one of its scope.
LaunchesKnown ==
    /\ \A c \in Conns : browser[c] = "starting" => conn[c] = "launching" /\ inFlight[scope[c]] = c
    /\ \A s \in Scopes : inFlight[s] # NoBrowser => ~Usable(current[s])
    /\ \A c \in Conns : browser[c] = "open" /\ ~pageGone[c] => current[scope[c]] = c

\* The jar is written by the browser that has the lock, over what it has read.
JarHeld ==
    /\ \A b \in Conns : merged[b] \cap Forbidden = {}
    /\ \A b \in Conns : browser[b] \in {"merging", "writing"} => lock = b
    /\ \A b \in Conns : browser[b] \in {"merging", "writing"} /\ ~blind[b] => jar \subseteq merged[b]

BrowserInv ==
    STypeOK /\ HeldStaysOpen /\ OneBrowserPerScope /\ JarClean /\ LossExplained /\ ConnsKnown
    /\ LaunchesKnown /\ JarHeld

\* The types of what connections share, and of the jar; the records in the map.
SharedTypes ==
    /\ conn \in [Conns -> {"new", "launching", "joining", "open", "gone"}]
    /\ scope \in [Conns -> Scopes \cup {NoBrowser}]
    /\ holds \in [Conns -> Conns \cup {NoBrowser}]
    /\ current \in [Scopes -> Conns \cup {NoBrowser}] /\ inFlight \in [Scopes -> Conns \cup {NoBrowser}]
    /\ browser \in [Conns -> {"none", "starting", "open", "closing", "merging", "writing",
                              "closed", "dead"}]
    /\ refs \in [Conns -> Int]
    /\ pageGone \in [Conns -> BOOLEAN]

JarTypes ==
    /\ merged \in [Conns -> SUBSET Cookies]
    /\ jar \in SUBSET Cookies /\ torn \in BOOLEAN /\ blind \in [Conns -> BOOLEAN]
    /\ lock \in Conns \cup {NoBrowser}
    /\ jarFaults \in 0..MaxJarFaults /\ serverCrashes \in 0..MaxServerCrashes

RecordsOpen ==
    \A s \in Scopes : current[s] # NoBrowser => refs[current[s]] >= 1 /\ browser[current[s]] = "open"

SharedInv ==
    SharedTypes /\ RecordsOpen /\ HeldStaysOpen /\ OneBrowserPerScope /\ ConnsKnown /\ LaunchesKnown

JarInv == JarTypes /\ JarClean /\ LossExplained /\ JarHeld

\* What a step may do to the jar.
JarLoss == \E b \in Conns : blind[b] /\ browser[b] = "writing"

LEMMA BrowserParts == BrowserInv <=> SharedInv /\ JarInv
BY DEF BrowserInv, STypeOK, SharedTypes, RecordsOpen, JarTypes, SharedInv, JarInv

-----------------------------------------------------------------------------
(* The jar.                                                                *)

\* A step that does not touch the jar starts no merge.
LEMMA JarQuiet ==
  ASSUME JarInv, UNCHANGED jarVars, UNCHANGED serverCrashes,
         \A b \in Conns : browser'[b] \in {"merging", "writing"} => browser'[b] = browser[b]
  PROVE  JarInv'
<1>1. /\ jar' = jar /\ torn' = torn /\ lock' = lock /\ merged' = merged /\ blind' = blind
      /\ jarFaults' = jarFaults /\ serverCrashes' = serverCrashes
  BY DEF jarVars
<1>2. JarTypes' /\ JarClean' /\ LossExplained'
  BY <1>1 DEF JarInv, JarTypes, JarClean, LossExplained
<1>3. JarHeld'
  BY <1>1 DEF JarInv, JarHeld
<1> QED
  BY <1>2, <1>3 DEF JarInv

LEMMA JarCrash ==
  ASSUME JarInv, ServerCrash
  PROVE  JarInv'
<1>1. /\ jar' = jar /\ torn' = torn /\ lock' = NoBrowser /\ merged' = [c \in Conns |-> {}]
      /\ blind' = [c \in Conns |-> FALSE] /\ jarFaults' = jarFaults
      /\ serverCrashes < MaxServerCrashes /\ serverCrashes' = serverCrashes + 1
      /\ \A b \in Conns : browser'[b] \in {"none", "dead"}
  BY DEF ServerCrash
<1>2. serverCrashes \in 0 .. MaxServerCrashes /\ jarFaults \in 0 .. MaxJarFaults
  BY DEF JarInv, JarTypes
<1>3. serverCrashes' \in 0 .. MaxServerCrashes /\ jarFaults' + serverCrashes' > 0
  BY <1>1, <1>2, BrowserAssumption
<1>4. JarTypes' /\ JarClean' /\ LossExplained'
  BY <1>1, <1>3 DEF JarInv, JarTypes, JarClean, LossExplained
<1>5. JarHeld'
  BY <1>1, <1>3 DEF JarHeld
<1> QED
  BY <1>4, <1>5 DEF JarInv

\* Faults are counted, and one is remembered.
LEMMA Faults ==
  ASSUME JarTypes, NEW happens \in BOOLEAN, Fault(happens), serverCrashes' = serverCrashes
  PROVE  /\ jarFaults' \in 0..MaxJarFaults
         /\ jarFaults + serverCrashes > 0 \/ happens => jarFaults' + serverCrashes' > 0
<1>1. jarFaults \in 0..MaxJarFaults /\ serverCrashes \in 0..MaxServerCrashes
      /\ MaxJarFaults \in Nat /\ MaxServerCrashes \in Nat
  BY BrowserAssumption DEF JarTypes
<1>2. CASE happens
  <2>1. jarFaults' = jarFaults + 1 /\ jarFaults < MaxJarFaults
    BY <1>2 DEF Fault
  <2> QED
    BY <1>1, <2>1
<1>3. CASE ~happens
  <2>1. jarFaults' = jarFaults + 0
    BY <1>3 DEF Fault
  <2> QED
    BY <1>1, <1>3, <2>1
<1> QED
  BY <1>2, <1>3

LEMMA BeginMergeKeeps ==
  ASSUME JarInv, SharedTypes, NEW b \in Conns, NEW found \in SUBSET Cookies, NEW unread \in BOOLEAN,
         BeginMerge(b, found, unread)
  PROVE  JarInv' /\ jar' = jar
<1>1. /\ jar \in SUBSET Cookies /\ torn \in BOOLEAN /\ jar \cap Forbidden = {}
      /\ merged \in [Conns -> SUBSET Cookies] /\ blind \in [Conns -> BOOLEAN]
      /\ serverCrashes \in 0..MaxServerCrashes /\ NoBrowser \notin Conns
  BY BrowserAssumption DEF JarInv, JarTypes, JarClean
<1>2. browser \in [Conns -> {"none", "starting", "open", "closing", "merging", "writing", "closed", "dead"}]
  BY DEF SharedTypes
<1>3. PICK all : all = Jar(unread) \cup Sanitized(found)
  OBVIOUS
<1>4. /\ lock = NoBrowser /\ lock' = b /\ merged' = [merged EXCEPT ![b] = all]
      /\ blind' = [blind EXCEPT ![b] = unread \/ torn] /\ Fault(unread)
      /\ browser' = [browser EXCEPT ![b] = "merging"]
      /\ jar' = jar /\ torn' = torn /\ serverCrashes' = serverCrashes
  BY <1>3 DEF BeginMerge, LockFree
<1>5. /\ jarFaults' \in 0..MaxJarFaults
      /\ jarFaults + serverCrashes > 0 \/ unread => jarFaults' + serverCrashes' > 0
  BY <1>4, Faults DEF JarInv
<1>6. \A c \in Conns : browser[c] \notin {"merging", "writing"}
  BY <1>1, <1>4 DEF JarInv, JarHeld
<1>7. /\ all \in SUBSET Cookies /\ all \cap Forbidden = {}
      /\ ~(unread \/ torn) => jar \subseteq all
  BY <1>1, <1>3 DEF Jar, Sanitized
<1>8. \A c \in Conns : /\ browser'[c] = (IF c = b THEN "merging" ELSE browser[c])
                       /\ merged'[c] = (IF c = b THEN all ELSE merged[c])
                       /\ blind'[c] = (IF c = b THEN unread \/ torn ELSE blind[c])
  BY <1>1, <1>2, <1>4
<1>9. JarTypes'
  <2>1. merged' \in [Conns -> SUBSET Cookies] /\ blind' \in [Conns -> BOOLEAN]
    BY <1>1, <1>4, <1>7
  <2> QED
    BY <1>1, <1>4, <1>5, <2>1 DEF JarTypes
<1>10. LossExplained'
  <2>1. torn => jarFaults + serverCrashes > 0
    BY <1>4 DEF JarInv, LossExplained
  <2>2. \A c \in Conns : blind'[c] => jarFaults' + serverCrashes' > 0
    BY <1>5, <1>8, <2>1 DEF JarInv, LossExplained
  <2> QED
    BY <1>1, <1>4, <2>2 DEF LossExplained
<1>11. JarHeld'
  BY <1>1, <1>4, <1>6, <1>7, <1>8 DEF JarInv, JarHeld
<1> QED
  BY <1>4, <1>9, <1>10, <1>11 DEF JarInv, JarClean

\* The end of a merge, with or without a new file.
LEMMA MergedKeeps ==
  ASSUME JarInv, SharedTypes, NEW b \in Conns, EndWrite(b) \/ MergeFails(b)
  PROVE  JarInv' /\ (jar \subseteq jar' \/ JarLoss)
<1>1. /\ jar \in SUBSET Cookies /\ torn \in BOOLEAN /\ jar \cap Forbidden = {}
      /\ merged \in [Conns -> SUBSET Cookies] /\ blind \in [Conns -> BOOLEAN]
      /\ serverCrashes \in 0..MaxServerCrashes /\ jarFaults \in 0..MaxJarFaults /\ NoBrowser \notin Conns
  BY BrowserAssumption DEF JarInv, JarTypes, JarClean
<1>2. browser \in [Conns -> {"none", "starting", "open", "closing", "merging", "writing", "closed", "dead"}]
  BY DEF SharedTypes
<1>3. /\ lock' = NoBrowser /\ merged' = [merged EXCEPT ![b] = {}] /\ blind' = [blind EXCEPT ![b] = FALSE]
      /\ browser' = [browser EXCEPT ![b] = "closed"] /\ serverCrashes' = serverCrashes
      /\ browser[b] \in {"merging", "writing"}
  BY DEF EndWrite, MergeFails, Merged, Unlocked
<1>4. \A c \in Conns : /\ browser'[c] = (IF c = b THEN "closed" ELSE browser[c])
                       /\ merged'[c] = (IF c = b THEN {} ELSE merged[c])
                       /\ blind'[c] = (IF c = b THEN FALSE ELSE blind[c])
  BY <1>1, <1>2, <1>3
<1>5. lock = b /\ merged[b] \cap Forbidden = {} /\ merged[b] \in SUBSET Cookies
      /\ (~blind[b] => jar \subseteq merged[b])
  BY <1>1, <1>3 DEF JarInv, JarHeld
<1>6. \A c \in Conns : browser'[c] \notin {"merging", "writing"} /\ merged'[c] \cap Forbidden = {}
  <2> SUFFICES ASSUME NEW c \in Conns
               PROVE  browser'[c] \notin {"merging", "writing"} /\ merged'[c] \cap Forbidden = {}
    OBVIOUS
  <2>1. CASE c = b
    BY <1>4, <2>1
  <2>2. CASE c # b
    <3>1. browser[c] \notin {"merging", "writing"} /\ merged[c] \cap Forbidden = {}
      BY <1>5, <2>2 DEF JarInv, JarHeld
    <3> QED
      BY <1>4, <2>2, <3>1
  <2> QED
    BY <2>1, <2>2
<1>7. JarHeld'
  BY <1>6 DEF JarHeld
<1>8. /\ jar' \in SUBSET Cookies /\ jar' \cap Forbidden = {} /\ torn' \in BOOLEAN
      /\ jar \subseteq jar' \/ JarLoss
      /\ jarFaults' \in 0..MaxJarFaults
      /\ torn' => jarFaults' + serverCrashes' > 0
      /\ jarFaults + serverCrashes > 0 => jarFaults' + serverCrashes' > 0
  <2>1. CASE EndWrite(b)
    <3>1. jar' = merged[b] /\ torn' = FALSE /\ jarFaults' = jarFaults /\ browser[b] = "writing"
      BY <2>1 DEF EndWrite
    <3> QED
      BY <1>1, <1>3, <1>5, <3>1 DEF JarLoss
  <2>2. CASE MergeFails(b)
    <3>1. jar' = jar /\ torn' = torn /\ Fault(TRUE)
      BY <2>2 DEF MergeFails
    <3>2. jarFaults' \in 0..MaxJarFaults /\ jarFaults' + serverCrashes' > 0
      BY <1>3, <3>1, Faults DEF JarInv
    <3> QED
      BY <1>1, <3>1, <3>2
  <2> QED
    BY <2>1, <2>2
<1>9. JarTypes'
  <2>1. merged' \in [Conns -> SUBSET Cookies] /\ blind' \in [Conns -> BOOLEAN]
    BY <1>1, <1>3
  <2> QED
    BY <1>1, <1>3, <1>8, <2>1 DEF JarTypes
<1>10. LossExplained'
  BY <1>4, <1>8 DEF JarInv, LossExplained
<1> QED
  BY <1>7, <1>8, <1>9, <1>10 DEF JarInv, JarClean

\* The states of a browser that is closed.
LEMMA JarMerges ==
  ASSUME JarInv, SharedTypes, NEW b \in Conns,
         \/ \E found \in SUBSET Cookies, unread \in BOOLEAN : BeginMerge(b, found, unread)
         \/ SkipMerge(b) \/ BeginWrite(b) \/ EndWrite(b) \/ MergeFails(b)
  PROVE  JarInv' /\ (jar \subseteq jar' \/ JarLoss)
<1>1. CASE \E found \in SUBSET Cookies, unread \in BOOLEAN : BeginMerge(b, found, unread)
  BY <1>1, BeginMergeKeeps
<1>2. browser \in [Conns -> {"none", "starting", "open", "closing", "merging", "writing", "closed", "dead"}]
  BY DEF SharedTypes
<1>3. CASE SkipMerge(b)
  <2>1. UNCHANGED jarVars /\ UNCHANGED serverCrashes /\ browser' = [browser EXCEPT ![b] = "closed"]
    BY <1>3 DEF SkipMerge
  <2>2. \A c \in Conns : browser'[c] \in {"merging", "writing"} => browser'[c] = browser[c]
    BY <1>2, <2>1
  <2> QED
    BY <2>1, <2>2, JarQuiet DEF jarVars
<1>4. CASE BeginWrite(b)
  <2>1. /\ browser[b] = "merging" /\ browser' = [browser EXCEPT ![b] = "writing"] /\ torn' = TRUE
        /\ jar' = jar /\ lock' = lock /\ merged' = merged /\ blind' = blind
        /\ jarFaults' = jarFaults /\ serverCrashes' = serverCrashes
    BY <1>4 DEF BeginWrite
  <2>2. lock = b /\ lock # NoBrowser
    BY <2>1, BrowserAssumption DEF JarInv, JarHeld
  <2>3. JarTypes' /\ JarClean' /\ LossExplained'
    BY <2>1, <2>2 DEF JarInv, JarTypes, JarClean, LossExplained
  <2>4. JarHeld'
    BY <1>2, <2>1, <2>2 DEF JarInv, JarHeld
  <2> QED
    BY <2>1, <2>3, <2>4 DEF JarInv
<1> QED
  BY <1>1, <1>3, <1>4, MergedKeeps

-----------------------------------------------------------------------------
(* What connections share.                                                 *)

ScopeFits(s) ==
    Undisturbed(s) =>
        /\ \A c \in Conns : conn[c] = "open" /\ scope[c] = s =>
              holds[c] = current[s] /\ browser[holds[c]] = "open"
        /\ current[s] # NoBrowser => refs[current[s]] = Cardinality(Holders(current[s]))

LEMMA HeldByScope == HeldStaysOpen <=> \A s \in Scopes : ScopeFits(s)
BY DEF HeldStaysOpen, ScopeFits

\* The invariant at a connection and at a scope.
LEMMA SharedFacts ==
  ASSUME SharedInv
  PROVE  /\ SharedTypes /\ RecordsOpen /\ ConnsKnown /\ LaunchesKnown /\ OneBrowserPerScope
         /\ \A s \in Scopes : ScopeFits(s)
         /\ NoBrowser \notin Conns /\ IsFiniteSet(Conns)
BY HeldByScope, BrowserAssumption DEF SharedInv

\* A scope stays as it is if its open connections, their records and its browser do.
LEMMA ScopeKept ==
  ASSUME SharedInv, NEW s \in Scopes,
         \A c \in Conns : scope[c] = s /\ conn[c] # "new" =>
            /\ scope'[c] = s /\ holds'[c] = holds[c] /\ refs'[c] = refs[c]
            /\ conn'[c] = "open" <=> conn[c] = "open"
            /\ browser[c] = "open" => browser'[c] = "open",
         \A c \in Conns : conn'[c] = "open" /\ scope'[c] = s => scope[c] = s /\ conn[c] # "new",
         \A c \in Conns : pageGone[c] => pageGone'[c],
         \A c \in Conns : conn'[c] = "open" => holds'[c] \in Conns /\ scope[holds'[c]] = scope'[c],
         current'[s] = current[s]
  PROVE  ScopeFits(s)'
<1>1. /\ SharedTypes /\ RecordsOpen /\ ConnsKnown /\ ScopeFits(s) /\ NoBrowser \notin Conns
  BY SharedFacts
<1> SUFFICES ASSUME Undisturbed(s)' PROVE ScopeFits(s)'
  BY DEF ScopeFits
<1>2. Undisturbed(s)
  BY <1>1 DEF Undisturbed, ConnsKnown
<1>3. ASSUME NEW c \in Conns, conn'[c] = "open", scope'[c] = s
      PROVE  holds'[c] = current'[s] /\ browser'[holds'[c]] = "open"
  <2>1. scope[c] = s /\ conn[c] # "new"
    BY <1>3
  <2>2. conn[c] = "open" /\ holds'[c] = holds[c]
    BY <1>3, <2>1
  <2>3. holds[c] = current[s] /\ browser[holds[c]] = "open" /\ holds[c] \in Conns /\ scope[holds[c]] = s
    BY <1>1, <1>2, <2>1, <2>2 DEF ScopeFits, ConnsKnown
  <2>4. conn[holds[c]] # "new"
    BY <1>1, <2>3 DEF ConnsKnown
  <2> QED
    BY <2>2, <2>3, <2>4
<1>4. ASSUME current'[s] # NoBrowser
      PROVE  refs'[current'[s]] = Cardinality({c \in Conns : conn'[c] = "open" /\ holds'[c] = current'[s]})
  <2> PICK b : b = current[s]
    OBVIOUS
  <2>1. b \in Conns /\ scope[b] = s /\ browser[b] = "open" /\ refs[b] = Cardinality(Holders(b))
    BY <1>1, <1>2, <1>4 DEF SharedTypes, ConnsKnown, RecordsOpen, ScopeFits
  <2>2. conn[b] # "new"
    BY <1>1, <2>1 DEF ConnsKnown
  <2>3. ASSUME NEW d \in Conns
        PROVE  conn'[d] = "open" /\ holds'[d] = b <=> conn[d] = "open" /\ holds[d] = b
    <3>1. ASSUME conn'[d] = "open", holds'[d] = b PROVE conn[d] = "open" /\ holds[d] = b
      <4>1. scope'[d] = s
        BY <2>1, <3>1
      <4> QED
        BY <3>1, <4>1
    <3>2. ASSUME conn[d] = "open", holds[d] = b PROVE conn'[d] = "open" /\ holds'[d] = b
      <4>1. scope[d] = s
        BY <1>1, <2>1, <3>2 DEF ConnsKnown
      <4> QED
        BY <3>2, <4>1
    <3> QED
      BY <3>1, <3>2
  <2>4. {c \in Conns : conn'[c] = "open" /\ holds'[c] = b} = Holders(b)
    BY <2>3 DEF Holders
  <2>5. current'[s] = b /\ refs'[b] = refs[b]
    BY <2>1, <2>2
  <2> QED
    BY <2>1, <2>4, <2>5
<1>5. (\A c \in Conns : conn[c] = "open" /\ scope[c] = s =>
              holds[c] = current[s] /\ browser[holds[c]] = "open")'
  BY <1>3
<1>6. (current[s] # NoBrowser => refs[current[s]] = Cardinality(Holders(current[s])))'
  BY <1>4 DEF Holders
<1> QED
  BY <1>5, <1>6 DEF ScopeFits

\* A request that shares nothing yet: it waits for a launch, or begins one.
LEMMA SharedRequests ==
  ASSUME SharedInv, NEW c \in Conns, NEW s \in Scopes, Join(c, s) \/ Launch(c, s)
  PROVE  SharedInv'
<1>1. /\ SharedTypes /\ RecordsOpen /\ ConnsKnown /\ LaunchesKnown /\ OneBrowserPerScope
      /\ NoBrowser \notin Conns
  BY SharedFacts
<1>2. /\ conn[c] = "new" /\ scope' = [scope EXCEPT ![c] = s] /\ ~Usable(current[s])
      /\ holds' = holds /\ current' = current /\ refs' = refs /\ pageGone' = pageGone
      /\ \/ /\ conn' = [conn EXCEPT ![c] = "joining"] /\ inFlight' = inFlight /\ browser' = browser
         \/ /\ conn' = [conn EXCEPT ![c] = "launching"] /\ inFlight[s] = NoBrowser
            /\ inFlight' = [inFlight EXCEPT ![s] = c] /\ browser' = [browser EXCEPT ![c] = "starting"]
  BY DEF Join, Launch, Request, MayLaunch, managerVars
<1>3. browser[c] = "none" /\ ~pageGone[c]
  BY <1>1, <1>2 DEF ConnsKnown
<1>4. SharedTypes'
  BY <1>1, <1>2 DEF SharedTypes
<1>5. \A d \in Conns : /\ scope'[d] = (IF d = c THEN s ELSE scope[d]) /\ (d # c => conn'[d] = conn[d])
                       /\ conn'[c] \in {"joining", "launching"} /\ (d # c => browser'[d] = browser[d])
                       /\ browser'[c] \in {"none", "starting"}
  BY <1>1, <1>2, <1>3 DEF SharedTypes
<1>6. RecordsOpen'
  BY <1>1, <1>2, <1>3, <1>5 DEF RecordsOpen, SharedTypes
<1>7. ASSUME NEW t \in Scopes PROVE ScopeFits(t)'
  BY <1>1, <1>2, <1>3, <1>5, ScopeKept DEF ConnsKnown
<1>8. ConnsKnown'
  <2>1. \A d \in Conns : conn'[d] = "open" => d # c /\ conn[d] = "open" /\ holds[d] # c
    BY <1>1, <1>3, <1>5 DEF ConnsKnown
  <2>2. \A t \in Scopes : current[t] # c
    BY <1>1, <1>3, <1>2 DEF RecordsOpen
  <2> QED
    BY <1>1, <1>2, <1>5, <2>1, <2>2 DEF ConnsKnown, SharedTypes
<1>9. LaunchesKnown'
  <2>1. \A t \in Scopes : Usable(current[t])' <=> Usable(current[t])
    BY <1>1, <1>2, <1>3, <1>5 DEF Usable, SharedTypes
  <2>2. \A d \in Conns : browser[d] = "starting" => scope[d] \in Scopes
    BY <1>1 DEF LaunchesKnown, ConnsKnown
  <2>3. \A t \in Scopes : inFlight'[t] # NoBrowser => ~Usable(current[t])
    BY <1>1, <1>2 DEF LaunchesKnown, SharedTypes
  <2>4. \A d \in Conns : browser'[d] = "starting" => conn'[d] = "launching" /\ inFlight'[scope'[d]] = d
    BY <1>1, <1>2, <1>3, <1>5, <2>2 DEF LaunchesKnown, SharedTypes
  <2>5. \A d \in Conns : browser'[d] = "open" /\ ~pageGone'[d] => current'[scope'[d]] = d
    BY <1>1, <1>2, <1>3, <1>5 DEF LaunchesKnown
  <2> QED
    BY <1>2, <2>1, <2>3, <2>4, <2>5 DEF LaunchesKnown
<1>10. OneBrowserPerScope'
  <2>1. ASSUME browser'[c] = "starting", NEW d \in Conns, d # c, scope[d] = s, browser[d] \in {"starting", "open"}
        PROVE  pageGone[d]
    <3>1. inFlight[s] = NoBrowser
      BY <1>2, <1>3, <2>1
    <3>2. browser[d] = "open"
      BY <1>1, <2>1, <3>1 DEF LaunchesKnown
    <3>3. pageGone[d] \/ current[s] = d
      BY <1>1, <2>1, <3>2 DEF LaunchesKnown
    <3> QED
      BY <1>1, <1>2, <3>2, <3>3 DEF Usable
  <2> QED
    BY <1>1, <1>2, <1>3, <1>5, <2>1 DEF OneBrowserPerScope
<1> QED
  BY <1>4, <1>6, <1>7, <1>8, <1>9, <1>10 DEF SharedInv, HeldStaysOpen, ScopeFits

\* A page closes.
LEMMA SharedPages ==
  ASSUME SharedInv, NEW b \in Conns, PageCloses(b)
  PROVE  SharedInv'
<1>1. /\ SharedTypes /\ RecordsOpen /\ ConnsKnown /\ LaunchesKnown /\ OneBrowserPerScope
  BY SharedFacts
<1>2. /\ browser[b] = "open" /\ pageGone' = [pageGone EXCEPT ![b] = TRUE]
      /\ conn' = conn /\ scope' = scope /\ holds' = holds /\ current' = current /\ inFlight' = inFlight
      /\ refs' = refs /\ browser' = browser
  BY DEF PageCloses, connVars, managerVars
<1>3. SharedTypes'
  BY <1>1, <1>2 DEF SharedTypes
<1>4. \A d \in Conns : pageGone[d] => pageGone'[d]
  BY <1>1, <1>2 DEF SharedTypes
<1>5. conn[b] # "new"
  BY <1>1, <1>2 DEF ConnsKnown
<1>6. \A d \in Conns : d # b => pageGone'[d] = pageGone[d]
  BY <1>1, <1>2 DEF SharedTypes
<1>7. ASSUME NEW t \in Scopes PROVE ScopeFits(t)'
  <2>1. \A d \in Conns : conn[d] = "open" => holds[d] \in Conns /\ scope[holds[d]] = scope[d]
    BY <1>1 DEF ConnsKnown
  <2> QED
    BY <1>2, <1>4, <2>1, ScopeKept
<1>8. RecordsOpen' /\ ConnsKnown'
  BY <1>1, <1>2, <1>5, <1>6 DEF RecordsOpen, ConnsKnown
<1>9. LaunchesKnown'
  <2>1. \A t \in Scopes : Usable(current[t])' => Usable(current[t])
    BY <1>1, <1>2, <1>4 DEF Usable, SharedTypes
  <2> QED
    BY <1>1, <1>2, <1>4, <2>1 DEF LaunchesKnown
<1>10. OneBrowserPerScope'
  BY <1>1, <1>2, <1>4 DEF OneBrowserPerScope
<1> QED
  BY <1>3, <1>7, <1>8, <1>9, <1>10 DEF SharedInv, HeldStaysOpen, ScopeFits

\* A browser that closes goes on; no record is left for it.
LEMMA SharedMerges ==
  ASSUME SharedInv, NEW b \in Conns,
         \/ \E found \in SUBSET Cookies, unread \in BOOLEAN : BeginMerge(b, found, unread)
         \/ SkipMerge(b) \/ BeginWrite(b) \/ EndWrite(b) \/ MergeFails(b)
  PROVE  SharedInv'
<1>1. SharedTypes /\ RecordsOpen /\ ConnsKnown /\ LaunchesKnown /\ OneBrowserPerScope /\ NoBrowser \notin Conns
  BY SharedFacts
<1>2. /\ browser[b] \in {"closing", "merging", "writing"}
      /\ \E state \in {"merging", "writing", "closed"} : browser' = [browser EXCEPT ![b] = state]
      /\ conn' = conn /\ scope' = scope /\ holds' = holds /\ current' = current /\ inFlight' = inFlight
      /\ refs' = refs /\ pageGone' = pageGone
  BY DEF BeginMerge, SkipMerge, BeginWrite, EndWrite, MergeFails, Merged, connVars, managerVars
<1>3. /\ browser' \in [Conns -> {"none", "starting", "open", "closing", "merging", "writing", "closed", "dead"}]
      /\ \A d \in Conns : d # b => browser'[d] = browser[d]
      /\ browser'[b] \in {"merging", "writing", "closed"}
  BY <1>1, <1>2 DEF SharedTypes
<1>4. SharedTypes'
  BY <1>1, <1>2, <1>3 DEF SharedTypes
<1>5. RecordsOpen'
  BY <1>1, <1>2, <1>3 DEF RecordsOpen, SharedTypes
<1>6. ConnsKnown'
  BY <1>1, <1>2, <1>3 DEF ConnsKnown
<1>7. LaunchesKnown'
  <2>1. \A t \in Scopes : Usable(current[t])' => Usable(current[t])
    BY <1>1, <1>2, <1>3 DEF Usable, SharedTypes
  <2> QED
    BY <1>1, <1>2, <1>3, <2>1 DEF LaunchesKnown
<1>8. ASSUME NEW t \in Scopes PROVE ScopeFits(t)'
  <2>1. \A d \in Conns : conn[d] = "open" => holds[d] \in Conns /\ scope[holds[d]] = scope[d]
    BY <1>1 DEF ConnsKnown
  <2>2. \A d \in Conns : browser[d] = "open" => browser'[d] = "open"
    BY <1>2, <1>3
  <2> QED
    BY <1>2, <2>1, <2>2, ScopeKept
<1>9. OneBrowserPerScope'
  BY <1>1, <1>2, <1>3 DEF OneBrowserPerScope
<1> QED
  BY <1>4, <1>5, <1>6, <1>7, <1>8, <1>9 DEF SharedInv, HeldStaysOpen, ScopeFits

\* The process dies: no connection is open, and no record is left.
LEMMA SharedCrash ==
  ASSUME SharedInv, ServerCrash
  PROVE  SharedInv'
<1>1. SharedTypes /\ ConnsKnown
  BY SharedFacts
<1>2. /\ scope' = scope /\ pageGone' = pageGone
      /\ conn' = [c \in Conns |-> IF conn[c] = "new" THEN "new" ELSE "gone"]
      /\ holds' = [c \in Conns |-> NoBrowser]
      /\ current' = [s \in Scopes |-> NoBrowser] /\ inFlight' = [s \in Scopes |-> NoBrowser]
      /\ browser' = [c \in Conns |-> IF browser[c] = "none" THEN "none" ELSE "dead"]
      /\ refs' = [c \in Conns |-> 0]
  BY DEF ServerCrash
<1>3. SharedTypes'
  BY <1>1, <1>2 DEF SharedTypes
<1>4. RecordsOpen' /\ LaunchesKnown' /\ OneBrowserPerScope'
  BY <1>2 DEF RecordsOpen, LaunchesKnown, OneBrowserPerScope
<1>5. ConnsKnown'
  BY <1>1, <1>2 DEF ConnsKnown
<1>6. HeldStaysOpen'
  BY <1>2 DEF HeldStaysOpen
<1> QED
  BY <1>3, <1>4, <1>5, <1>6 DEF SharedInv

\* A launch fails: those who waited for it are gone.
LEMMA SharedFails ==
  ASSUME SharedInv, NEW c \in Conns, LaunchFails(c)
  PROVE  SharedInv'
<1>1. SharedTypes /\ RecordsOpen /\ ConnsKnown /\ LaunchesKnown /\ OneBrowserPerScope /\ NoBrowser \notin Conns
  BY SharedFacts
<1>2. /\ browser[c] = "starting" /\ browser' = [browser EXCEPT ![c] = "closed"]
      /\ inFlight' = [inFlight EXCEPT ![scope[c]] = NoBrowser]
      /\ conn' = [d \in Conns |-> IF d \in Waiting(c) THEN "gone" ELSE conn[d]]
      /\ scope' = scope /\ holds' = holds /\ current' = current /\ refs' = refs /\ pageGone' = pageGone
  BY DEF LaunchFails
<1>3. conn[c] = "launching" /\ scope[c] \in Scopes /\ inFlight[scope[c]] = c
  BY <1>1, <1>2 DEF LaunchesKnown, ConnsKnown
<1>4. \A d \in Conns : /\ conn'[d] = "gone" \/ conn'[d] = conn[d]
                       /\ conn[d] \in {"new", "open"} => conn'[d] = conn[d]
                       /\ conn[d] = "launching" /\ d # c => conn'[d] = conn[d]
                       /\ browser'[d] = (IF d = c THEN "closed" ELSE browser[d])
  BY <1>1, <1>2, <1>3 DEF SharedTypes, Waiting
<1>5. \A t \in Scopes : inFlight'[t] = IF t = scope[c] THEN NoBrowser ELSE inFlight[t]
  BY <1>1, <1>2, <1>3 DEF SharedTypes
<1>6. SharedTypes'
  BY <1>1, <1>2 DEF SharedTypes
<1>7. RecordsOpen'
  BY <1>1, <1>2, <1>4 DEF RecordsOpen, SharedTypes
<1>8. ConnsKnown'
  BY <1>1, <1>2, <1>4 DEF ConnsKnown
<1>9. LaunchesKnown'
  <2>1. \A t \in Scopes : Usable(current[t])' => Usable(current[t])
    BY <1>1, <1>2, <1>4 DEF Usable, SharedTypes
  <2>2. ASSUME NEW d \in Conns, browser'[d] = "starting"
        PROVE  conn'[d] = "launching" /\ inFlight'[scope'[d]] = d
    <3>1. d # c /\ browser[d] = "starting"
      BY <1>4, <2>2
    <3>2. conn[d] = "launching" /\ inFlight[scope[d]] = d /\ scope[d] \in Scopes
      BY <1>1, <3>1 DEF LaunchesKnown, ConnsKnown
    <3> QED
      BY <1>2, <1>3, <1>4, <1>5, <3>1, <3>2
  <2>3. \A t \in Scopes : inFlight'[t] # NoBrowser => ~Usable(current[t])
    BY <1>1, <1>5 DEF LaunchesKnown
  <2>4. \A d \in Conns : browser'[d] = "open" /\ ~pageGone'[d] => current'[scope'[d]] = d
    BY <1>1, <1>2, <1>4 DEF LaunchesKnown
  <2> QED
    BY <2>1, <2>2, <2>3, <2>4 DEF LaunchesKnown
<1>10. ASSUME NEW t \in Scopes PROVE ScopeFits(t)'
  <2>1. \A d \in Conns : conn'[d] = "open" => conn[d] = "open"
    BY <1>4
  <2>2. \A d \in Conns : conn[d] = "open" => holds[d] \in Conns /\ scope[holds[d]] = scope[d]
    BY <1>1 DEF ConnsKnown
  <2>3. \A d \in Conns : browser[d] = "open" => browser'[d] = "open"
    BY <1>2, <1>4
  <2> QED
    BY <1>2, <1>4, <2>1, <2>2, <2>3, ScopeKept
<1>11. OneBrowserPerScope'
  BY <1>1, <1>2, <1>4 DEF OneBrowserPerScope
<1> QED
  BY <1>6, <1>7, <1>8, <1>9, <1>10, <1>11 DEF SharedInv, HeldStaysOpen, ScopeFits

\* A connection shares the record of its scope.
LEMMA SharedAttach ==
  ASSUME SharedInv, NEW c \in Conns, NEW s \in Scopes, Attach(c, s)
  PROVE  SharedInv'
<1>1. /\ SharedTypes /\ RecordsOpen /\ ConnsKnown /\ LaunchesKnown /\ OneBrowserPerScope
      /\ NoBrowser \notin Conns /\ IsFiniteSet(Conns) /\ \A t \in Scopes : ScopeFits(t)
  BY SharedFacts
<1> PICK b : b = current[s]
  OBVIOUS
<1>2. /\ conn[c] = "new" /\ scope' = [scope EXCEPT ![c] = s] /\ conn' = [conn EXCEPT ![c] = "open"]
      /\ b # NoBrowser /\ browser[b] = "open" /\ ~pageGone[b]
      /\ refs' = [refs EXCEPT ![b] = @ + 1] /\ holds' = [holds EXCEPT ![c] = b]
      /\ current' = current /\ inFlight' = inFlight /\ browser' = browser /\ pageGone' = pageGone
  BY DEF Attach, Request, Usable
<1>3. b \in Conns /\ scope[b] = s /\ conn[b] # "new" /\ b # c /\ refs[b] >= 1
  BY <1>1, <1>2 DEF SharedTypes, ConnsKnown, RecordsOpen
<1>4. browser[c] = "none" /\ ~pageGone[c]
  BY <1>1, <1>2 DEF ConnsKnown
<1>5. \A d \in Conns : /\ scope'[d] = (IF d = c THEN s ELSE scope[d])
                       /\ conn'[d] = (IF d = c THEN "open" ELSE conn[d])
                       /\ holds'[d] = (IF d = c THEN b ELSE holds[d])
                       /\ refs'[d] = (IF d = b THEN refs[b] + 1 ELSE refs[d])
  BY <1>1, <1>2, <1>3 DEF SharedTypes
<1>6. SharedTypes'
  BY <1>1, <1>2, <1>3 DEF SharedTypes
<1>7. RecordsOpen'
  <2>1. \A t \in Scopes : current[t] # NoBrowser => current[t] \in Conns /\ refs[current[t]] \in Int
    BY <1>1 DEF SharedTypes
  <2> QED
    BY <1>1, <1>2, <1>5, <2>1 DEF RecordsOpen
<1>8. ConnsKnown'
  <2>1. \A t \in Scopes : current[t] # NoBrowser => current[t] \in Conns /\ current[t] # c
    BY <1>1, <1>2, <1>4 DEF RecordsOpen, SharedTypes
  <2>2. \A d \in Conns : conn[d] = "open" => holds[d] \in Conns /\ holds[d] # c
    BY <1>1, <1>4 DEF ConnsKnown
  <2>3. \A d \in Conns : conn'[d] = "new" => browser'[d] = "none" /\ ~pageGone'[d]
    BY <1>1, <1>2, <1>5 DEF ConnsKnown
  <2>4. \A d \in Conns : conn'[d] # "new" => scope'[d] \in Scopes
    BY <1>1, <1>5 DEF ConnsKnown
  <2>5. \A d \in Conns : conn'[d] = "open" => holds'[d] \in Conns /\ scope'[holds'[d]] = scope'[d]
    BY <1>1, <1>3, <1>5, <2>2 DEF ConnsKnown
  <2>6. \A d \in Conns : browser'[d] \in {"none", "starting"} => \A e \in Conns : conn'[e] = "open" => holds'[e] # d
    BY <1>1, <1>2, <1>5 DEF ConnsKnown
  <2>7. \A t \in Scopes : current'[t] # NoBrowser => scope'[current'[t]] = t
    BY <1>1, <1>2, <1>5, <2>1 DEF ConnsKnown
  <2> QED
    BY <2>3, <2>4, <2>5, <2>6, <2>7 DEF ConnsKnown
<1>9. LaunchesKnown'
  <2>1. \A t \in Scopes : Usable(current[t])' <=> Usable(current[t])
    BY <1>2 DEF Usable
  <2> QED
    BY <1>1, <1>2, <1>4, <1>5, <2>1 DEF LaunchesKnown
<1>10. OneBrowserPerScope'
  BY <1>1, <1>2, <1>4, <1>5 DEF OneBrowserPerScope
<1>11. ASSUME NEW t \in Scopes, t # s PROVE ScopeFits(t)'
  <2>1. \A d \in Conns : scope[d] = t /\ conn[d] # "new" => d # c /\ d # b
    BY <1>2, <1>3, <1>11
  <2>2. \A d \in Conns : conn'[d] = "open" /\ scope'[d] = t => scope[d] = t /\ conn[d] # "new"
    BY <1>5, <1>11
  <2>3. \A d \in Conns : conn'[d] = "open" => holds'[d] \in Conns /\ scope[holds'[d]] = scope'[d]
    BY <1>1, <1>3, <1>5 DEF ConnsKnown
  <2>4. \A d \in Conns : scope[d] = t /\ conn[d] # "new" =>
            /\ scope'[d] = t /\ holds'[d] = holds[d] /\ refs'[d] = refs[d]
            /\ conn'[d] = "open" <=> conn[d] = "open"
            /\ browser[d] = "open" => browser'[d] = "open"
    BY <1>2, <1>5, <2>1
  <2> QED
    BY <1>2, <2>2, <2>3, <2>4, ScopeKept
<1>12. ScopeFits(s)'
  <2> SUFFICES ASSUME Undisturbed(s)' PROVE ScopeFits(s)'
    BY DEF ScopeFits
  <2>1. Undisturbed(s)
    BY <1>2, <1>4, <1>5 DEF Undisturbed
  <2>2. \A d \in Conns : conn[d] = "open" /\ scope[d] = s => holds[d] = b
    BY <1>1, <2>1 DEF ScopeFits
  <2>3. refs[b] = Cardinality(Holders(b))
    BY <1>1, <1>2, <2>1 DEF ScopeFits
  <2>4. Holders(b) \subseteq Conns /\ c \notin Holders(b)
    BY <1>2 DEF Holders
  <2>5. IsFiniteSet(Holders(b))
    BY <1>1, <2>4, FS_Subset
  <2>6. Cardinality(Holders(b) \cup {c}) = refs[b] + 1
    BY <2>3, <2>4, <2>5, FS_AddElement
  <2>7. {d \in Conns : conn'[d] = "open" /\ holds'[d] = b} = Holders(b) \cup {c}
    BY <1>5 DEF Holders
  <2>8. refs'[b] = Cardinality({d \in Conns : conn'[d] = "open" /\ holds'[d] = b})
    BY <1>3, <1>5, <2>6, <2>7
  <2>9. \A d \in Conns : conn'[d] = "open" /\ scope'[d] = s => holds'[d] = b
    BY <1>5, <2>2
  <2>10. (\A d \in Conns : conn[d] = "open" /\ scope[d] = s =>
              holds[d] = current[s] /\ browser[holds[d]] = "open")'
    BY <1>2, <2>9
  <2>11. (current[s] # NoBrowser => refs[current[s]] = Cardinality(Holders(current[s])))'
    BY <1>2, <2>8 DEF Holders
  <2> QED
    BY <2>10, <2>11 DEF ScopeFits
<1> QED
  BY <1>6, <1>7, <1>8, <1>9, <1>10, <1>11, <1>12 DEF SharedInv, HeldStaysOpen, ScopeFits

\* A launch ends: all who waited for it share the new record.
LEMMA SharedLaunched ==
  ASSUME SharedInv, NEW c \in Conns, Launched(c)
  PROVE  SharedInv'
<1>1. /\ SharedTypes /\ RecordsOpen /\ ConnsKnown /\ LaunchesKnown /\ OneBrowserPerScope
      /\ NoBrowser \notin Conns /\ IsFiniteSet(Conns) /\ \A t \in Scopes : ScopeFits(t)
  BY SharedFacts
<1> PICK s : s = scope[c]
  OBVIOUS
<1> PICK W : W = Waiting(c)
  OBVIOUS
<1>2. /\ browser[c] = "starting" /\ browser' = [browser EXCEPT ![c] = "open"]
      /\ refs' = [refs EXCEPT ![c] = Cardinality(W)]
      /\ current' = [current EXCEPT ![s] = c] /\ inFlight' = [inFlight EXCEPT ![s] = NoBrowser]
      /\ conn' = [d \in Conns |-> IF d \in W THEN "open" ELSE conn[d]]
      /\ holds' = [d \in Conns |-> IF d \in W THEN c ELSE holds[d]]
      /\ scope' = scope /\ pageGone' = pageGone
  BY DEF Launched, FirstCount
<1>3. conn[c] = "launching" /\ s \in Scopes /\ inFlight[s] = c /\ ~Usable(current[s])
  BY <1>1, <1>2 DEF LaunchesKnown, ConnsKnown
<1>4. /\ W \subseteq Conns /\ c \in W
      /\ \A d \in W : scope[d] = s /\ conn[d] \in {"joining", "launching"} /\ (d # c => conn[d] = "joining")
      /\ \A d \in Conns : conn[d] = "joining" /\ scope[d] = s => d \in W
  BY <1>3 DEF Waiting
<1>5. Cardinality(W) \in Nat /\ Cardinality(W) >= 1
  <2>1. IsFiniteSet(W)
    BY <1>1, <1>4, FS_Subset
  <2>2. Cardinality(W) \in Nat /\ Cardinality(W) # 0
    BY <1>4, <2>1, FS_CardinalityType, FS_EmptySet
  <2> QED
    BY <2>2
<1>6. \A d \in Conns : /\ browser'[d] = (IF d = c THEN "open" ELSE browser[d])
                       /\ refs'[d] = (IF d = c THEN Cardinality(W) ELSE refs[d])
                       /\ conn'[d] = (IF d \in W THEN "open" ELSE conn[d])
                       /\ holds'[d] = (IF d \in W THEN c ELSE holds[d])
  BY <1>1, <1>2 DEF SharedTypes
<1>7. \A t \in Scopes : /\ current'[t] = (IF t = s THEN c ELSE current[t])
                        /\ inFlight'[t] = (IF t = s THEN NoBrowser ELSE inFlight[t])
  BY <1>1, <1>2 DEF SharedTypes
<1>8. SharedTypes'
  <2>1. Cardinality(W) \in Int
    BY <1>5
  <2>2. conn' \in [Conns -> {"new", "launching", "joining", "open", "gone"}] /\ holds' \in [Conns -> Conns \cup {NoBrowser}]
    BY <1>1, <1>2 DEF SharedTypes
  <2> QED
    BY <1>1, <1>2, <2>1, <2>2 DEF SharedTypes
<1>9. \A t \in Scopes : current[t] # NoBrowser => current[t] \in Conns /\ current[t] # c /\ scope[current[t]] = t
  BY <1>1, <1>2 DEF SharedTypes, RecordsOpen, ConnsKnown
<1>10. RecordsOpen'
  BY <1>1, <1>5, <1>6, <1>7, <1>9 DEF RecordsOpen
<1>11. ConnsKnown'
  <2>1. \A d \in Conns : conn'[d] = "new" => browser'[d] = "none" /\ ~pageGone'[d]
    BY <1>1, <1>2, <1>4, <1>6 DEF ConnsKnown
  <2>2. \A d \in Conns : conn'[d] # "new" => scope'[d] \in Scopes
    BY <1>1, <1>2, <1>3, <1>4, <1>6 DEF ConnsKnown
  <2>3. \A d \in Conns : conn'[d] = "open" => holds'[d] \in Conns /\ scope'[holds'[d]] = scope'[d]
    BY <1>1, <1>2, <1>4, <1>6 DEF ConnsKnown
  <2>4. \A d \in Conns : browser'[d] \in {"none", "starting"} => \A e \in Conns : conn'[e] = "open" => holds'[e] # d
    BY <1>1, <1>6 DEF ConnsKnown
  <2>5. \A t \in Scopes : current'[t] # NoBrowser => scope'[current'[t]] = t
    BY <1>2, <1>7, <1>9
  <2> QED
    BY <2>1, <2>2, <2>3, <2>4, <2>5 DEF ConnsKnown
<1>12. LaunchesKnown'
  <2>1. \A t \in Scopes : t # s => (Usable(current[t])' <=> Usable(current[t]))
    BY <1>2, <1>6, <1>7, <1>9 DEF Usable
  <2>2. ASSUME NEW d \in Conns, browser'[d] = "starting"
        PROVE  conn'[d] = "launching" /\ inFlight'[scope'[d]] = d
    <3>1. d # c /\ browser[d] = "starting"
      BY <1>6, <2>2
    <3>2. conn[d] = "launching" /\ inFlight[scope[d]] = d /\ scope[d] \in Scopes
      BY <1>1, <3>1 DEF LaunchesKnown, ConnsKnown
    <3>3. scope[d] # s /\ d \notin W
      BY <1>3, <1>4, <3>1, <3>2
    <3> QED
      BY <1>2, <1>6, <1>7, <3>2, <3>3
  <2>3. \A t \in Scopes : inFlight'[t] # NoBrowser => ~Usable(current[t])'
    BY <1>1, <1>7, <2>1 DEF LaunchesKnown
  <2>4. ASSUME NEW d \in Conns, browser'[d] = "open", ~pageGone'[d] PROVE current'[scope'[d]] = d
    <3>1. CASE d = c
      BY <1>2, <1>3, <1>7, <3>1
    <3>2. CASE d # c
      <4>1. browser[d] = "open" /\ ~pageGone[d] /\ d # NoBrowser
        BY <1>1, <1>2, <1>6, <2>4, <3>2
      <4>2. current[scope[d]] = d /\ scope[d] \in Scopes
        BY <1>1, <4>1 DEF LaunchesKnown, ConnsKnown
      <4>3. scope[d] # s
        BY <1>3, <4>1, <4>2 DEF Usable
      <4> QED
        BY <1>2, <1>7, <4>2, <4>3
    <3> QED
      BY <3>1, <3>2
  <2> QED
    BY <2>2, <2>3, <2>4 DEF LaunchesKnown
<1>13. OneBrowserPerScope'
  BY <1>1, <1>2, <1>6 DEF OneBrowserPerScope
<1>14. ASSUME NEW t \in Scopes, t # s PROVE ScopeFits(t)'
  <2>1. \A d \in Conns : scope[d] = t => d # c /\ d \notin W
    BY <1>4, <1>14
  <2>2. \A d \in Conns : conn'[d] = "open" /\ scope'[d] = t => scope[d] = t /\ conn[d] # "new"
    BY <1>2, <1>6, <2>1
  <2>3. \A d \in Conns : conn'[d] = "open" => holds'[d] \in Conns /\ scope[holds'[d]] = scope'[d]
    BY <1>1, <1>2, <1>4, <1>6 DEF ConnsKnown
  <2>4. \A d \in Conns : scope[d] = t /\ conn[d] # "new" =>
            /\ scope'[d] = t /\ holds'[d] = holds[d] /\ refs'[d] = refs[d]
            /\ conn'[d] = "open" <=> conn[d] = "open"
            /\ browser[d] = "open" => browser'[d] = "open"
    BY <1>2, <1>6, <2>1
  <2>5. current'[t] = current[t]
    BY <1>7, <1>14
  <2> QED
    BY <1>2, <2>2, <2>3, <2>4, <2>5, ScopeKept
<1>15. ScopeFits(s)'
  <2> SUFFICES ASSUME Undisturbed(s)' PROVE ScopeFits(s)'
    BY DEF ScopeFits
  <2>1. Undisturbed(s)
    BY <1>2 DEF Undisturbed
  <2>2. current[s] = NoBrowser
    <3> SUFFICES ASSUME current[s] # NoBrowser PROVE FALSE
      OBVIOUS
    <3>1. current[s] \in Conns /\ scope[current[s]] = s /\ browser[current[s]] = "open"
      BY <1>1, <1>3, <1>9 DEF RecordsOpen
    <3> QED
      BY <1>3, <2>1, <3>1 DEF Undisturbed, Usable
  <2>3. \A d \in Conns : conn[d] = "open" => scope[d] # s
    BY <1>1, <1>3, <2>1, <2>2 DEF ScopeFits, ConnsKnown
  <2>4. \A d \in Conns : conn[d] = "open" => holds[d] # c
    BY <1>1, <1>2 DEF ConnsKnown
  <2>5. {d \in Conns : conn'[d] = "open" /\ holds'[d] = c} = W
    BY <1>4, <1>6, <2>4
  <2>6. refs'[c] = Cardinality({d \in Conns : conn'[d] = "open" /\ holds'[d] = c})
    BY <1>6, <2>5
  <2>7. \A d \in Conns : conn'[d] = "open" /\ scope'[d] = s => holds'[d] = c
    BY <1>2, <1>6, <2>3
  <2>8. current'[s] = c /\ browser'[c] = "open"
    BY <1>3, <1>6, <1>7
  <2>9. (\A d \in Conns : conn[d] = "open" /\ scope[d] = s =>
              holds[d] = current[s] /\ browser[holds[d]] = "open")'
    BY <2>7, <2>8
  <2>10. (current[s] # NoBrowser => refs[current[s]] = Cardinality(Holders(current[s])))'
    BY <2>6, <2>8 DEF Holders
  <2> QED
    BY <2>9, <2>10 DEF ScopeFits
<1> QED
  BY <1>8, <1>10, <1>11, <1>12, <1>13, <1>14, <1>15 DEF SharedInv, HeldStaysOpen, ScopeFits

\* A connection is released: the record of its scope goes with the last one.
LEMMA SharedReleases ==
  ASSUME SharedInv, NEW c \in Conns, Release(c)
  PROVE  SharedInv'
<1>1. /\ SharedTypes /\ RecordsOpen /\ ConnsKnown /\ LaunchesKnown /\ OneBrowserPerScope
      /\ NoBrowser \notin Conns /\ IsFiniteSet(Conns) /\ \A t \in Scopes : ScopeFits(t)
  BY SharedFacts
<1> PICK s : s = scope[c]
  OBVIOUS
<1> PICK b : b = current[s]
  OBVIOUS
<1>2. /\ conn[c] = "open" /\ conn' = [conn EXCEPT ![c] = "gone"] /\ holds' = [holds EXCEPT ![c] = NoBrowser]
      /\ scope' = scope /\ inFlight' = inFlight /\ pageGone' = pageGone
      /\ \/ b = NoBrowser /\ refs' = refs /\ current' = current /\ browser' = browser
         \/ /\ b # NoBrowser /\ refs[b] <= 1
            /\ refs' = [refs EXCEPT ![b] = 0] /\ current' = [current EXCEPT ![s] = NoBrowser]
            /\ browser' = [browser EXCEPT ![b] = "closing"]
         \/ /\ b # NoBrowser /\ ~(refs[b] <= 1)
            /\ refs' = [refs EXCEPT ![b] = @ - 1] /\ current' = [current EXCEPT ![s] = @]
            /\ browser' = [browser EXCEPT ![b] = @]
  BY DEF Release, Dropped
<1>3. s \in Scopes /\ holds[c] \in Conns /\ scope[holds[c]] = s
  BY <1>1, <1>2 DEF ConnsKnown
<1>4. b # NoBrowser => b \in Conns /\ scope[b] = s /\ refs[b] >= 1 /\ browser[b] = "open" /\ refs[b] \in Int
  BY <1>1, <1>3 DEF SharedTypes, ConnsKnown, RecordsOpen
<1>5. \A d \in Conns : /\ conn'[d] = (IF d = c THEN "gone" ELSE conn[d])
                       /\ holds'[d] = (IF d = c THEN NoBrowser ELSE holds[d])
  BY <1>1, <1>2 DEF SharedTypes
\* What becomes of the record.
<1>6. \/ /\ b = NoBrowser /\ \A d \in Conns : refs'[d] = refs[d] /\ browser'[d] = browser[d]
         /\ \A t \in Scopes : current'[t] = current[t]
      \/ /\ b # NoBrowser /\ refs[b] = 1
         /\ \A d \in Conns : /\ refs'[d] = (IF d = b THEN 0 ELSE refs[d])
                             /\ browser'[d] = (IF d = b THEN "closing" ELSE browser[d])
         /\ \A t \in Scopes : current'[t] = (IF t = s THEN NoBrowser ELSE current[t])
      \/ /\ b # NoBrowser /\ refs[b] >= 2
         /\ \A d \in Conns : refs'[d] = (IF d = b THEN refs[b] - 1 ELSE refs[d]) /\ browser'[d] = browser[d]
         /\ \A t \in Scopes : current'[t] = current[t]
  BY <1>1, <1>2, <1>3, <1>4 DEF SharedTypes
<1>7. SharedTypes'
  BY <1>1, <1>2, <1>3, <1>4 DEF SharedTypes
<1>8. \A t \in Scopes : current[t] # NoBrowser => current[t] \in Conns /\ scope[current[t]] = t
  BY <1>1 DEF SharedTypes, ConnsKnown
<1>9. RecordsOpen'
  BY <1>1, <1>3, <1>4, <1>6, <1>8 DEF RecordsOpen
<1>10. ConnsKnown'
  <2>1. \A d \in Conns : browser'[d] \in {"none", "starting"} <=> browser[d] \in {"none", "starting"}
    BY <1>4, <1>6
  <2>2. \A d \in Conns : browser[d] = "none" => browser'[d] = "none"
    BY <1>4, <1>6
  <2>3. \A t \in Scopes : current'[t] # NoBrowser => current'[t] = current[t]
    BY <1>6
  <2>4. \A d \in Conns : conn'[d] = "new" => browser'[d] = "none" /\ ~pageGone'[d]
    BY <1>1, <1>2, <1>5, <2>2 DEF ConnsKnown
  <2>5. \A d \in Conns : conn'[d] # "new" => scope'[d] \in Scopes
    BY <1>1, <1>2, <1>3, <1>5 DEF ConnsKnown
  <2>6. \A d \in Conns : conn'[d] = "open" => holds'[d] \in Conns /\ scope'[holds'[d]] = scope'[d]
    BY <1>1, <1>2, <1>5 DEF ConnsKnown
  <2>7. \A d \in Conns : browser'[d] \in {"none", "starting"} => \A e \in Conns : conn'[e] = "open" => holds'[e] # d
    BY <1>1, <1>5, <2>1 DEF ConnsKnown
  <2>8. \A t \in Scopes : current'[t] # NoBrowser => scope'[current'[t]] = t
    BY <1>2, <1>8, <2>3
  <2> QED
    BY <2>4, <2>5, <2>6, <2>7, <2>8 DEF ConnsKnown
<1>11. LaunchesKnown'
  <2>1. \A t \in Scopes : Usable(current[t])' => Usable(current[t])
    BY <1>2, <1>3, <1>4, <1>6, <1>8 DEF Usable
  <2>2. \A d \in Conns : browser'[d] = "starting" => browser[d] = "starting" /\ d # c
    BY <1>1, <1>2, <1>4, <1>6 DEF LaunchesKnown
  <2>3. \A d \in Conns : browser'[d] = "starting" => conn'[d] = "launching" /\ inFlight'[scope'[d]] = d
    BY <1>1, <1>2, <1>5, <2>2 DEF LaunchesKnown
  <2>4. \A t \in Scopes : inFlight'[t] # NoBrowser => ~Usable(current[t])'
    BY <1>1, <1>2, <2>1 DEF LaunchesKnown
  <2>5. ASSUME NEW d \in Conns, browser'[d] = "open", ~pageGone'[d] PROVE current'[scope'[d]] = d
    <3>1. browser[d] = "open" /\ ~pageGone[d]
      BY <1>2, <1>4, <1>6, <2>5
    <3>2. current[scope[d]] = d /\ scope[d] \in Scopes
      BY <1>1, <3>1 DEF LaunchesKnown, ConnsKnown
    <3>3. CASE b # NoBrowser /\ d = b /\ refs[b] = 1
      BY <1>6, <2>5, <3>3
    <3>4. CASE scope[d] # s \/ refs[b] # 1 \/ b = NoBrowser
      BY <1>2, <1>6, <3>2, <3>4
    <3> QED
      BY <3>2, <3>3, <3>4
  <2> QED
    BY <2>3, <2>4, <2>5 DEF LaunchesKnown
<1>12. OneBrowserPerScope'
  <2>1. \A d \in Conns : browser'[d] \in {"starting", "open"} => browser[d] \in {"starting", "open"}
    BY <1>6
  <2> QED
    BY <1>1, <1>2, <2>1 DEF OneBrowserPerScope
<1>13. ASSUME NEW t \in Scopes, t # s PROVE ScopeFits(t)'
  <2>1. \A d \in Conns : scope[d] = t => d # c /\ d # b
    BY <1>1, <1>4, <1>13
  <2>2. \A d \in Conns : conn'[d] = "open" => conn[d] = "open" /\ d # c
    BY <1>5
  <2>3. \A d \in Conns : conn'[d] = "open" => holds'[d] \in Conns /\ scope[holds'[d]] = scope'[d]
    BY <1>1, <1>2, <1>5, <2>2 DEF ConnsKnown
  <2>4. \A d \in Conns : scope[d] = t /\ conn[d] # "new" =>
            /\ scope'[d] = t /\ holds'[d] = holds[d] /\ refs'[d] = refs[d]
            /\ conn'[d] = "open" <=> conn[d] = "open"
            /\ browser[d] = "open" => browser'[d] = "open"
    BY <1>2, <1>5, <1>6, <2>1
  <2>5. current'[t] = current[t]
    BY <1>6, <1>13
  <2>6. \A d \in Conns : conn'[d] = "open" /\ scope'[d] = t => scope[d] = t /\ conn[d] # "new"
    BY <1>2, <2>2
  <2> QED
    BY <1>2, <2>3, <2>4, <2>5, <2>6, ScopeKept
<1>14. ScopeFits(s)'
  <2> SUFFICES ASSUME Undisturbed(s)' PROVE ScopeFits(s)'
    BY DEF ScopeFits
  <2>1. Undisturbed(s)
    BY <1>2 DEF Undisturbed
  <2>2. \A d \in Conns : conn[d] = "open" /\ scope[d] = s => holds[d] = b /\ browser[b] = "open"
    BY <1>1, <1>3, <2>1 DEF ScopeFits
  <2>3. holds[c] = b /\ b # NoBrowser
    BY <1>1, <1>2, <1>3, <2>2
  <2>4. refs[b] = Cardinality(Holders(b))
    BY <1>1, <1>3, <2>1, <2>3 DEF ScopeFits
  <2>5. Holders(b) \subseteq Conns /\ c \in Holders(b)
    BY <1>2, <2>3 DEF Holders
  <2>6. IsFiniteSet(Holders(b))
    BY <1>1, <2>5, FS_Subset
  <2>7. Cardinality(Holders(b) \ {c}) = refs[b] - 1 /\ IsFiniteSet(Holders(b) \ {c})
    BY <2>4, <2>5, <2>6, FS_RemoveElement
  <2>8. {d \in Conns : conn'[d] = "open" /\ holds'[d] = b} = Holders(b) \ {c}
    BY <1>1, <1>4, <1>5, <2>3 DEF Holders
  <2>9. CASE refs[b] = 1
    <3>1. Cardinality(Holders(b) \ {c}) = 0
      BY <2>7, <2>9
    <3>2. Holders(b) \ {c} = {}
      BY <2>7, <3>1, FS_EmptySet
    <3>3. \A d \in Conns : conn'[d] = "open" => scope'[d] # s
      BY <1>2, <1>5, <2>2, <3>2 DEF Holders
    <3>4. current'[s] = NoBrowser
      BY <1>3, <1>6, <2>3, <2>9
    <3> QED
      BY <3>3, <3>4 DEF ScopeFits
  <2>10. CASE refs[b] >= 2
    <3>1. current'[s] = b /\ browser'[b] = "open" /\ refs'[b] = refs[b] - 1
      BY <1>3, <1>4, <1>6, <2>3, <2>10
    <3>2. \A d \in Conns : conn'[d] = "open" /\ scope'[d] = s => holds'[d] = b
      BY <1>2, <1>5, <2>2
    <3>3. refs'[b] = Cardinality({d \in Conns : conn'[d] = "open" /\ holds'[d] = b})
      BY <2>7, <2>8, <3>1
    <3>4. (\A d \in Conns : conn[d] = "open" /\ scope[d] = s =>
              holds[d] = current[s] /\ browser[holds[d]] = "open")'
      BY <3>1, <3>2
    <3>5. (current[s] # NoBrowser => refs[current[s]] = Cardinality(Holders(current[s])))'
      BY <3>1, <3>3 DEF Holders
    <3> QED
      BY <3>4, <3>5 DEF ScopeFits
  <2> QED
    BY <1>4, <2>3, <2>9, <2>10
<1> QED
  BY <1>7, <1>9, <1>10, <1>11, <1>12, <1>13, <1>14 DEF SharedInv, HeldStaysOpen, ScopeFits

-----------------------------------------------------------------------------
(* The specification.                                                      *)

LEMMA BrowserInit ==
  ASSUME SInit
  PROVE  BrowserInv
<1>1. /\ conn = [c \in Conns |-> "new"] /\ scope = [c \in Conns |-> NoBrowser] /\ holds = [c \in Conns |-> NoBrowser]
      /\ current = [s \in Scopes |-> NoBrowser] /\ inFlight = [s \in Scopes |-> NoBrowser]
      /\ browser = [c \in Conns |-> "none"] /\ refs = [c \in Conns |-> 0] /\ pageGone = [c \in Conns |-> FALSE]
      /\ merged = [c \in Conns |-> {}] /\ jar = {} /\ torn = FALSE /\ blind = [c \in Conns |-> FALSE]
      /\ lock = NoBrowser /\ jarFaults = 0 /\ serverCrashes = 0
  BY DEF SInit
<1>2. SharedTypes /\ RecordsOpen /\ LaunchesKnown /\ OneBrowserPerScope
  BY <1>1 DEF SharedTypes, RecordsOpen, LaunchesKnown, OneBrowserPerScope
<1>3. HeldStaysOpen /\ ConnsKnown
  BY <1>1 DEF HeldStaysOpen, ConnsKnown
<1>4. JarTypes
  <2>1. 0 \in 0 .. MaxServerCrashes /\ 0 \in 0 .. MaxJarFaults
    BY BrowserAssumption
  <2> QED
    BY <1>1, <2>1 DEF JarTypes
<1>5. JarClean /\ JarHeld /\ LossExplained
  BY <1>1 DEF JarClean, JarHeld, LossExplained
<1> QED
  BY <1>2, <1>3, <1>4, <1>5, BrowserParts DEF SharedInv, JarInv

\* A step of what connections share leaves the jar alone.
LEMMA SharingQuiet ==
  ASSUME JarInv, SharedTypes, NEW c \in Conns,
         \/ \E s \in Scopes : Attach(c, s) \/ Join(c, s) \/ Launch(c, s)
         \/ Launched(c) \/ LaunchFails(c) \/ Release(c) \/ PageCloses(c)
  PROVE  JarInv' /\ jar' = jar
<1>1. UNCHANGED jarVars /\ UNCHANGED serverCrashes
  BY DEF Attach, Join, Launch, Launched, LaunchFails, Release, PageCloses
<1>2. browser \in [Conns -> {"none", "starting", "open", "closing", "merging", "writing", "closed", "dead"}]
  BY DEF SharedTypes
<1>3. \/ browser' = browser
      \/ \E b \in Conns, state \in {"starting", "open", "closed", "closing"} : browser' = [browser EXCEPT ![b] = state]
      \/ \E b \in Conns : browser' = [browser EXCEPT ![b] = @]
      \/ \E state \in {"closing"} : \E s \in Scopes : browser' = [browser EXCEPT ![current[s]] = state]
      \/ browser' = [browser EXCEPT ![current[scope[c]]] = "closing"]
      \/ browser' = [browser EXCEPT ![current[scope[c]]] = @]
  BY DEF Attach, Join, Launch, Launched, LaunchFails, Release, PageCloses
<1>4. \A b \in Conns : browser'[b] \in {"merging", "writing"} => browser'[b] = browser[b]
  BY <1>2, <1>3
<1>5. JarInv'
  BY <1>1, <1>4, JarQuiet
<1> QED
  BY <1>1, <1>5 DEF jarVars

LEMMA BrowserStep ==
  ASSUME BrowserInv, [SNext]_sVars
  PROVE  BrowserInv' /\ (jar \subseteq jar' \/ JarLoss)
<1>1. SharedInv /\ JarInv /\ SharedTypes
  BY BrowserParts DEF SharedInv
<1>2. ASSUME NEW c \in Conns,
             \/ \E s \in Scopes : Attach(c, s) \/ Join(c, s) \/ Launch(c, s)
             \/ Launched(c) \/ LaunchFails(c) \/ Release(c) \/ PageCloses(c)
      PROVE  SharedInv' /\ JarInv' /\ (jar \subseteq jar' \/ JarLoss)
  <2>1. JarInv' /\ jar' = jar
    BY <1>1, <1>2, SharingQuiet
  <2>2. SharedInv'
    BY <1>1, <1>2, SharedAttach, SharedRequests, SharedLaunched, SharedFails, SharedReleases, SharedPages
  <2> QED
    BY <2>1, <2>2
<1>3. ASSUME NEW c \in Conns,
             \/ \E found \in SUBSET Cookies, unread \in BOOLEAN : BeginMerge(c, found, unread)
             \/ SkipMerge(c) \/ BeginWrite(c) \/ EndWrite(c) \/ MergeFails(c)
      PROVE  SharedInv' /\ JarInv' /\ (jar \subseteq jar' \/ JarLoss)
  BY <1>1, <1>3, SharedMerges, JarMerges
<1>4. ASSUME ServerCrash
      PROVE  SharedInv' /\ JarInv' /\ (jar \subseteq jar' \/ JarLoss)
  <2>1. jar' = jar
    BY <1>4 DEF ServerCrash
  <2>2. jar \subseteq jar'
    BY <2>1
  <2>3. SharedInv' /\ JarInv'
    BY <1>1, <1>4, SharedCrash, JarCrash, Zenon
  <2> QED
    BY <2>2, <2>3
<1>5. CASE UNCHANGED sVars
  <2>1. /\ conn' = conn /\ scope' = scope /\ holds' = holds /\ current' = current /\ inFlight' = inFlight
        /\ refs' = refs /\ browser' = browser /\ pageGone' = pageGone /\ jar' = jar /\ torn' = torn
        /\ lock' = lock /\ merged' = merged /\ blind' = blind
        /\ jarFaults' = jarFaults /\ serverCrashes' = serverCrashes
    BY <1>5 DEF sVars, connVars, managerVars, jarVars
  <2>2. STypeOK'
    BY <2>1 DEF BrowserInv, STypeOK
  <2>a. HeldStaysOpen'
    <3>1. HeldStaysOpen
      BY DEF BrowserInv
    <3>2. \A s : Undisturbed(s)' = Undisturbed(s) /\ Holders(s)' = Holders(s)
      BY <2>1 DEF Undisturbed, Holders
    <3> QED
      BY <2>1, <3>1, <3>2 DEF HeldStaysOpen, Undisturbed, Holders
  <2>3. OneBrowserPerScope' /\ JarClean' /\ LossExplained' /\ ConnsKnown'
    BY <2>1 DEF BrowserInv, OneBrowserPerScope, JarClean, LossExplained, ConnsKnown
  <2>4. LaunchesKnown' /\ JarHeld'
    BY <2>1 DEF BrowserInv, LaunchesKnown, JarHeld, Usable
  <2> QED
    BY <2>1, <2>2, <2>a, <2>3, <2>4 DEF BrowserInv
<1>6. BrowserInv' <=> SharedInv' /\ JarInv'
  BY DEF BrowserInv, STypeOK, SharedTypes, RecordsOpen, JarTypes, SharedInv, JarInv
<1> QED
  BY <1>2, <1>3, <1>4, <1>5, <1>6 DEF SNext

\* Browsers are counted right while requests come and go, whatever connections,
\* scopes and cookies there are: nobody's browser is closed under him, a scope has
\* one, and the jar of the host is clean and loses nothing but to a merge that could
\* not read it, for which the file system failed or the process died
\* (session-manager.js:55-240, browser-state.js:79-89, 190-246).
THEOREM BrowsersAreSafe == SSpec => BrowsersSafe
<1>1. SInit => BrowserInv
  BY BrowserInit
<1>2. BrowserInv /\ [SNext]_sVars => BrowserInv' /\ [jar \subseteq jar' \/ JarLoss]_sVars
  BY BrowserStep
<1>3. BrowserInv => STypeOK /\ HeldStaysOpen /\ OneBrowserPerScope /\ JarClean /\ LossExplained
  BY DEF BrowserInv
<1> QED
  BY <1>1, <1>2, <1>3, PTL DEF SSpec, BrowsersSafe, JarKeeps, JarLoss

-----------------------------------------------------------------------------
(* A run's stored result, its job's row and the console's readings of them. *)

\* What a writer relies on: while the process is down nobody writes or deletes; a task
\* has an attempt and a job that runs, or that was ended under it; a delete that is
\* granted finds no active job.
Writers ==
    /\ ~up => task = "none" /\ deleting = "idle"
    /\ task # "none" => attempts >= 1 /\ job \in {"running", "cancelled", "absent"}
    /\ task \in {"created", "running"} /\ ~swept => job = "running"
    /\ task = "running" => trace = "open"
    /\ deleting = "job" => job \notin JobActive
    /\ deleted => job = "absent"

\* A job that may be claimed has an attempt left.
AttemptsLeft ==
    /\ job = "queued" => attempts = 0
    /\ job = "retrying" => attempts < StoreAttempts

\* A result that will be reported is in the store, or its job was ended.
ResultStored ==
    task = "returned" /\ outcome = "ok" =>
        \/ job \in {"absent", "cancelled"}
        \/ row.status \in Verdicts /\ row.agents = attempts /\ row.streams = attempts

\* The document's streams are those of the rows, of an attempt that was made.
StreamsAlike == row.snapshot \in {0, row.streams} /\ row.streams <= attempts

StoreInv ==
    /\ StoreTypeOK /\ Writers /\ AttemptsLeft /\ ResultStored /\ StreamsAlike
    /\ SucceededIsStored /\ DeletedStaysDeleted

RowStatus == {"absent", "running", "cancelled", "success", "partial", "failed", "no_streams"}
RunRow == [status : RowStatus, finished : BOOLEAN, agents : 0..StoreAttempts,
           snapshot : 0..StoreAttempts, streams : 0..StoreAttempts]

LEMMA StoreFacts ==
  ASSUME StoreInv
  PROVE  /\ StoreTypeOK /\ Writers /\ AttemptsLeft /\ ResultStored /\ StreamsAlike
         /\ SucceededIsStored /\ DeletedStaysDeleted
         /\ StoreAttempts \in Nat \ {0} /\ row \in RunRow /\ attempts \in 0..StoreAttempts
         /\ Verdicts \subseteq {"success", "partial", "failed", "no_streams"}
BY StoreAssumption DEF StoreInv, StoreTypeOK, RunRow, RowStatus

LEMMA NoRowIs ==
  ASSUME StoreAttempts \in Nat
  PROVE  NoRow \in RunRow /\ NoRow.snapshot = 0 /\ NoRow.streams = 0
BY DEF RunRow, RowStatus, NoRow

LEMMA ResultIs ==
  ASSUME StoreAttempts \in Nat, NEW n \in 0..StoreAttempts, NEW status \in RowStatus
  PROVE  /\ ResultRow(n, status) \in RunRow /\ ResultRow(n, status).status = status
         /\ ResultRow(n, status).agents = n /\ ResultRow(n, status).streams = n
         /\ ResultRow(n, status).snapshot = n
BY DEF RunRow, RowStatus, ResultRow

LEMMA CleanupIs ==
  ASSUME StoreAttempts \in Nat, NEW r \in RunRow
  PROVE  /\ Cleanup(r) \in RunRow /\ Cleanup(r).snapshot = 0 /\ Cleanup(r).streams = r.streams
         /\ Cleanup(r).agents = r.agents /\ Cleanup(r).status = r.status
BY DEF RunRow, RowStatus, Cleanup

\* What is shown of the streams stays, or gives way to a later result.
StreamsStay == ShownStreams # 0 => row' = NoRow \/ ShownStreams' >= ShownStreams

LEMMA SameRow ==
  ASSUME StoreInv, row' = row
  PROVE  StreamsStay
<1>1. row.snapshot \in Nat /\ row.streams \in Nat
  BY StoreFacts DEF RunRow
<1>2. ShownStreams \in Nat /\ ShownStreams' = ShownStreams
  BY <1>1 DEF ShownStreams
<1> QED
  BY <1>2 DEF StreamsStay

\* A step that leaves the rows alone.

LEMMA ClaimKeeps ==
  ASSUME StoreInv, Claim
  PROVE  StoreInv' /\ StreamsStay
<1>1. row' = row
  BY DEF Claim, rowVars
<1>2. StoreTypeOK'
  BY StoreFacts DEF Claim, StoreTypeOK, Writers, AttemptsLeft, JobActive, JobTerminal, jobVars, taskVars, liveVars, rowVars, delVars, procVars
<1>3. Writers' /\ AttemptsLeft'
  BY StoreFacts DEF Claim, StoreTypeOK, Writers, AttemptsLeft, JobActive, JobTerminal, jobVars, taskVars, liveVars, rowVars, delVars, procVars
<1>4. ResultStored' /\ SucceededIsStored' /\ StreamsAlike' /\ DeletedStaysDeleted'
  BY StoreFacts DEF Claim, StoreTypeOK, Writers, RunRow, ResultStored, SucceededIsStored, StreamsAlike, DeletedStaysDeleted, Stored, JobActive, jobVars, taskVars, liveVars, rowVars, delVars, procVars
<1> QED
  BY <1>1, <1>2, <1>3, <1>4, SameRow DEF StoreInv

LEMMA StartKeeps ==
  ASSUME StoreInv, Start
  PROVE  StoreInv' /\ StreamsStay
<1>1. row' = row
  BY DEF Start, rowVars
<1>2. StoreTypeOK'
  BY StoreFacts DEF Start, StoreTypeOK, Writers, AttemptsLeft, JobActive, JobTerminal, jobVars, taskVars, liveVars, rowVars, delVars, procVars
<1>3. Writers' /\ AttemptsLeft'
  BY StoreFacts DEF Start, StoreTypeOK, Writers, AttemptsLeft, JobActive, JobTerminal, jobVars, taskVars, liveVars, rowVars, delVars, procVars
<1>4. ResultStored' /\ SucceededIsStored' /\ StreamsAlike' /\ DeletedStaysDeleted'
  BY StoreFacts DEF Start, StoreTypeOK, Writers, RunRow, ResultStored, SucceededIsStored, StreamsAlike, DeletedStaysDeleted, Stored, JobActive, jobVars, taskVars, liveVars, rowVars, delVars, procVars
<1> QED
  BY <1>1, <1>2, <1>3, <1>4, SameRow DEF StoreInv

LEMMA ConcludeKeeps ==
  ASSUME StoreInv, Conclude
  PROVE  StoreInv' /\ StreamsStay
<1>1. row' = row
  BY DEF Conclude, rowVars
<1>2. StoreTypeOK'
  BY StoreFacts DEF Conclude, JobAfter, JobFailed, StoreTypeOK, Writers, AttemptsLeft, JobActive, JobTerminal, jobVars, taskVars, liveVars, rowVars, delVars, procVars
<1>3. Writers' /\ AttemptsLeft'
  BY StoreFacts DEF Conclude, JobAfter, JobFailed, StoreTypeOK, Writers, AttemptsLeft, JobActive, JobTerminal, jobVars, taskVars, liveVars, rowVars, delVars, procVars
<1>4. ResultStored' /\ SucceededIsStored' /\ StreamsAlike' /\ DeletedStaysDeleted'
  BY StoreFacts DEF Conclude, JobAfter, JobFailed, StoreTypeOK, Writers, RunRow, ResultStored, SucceededIsStored, StreamsAlike, DeletedStaysDeleted, Stored, JobActive, jobVars, taskVars, liveVars, rowVars, delVars, procVars
<1> QED
  BY <1>1, <1>2, <1>3, <1>4, SameRow DEF StoreInv

LEMMA CancelRunKeeps ==
  ASSUME StoreInv, CancelRun
  PROVE  StoreInv' /\ StreamsStay
<1>1. row' = row
  BY DEF CancelRun, rowVars
<1>2. StoreTypeOK'
  BY StoreFacts DEF CancelRun, StoreTypeOK, Writers, AttemptsLeft, JobActive, JobTerminal, jobVars, taskVars, liveVars, rowVars, delVars, procVars
<1>3. Writers' /\ AttemptsLeft'
  BY StoreFacts DEF CancelRun, StoreTypeOK, Writers, AttemptsLeft, JobActive, JobTerminal, jobVars, taskVars, liveVars, rowVars, delVars, procVars
<1>4. ResultStored' /\ SucceededIsStored' /\ StreamsAlike' /\ DeletedStaysDeleted'
  BY StoreFacts DEF CancelRun, StoreTypeOK, Writers, RunRow, ResultStored, SucceededIsStored, StreamsAlike, DeletedStaysDeleted, Stored, JobActive, jobVars, taskVars, liveVars, rowVars, delVars, procVars
<1> QED
  BY <1>1, <1>2, <1>3, <1>4, SameRow DEF StoreInv

LEMMA CancelRowFirstKeeps ==
  ASSUME StoreInv, CancelRowFirst
  PROVE  StoreInv' /\ StreamsStay
<1>1. row' = row
  BY DEF CancelRowFirst, rowVars
<1>2. StoreTypeOK'
  BY StoreFacts DEF CancelRowFirst, StoreTypeOK, Writers, AttemptsLeft, JobActive, JobTerminal, jobVars, taskVars, liveVars, rowVars, delVars, procVars
<1>3. Writers' /\ AttemptsLeft'
  BY StoreFacts DEF CancelRowFirst, StoreTypeOK, Writers, AttemptsLeft, JobActive, JobTerminal, jobVars, taskVars, liveVars, rowVars, delVars, procVars
<1>4. ResultStored' /\ SucceededIsStored' /\ StreamsAlike' /\ DeletedStaysDeleted'
  BY StoreFacts DEF CancelRowFirst, StoreTypeOK, Writers, RunRow, ResultStored, SucceededIsStored, StreamsAlike, DeletedStaysDeleted, Stored, JobActive, jobVars, taskVars, liveVars, rowVars, delVars, procVars
<1> QED
  BY <1>1, <1>2, <1>3, <1>4, SameRow DEF StoreInv

LEMMA CancelTaskLaterKeeps ==
  ASSUME StoreInv, CancelTaskLater
  PROVE  StoreInv' /\ StreamsStay
<1>1. row' = row
  BY DEF CancelTaskLater, rowVars
<1>2. StoreTypeOK'
  BY StoreFacts DEF CancelTaskLater, StoreTypeOK, Writers, AttemptsLeft, JobActive, JobTerminal, jobVars, taskVars, liveVars, rowVars, delVars, procVars
<1>3. Writers' /\ AttemptsLeft'
  BY StoreFacts DEF CancelTaskLater, StoreTypeOK, Writers, AttemptsLeft, JobActive, JobTerminal, jobVars, taskVars, liveVars, rowVars, delVars, procVars
<1>4. ResultStored' /\ SucceededIsStored' /\ StreamsAlike' /\ DeletedStaysDeleted'
  BY StoreFacts DEF CancelTaskLater, StoreTypeOK, Writers, RunRow, ResultStored, SucceededIsStored, StreamsAlike, DeletedStaysDeleted, Stored, JobActive, jobVars, taskVars, liveVars, rowVars, delVars, procVars
<1> QED
  BY <1>1, <1>2, <1>3, <1>4, SameRow DEF StoreInv

LEMMA ViewKeeps ==
  ASSUME StoreInv, View
  PROVE  StoreInv' /\ StreamsStay
<1>1. row' = row
  BY DEF View, rowVars
<1>2. StoreTypeOK'
  BY StoreFacts DEF View, StoreTypeOK, Writers, AttemptsLeft, JobActive, JobTerminal, jobVars, taskVars, liveVars, rowVars, delVars, procVars
<1>3. Writers' /\ AttemptsLeft'
  BY StoreFacts DEF View, StoreTypeOK, Writers, AttemptsLeft, JobActive, JobTerminal, jobVars, taskVars, liveVars, rowVars, delVars, procVars
<1>4. ResultStored' /\ SucceededIsStored' /\ StreamsAlike' /\ DeletedStaysDeleted'
  BY StoreFacts DEF View, StoreTypeOK, Writers, RunRow, ResultStored, SucceededIsStored, StreamsAlike, DeletedStaysDeleted, Stored, JobActive, jobVars, taskVars, liveVars, rowVars, delVars, procVars
<1> QED
  BY <1>1, <1>2, <1>3, <1>4, SameRow DEF StoreInv

LEMMA DeleteSeesTraceKeeps ==
  ASSUME StoreInv, DeleteSeesTrace
  PROVE  StoreInv' /\ StreamsStay
<1>1. row' = row
  BY DEF DeleteSeesTrace, rowVars
<1>2. StoreTypeOK'
  BY StoreFacts DEF DeleteSeesTrace, StoreTypeOK, Writers, AttemptsLeft, JobActive, JobTerminal, jobVars, taskVars, liveVars, rowVars, delVars, procVars
<1>3. Writers' /\ AttemptsLeft'
  BY StoreFacts DEF DeleteSeesTrace, StoreTypeOK, Writers, AttemptsLeft, JobActive, JobTerminal, jobVars, taskVars, liveVars, rowVars, delVars, procVars
<1>4. ResultStored' /\ SucceededIsStored' /\ StreamsAlike' /\ DeletedStaysDeleted'
  BY StoreFacts DEF DeleteSeesTrace, StoreTypeOK, Writers, RunRow, ResultStored, SucceededIsStored, StreamsAlike, DeletedStaysDeleted, Stored, JobActive, jobVars, taskVars, liveVars, rowVars, delVars, procVars
<1> QED
  BY <1>1, <1>2, <1>3, <1>4, SameRow DEF StoreInv

LEMMA DeleteSeesJobKeeps ==
  ASSUME StoreInv, DeleteSeesJob
  PROVE  StoreInv' /\ StreamsStay
<1>1. row' = row
  BY DEF DeleteSeesJob, rowVars
<1>2. StoreTypeOK'
  BY StoreFacts DEF DeleteSeesJob, MayDelete, StoreTypeOK, Writers, AttemptsLeft, JobActive, JobTerminal, jobVars, taskVars, liveVars, rowVars, delVars, procVars
<1>3. Writers' /\ AttemptsLeft'
  BY StoreFacts DEF DeleteSeesJob, MayDelete, StoreTypeOK, Writers, AttemptsLeft, JobActive, JobTerminal, jobVars, taskVars, liveVars, rowVars, delVars, procVars
<1>4. ResultStored' /\ SucceededIsStored' /\ StreamsAlike' /\ DeletedStaysDeleted'
  BY StoreFacts DEF DeleteSeesJob, MayDelete, StoreTypeOK, Writers, RunRow, ResultStored, SucceededIsStored, StreamsAlike, DeletedStaysDeleted, Stored, JobActive, jobVars, taskVars, liveVars, rowVars, delVars, procVars
<1> QED
  BY <1>1, <1>2, <1>3, <1>4, SameRow DEF StoreInv

LEMMA CrashKeeps ==
  ASSUME StoreInv, Crash
  PROVE  StoreInv' /\ StreamsStay
<1>1. row' = row
  BY DEF Crash, rowVars
<1>2. StoreTypeOK'
  <2>1. /\ crashes' \in 0..MaxCrashes /\ up' = FALSE /\ task' = "none" /\ outcome' = "none" /\ trace' = "none"
        /\ flag' = FALSE /\ deleting' = "idle"
    BY StoreFacts, StoreAssumption DEF Crash, StoreTypeOK
  <2>2. /\ kind' = kind /\ job' = job /\ attempts' = attempts /\ row' = row /\ memories' = memories
        /\ deleted' = deleted /\ swept' = swept
    BY DEF Crash, jobVars, rowVars
  <2> QED
    BY <2>1, <2>2, StoreFacts DEF StoreTypeOK
<1>3. Writers' /\ AttemptsLeft'
  BY StoreFacts, StoreAssumption DEF Crash, StoreTypeOK, Writers, AttemptsLeft, JobActive, JobTerminal, jobVars, taskVars, liveVars, rowVars, delVars, procVars
<1>4. ResultStored' /\ SucceededIsStored' /\ StreamsAlike' /\ DeletedStaysDeleted'
  BY StoreFacts, StoreAssumption DEF Crash, StoreTypeOK, Writers, RunRow, ResultStored, SucceededIsStored, StreamsAlike, DeletedStaysDeleted, Stored, JobActive, jobVars, taskVars, liveVars, rowVars, delVars, procVars
<1> QED
  BY <1>1, <1>2, <1>3, <1>4, SameRow DEF StoreInv

\* A snapshot that is skipped, or changes neither list.
LEMMA TriedSnapshot ==
  ASSUME StoreInv, task = "running", NEW t, NEW cancelled \in BOOLEAN, TrySnapshot(t, cancelled),
         t \in {"open", "success", "partial", "failed", "no_streams", "cancelled"}
  PROVE  /\ row' \in RunRow /\ row'.snapshot = row.snapshot /\ row'.streams = row.streams
         /\ memories' = memories /\ StreamsStay
<1>1. attempts \in 0..StoreAttempts /\ row \in RunRow /\ StoreAttempts \in Nat
  BY StoreFacts
<1>2. PICK status \in RowStatus : status = SnapshotStatus(t, cancelled)
  BY DEF SnapshotStatus, RowStatus
<1>3. PICK ended \in BOOLEAN : ended = (t # "open")
  OBVIOUS
<1>4. Snapshot(t, cancelled) = [row EXCEPT !.status = status, !.finished = ended, !.agents = attempts]
  BY <1>2, <1>3 DEF Snapshot
<1>5. PICK s : s = Snapshot(t, cancelled)
  OBVIOUS
<1>6. s \in RunRow /\ s.snapshot = row.snapshot /\ s.streams = row.streams
  <2>1. s = [row EXCEPT !.status = status, !.finished = ended, !.agents = attempts]
    BY <1>4, <1>5, Zenon
  <2> QED
    BY <1>1, <1>2, <1>3, <2>1 DEF RunRow, RowStatus
<1>7. row' \in {row, s} /\ memories' = memories
  BY <1>5 DEF TrySnapshot
<1>8. row' \in RunRow /\ row'.snapshot = row.snapshot /\ row'.streams = row.streams
  BY <1>1, <1>6, <1>7
<1>9. row.snapshot \in Nat /\ row.streams \in Nat
  BY <1>1 DEF RunRow
<1>10. ShownStreams \in Nat /\ ShownStreams' = ShownStreams
  BY <1>8, <1>9 DEF ShownStreams
<1> QED
  BY <1>7, <1>8, <1>10 DEF StreamsStay

\* The parts of the invariant after a writer's step, which has a task that runs.
LEMMA RowSteps ==
  ASSUME StoreInv, StoreTypeOK', Writers', AttemptsLeft', ResultStored', StreamsStay,
         task = "running", UNCHANGED <<jobVars, delVars>>, StreamsAlike'
  PROVE  StoreInv' /\ StreamsStay
<1>1. job' = job /\ deleted' = deleted /\ swept' = swept /\ job # "succeeded"
  BY StoreFacts DEF Writers, jobVars, delVars
<1>2. ~(deleted /\ ~swept)
  BY StoreFacts DEF Writers
<1> QED
  BY <1>1, <1>2 DEF StoreInv, SucceededIsStored, DeletedStaysDeleted

LEMMA PersistTraceKeeps ==
  ASSUME StoreInv, PersistTrace
  PROVE  StoreInv' /\ StreamsStay
<1>1. task = "running" /\ trace = "open" /\ flag \in BOOLEAN /\ TrySnapshot(trace, flag)
      /\ UNCHANGED <<jobVars, delVars, procVars>>
  BY StoreFacts DEF PersistTrace, Writers, StoreTypeOK
<1>2. /\ row' \in RunRow /\ row'.snapshot = row.snapshot /\ row'.streams = row.streams
      /\ memories' = memories /\ StreamsStay
  BY <1>1, TriedSnapshot
<1>3. StoreTypeOK'
  BY <1>1, <1>2, StoreFacts DEF PersistTrace, RunRow, RowStatus, StoreTypeOK, jobVars, taskVars, liveVars, delVars, procVars
<1>4. Writers' /\ AttemptsLeft'
  BY <1>1, StoreFacts DEF PersistTrace, StoreTypeOK, Writers, AttemptsLeft, jobVars, taskVars, liveVars, delVars, procVars
<1>5. ResultStored' /\ StreamsAlike'
  BY <1>1, <1>2, StoreFacts DEF PersistTrace, ResultStored, StreamsAlike, jobVars, taskVars, liveVars, delVars
<1> QED
  BY <1>1, <1>2, <1>3, <1>4, <1>5, RowSteps

LEMMA RaiseKeeps ==
  ASSUME StoreInv, Raise
  PROVE  StoreInv' /\ StreamsStay
<1>1. task = "running" /\ trace = "open" /\ flag \in BOOLEAN /\ TrySnapshot("failed", FALSE)
      /\ UNCHANGED <<jobVars, delVars, procVars>>
  BY StoreFacts DEF Raise, CloseFailed, Writers, StoreTypeOK
<1>2. /\ row' \in RunRow /\ row'.snapshot = row.snapshot /\ row'.streams = row.streams
      /\ memories' = memories /\ StreamsStay
  BY <1>1, TriedSnapshot
<1>3. StoreTypeOK'
  BY <1>1, <1>2, StoreFacts DEF Raise, CloseFailed, RunRow, RowStatus, StoreTypeOK, jobVars, taskVars, liveVars, delVars, procVars
<1>4. Writers' /\ AttemptsLeft'
  BY <1>1, StoreFacts DEF Raise, CloseFailed, StoreTypeOK, Writers, AttemptsLeft, jobVars, taskVars, liveVars, delVars, procVars
<1>5. ResultStored' /\ StreamsAlike'
  BY <1>1, <1>2, StoreFacts DEF Raise, CloseFailed, ResultStored, StreamsAlike, jobVars, taskVars, liveVars, delVars
<1> QED
  BY <1>1, <1>2, <1>3, <1>4, <1>5, RowSteps

LEMMA UnwindKeeps ==
  ASSUME StoreInv, Unwind
  PROVE  StoreInv' /\ StreamsStay
<1>1. task = "running" /\ trace = "open" /\ flag \in BOOLEAN /\ TrySnapshot("cancelled", TRUE)
      /\ UNCHANGED <<jobVars, delVars, procVars>>
  BY StoreFacts DEF Unwind, Writers, StoreTypeOK
<1>2. /\ row' \in RunRow /\ row'.snapshot = row.snapshot /\ row'.streams = row.streams
      /\ memories' = memories /\ StreamsStay
  BY <1>1, TriedSnapshot
<1>3. StoreTypeOK'
  BY <1>1, <1>2, StoreFacts DEF Unwind, RunRow, RowStatus, StoreTypeOK, jobVars, taskVars, liveVars, delVars, procVars
<1>4. Writers' /\ AttemptsLeft'
  BY <1>1, StoreFacts DEF Unwind, StoreTypeOK, Writers, AttemptsLeft, jobVars, taskVars, liveVars, delVars, procVars
<1>5. ResultStored' /\ StreamsAlike'
  BY <1>1, <1>2, StoreFacts DEF Unwind, ResultStored, StreamsAlike, jobVars, taskVars, liveVars, delVars
<1> QED
  BY <1>1, <1>2, <1>3, <1>4, <1>5, RowSteps

LEMMA CompleteKeeps ==
  ASSUME StoreInv, NEW status \in Verdicts, Complete(status)
  PROVE  StoreInv' /\ StreamsStay
<1>1. /\ task = "running" /\ row' = ResultRow(attempts, status) /\ attempts >= 1
      /\ attempts \in 0..StoreAttempts /\ StoreAttempts \in Nat /\ status \in RowStatus
      /\ UNCHANGED <<jobVars, delVars, procVars>>
  BY StoreFacts DEF Complete, SaveResult, Writers, RowStatus
<1>2. /\ row' \in RunRow /\ row'.status = status /\ row'.agents = attempts
      /\ row'.snapshot = attempts /\ row'.streams = attempts
  BY <1>1, ResultIs
<1>3. memories' \subseteq 1..StoreAttempts
  BY <1>1, StoreFacts DEF Complete, SaveResult, Remembered, StoreTypeOK
<1>4. StoreTypeOK'
  BY <1>1, <1>2, <1>3, StoreFacts
     DEF Complete, RunRow, RowStatus, StoreTypeOK, jobVars, taskVars, liveVars, delVars, procVars
<1>5. Writers' /\ AttemptsLeft'
  BY <1>1, StoreFacts DEF Complete, StoreTypeOK, Writers, AttemptsLeft, jobVars, taskVars, liveVars, delVars, procVars
<1>6. ResultStored' /\ StreamsAlike'
  BY <1>1, <1>2, StoreFacts DEF ResultStored, StreamsAlike, jobVars
<1>7. StreamsStay
  <2>1. row.snapshot \in {0, row.streams} /\ row.streams <= attempts /\ row.streams \in Nat
    BY StoreFacts DEF StreamsAlike, RunRow
  <2>2. ShownStreams \in Nat /\ ShownStreams <= attempts
    BY <2>1 DEF ShownStreams
  <2>3. ShownStreams' = attempts
    BY <1>1, <1>2 DEF ShownStreams
  <2> QED
    BY <1>1, <2>2, <2>3 DEF StreamsStay
<1> QED
  BY <1>1, <1>4, <1>5, <1>6, <1>7, RowSteps

LEMMA DeleteRunKeeps ==
  ASSUME StoreInv, DeleteRun
  PROVE  StoreInv' /\ StreamsStay
<1>1. row' = NoRow /\ job' = "absent" /\ deleting' = "idle" /\ deleted' = TRUE /\ deleting = "job"
      /\ memories' = memories /\ swept' = swept
      /\ UNCHANGED <<kind, attempts, taskVars, liveVars, procVars>>
  BY DEF DeleteRun
<1>2. row' \in RunRow /\ row'.snapshot = 0 /\ row'.streams = 0
  BY <1>1, StoreFacts, NoRowIs
<1>3. StoreTypeOK'
  BY <1>1, <1>2, StoreFacts DEF RunRow, RowStatus, StoreTypeOK, taskVars, liveVars, procVars
<1>4. Writers' /\ AttemptsLeft'
  BY <1>1, StoreFacts DEF StoreTypeOK, Writers, AttemptsLeft, JobActive, taskVars, liveVars, procVars
<1>5. ResultStored' /\ StreamsAlike' /\ SucceededIsStored' /\ DeletedStaysDeleted'
  BY <1>1, <1>2, StoreFacts DEF ResultStored, StreamsAlike, SucceededIsStored, DeletedStaysDeleted, Stored
<1>6. StreamsStay
  BY <1>1 DEF StreamsStay
<1> QED
  BY <1>3, <1>4, <1>5, <1>6 DEF StoreInv

LEMMA RestartKeeps ==
  ASSUME StoreInv, NEW old \in BOOLEAN, Restart(old)
  PROVE  StoreInv' /\ StreamsStay
<1>1. /\ task = "none" /\ ~up /\ up' = TRUE /\ job' = (IF job = "running" THEN JobFailed ELSE job)
      /\ old => Stored
      /\ row' = (IF old THEN Cleanup(row) ELSE row) /\ memories' = memories
      /\ UNCHANGED <<kind, attempts, taskVars, liveVars, delVars, crashes>>
  BY StoreFacts DEF Restart, Writers
<1>2. /\ row' \in RunRow /\ row'.streams = row.streams /\ row'.snapshot \in {0, row.snapshot}
      /\ row'.agents = row.agents /\ row'.status = row.status
  BY <1>1, StoreFacts, CleanupIs
<1>3. StoreTypeOK'
  BY <1>1, <1>2, StoreFacts
     DEF JobFailed, JobActive, JobTerminal, RunRow, RowStatus, StoreTypeOK, taskVars, liveVars, delVars
<1>4. Writers' /\ AttemptsLeft'
  BY <1>1, StoreFacts DEF JobFailed, StoreTypeOK, Writers, AttemptsLeft, JobActive, taskVars, liveVars, delVars
<1>5. ResultStored' /\ StreamsAlike' /\ SucceededIsStored'
  BY <1>1, <1>2, StoreFacts DEF JobFailed, ResultStored, StreamsAlike, SucceededIsStored, taskVars
<1>6. DeletedStaysDeleted'
  BY <1>1, StoreFacts DEF DeletedStaysDeleted, Stored, delVars
<1>7. StreamsStay
  <2>1. row.snapshot \in {0, row.streams} /\ row.streams \in Nat
    BY StoreFacts DEF StreamsAlike, RunRow
  <2>2. ShownStreams \in Nat /\ ShownStreams = row.streams
    BY <2>1 DEF ShownStreams
  <2>3. ShownStreams' = row.streams
    BY <1>2, <2>1 DEF ShownStreams
  <2> QED
    BY <2>2, <2>3 DEF StreamsStay
<1> QED
  BY <1>3, <1>4, <1>5, <1>6, <1>7 DEF StoreInv

LEMMA StoreStart == StoreInit => StoreInv
<1> SUFFICES ASSUME StoreInit PROVE StoreInv
  OBVIOUS
<1>1. NoRow \in RunRow /\ NoRow.snapshot = 0 /\ NoRow.streams = 0 /\ row = NoRow
  BY StoreAssumption, NoRowIs DEF StoreInit
<1>2. StoreTypeOK
  <2>1. crashes \in 0..MaxCrashes /\ attempts \in 0..StoreAttempts /\ kind \in Kinds
    BY StoreAssumption DEF StoreInit
  <2>2. row \in RunRow
    BY <1>1
  <2> QED
    BY <2>1, <2>2 DEF StoreInit, StoreTypeOK, RunRow, RowStatus, JobActive
<1> QED
  BY <1>1, <1>2, StoreAssumption
     DEF StoreInit, StoreInv, Writers, AttemptsLeft, ResultStored, StreamsAlike, SucceededIsStored,
         DeletedStaysDeleted, JobActive

LEMMA StoreStep == StoreInv /\ [StoreNext]_storeVars => StoreInv' /\ StreamsStay
<1> SUFFICES ASSUME StoreInv, [StoreNext]_storeVars PROVE StoreInv' /\ StreamsStay
  OBVIOUS
<1>1. CASE UNCHANGED storeVars
  <2>1. /\ kind' = kind /\ job' = job /\ attempts' = attempts /\ task' = task /\ outcome' = outcome
        /\ trace' = trace /\ flag' = flag /\ row' = row /\ memories' = memories /\ deleting' = deleting
        /\ deleted' = deleted /\ swept' = swept /\ up' = up /\ crashes' = crashes
    BY <1>1 DEF storeVars, jobVars, taskVars, liveVars, rowVars, delVars, procVars
  <2>2. StoreInv'
    BY <2>1 DEF StoreInv, StoreTypeOK, Writers, AttemptsLeft, ResultStored, StreamsAlike,
                SucceededIsStored, DeletedStaysDeleted, Stored
  <2> QED
    BY <2>1, <2>2, SameRow
<1>2. CASE \E status \in Verdicts : Complete(status)
  BY <1>2, CompleteKeeps
<1>3. CASE \E old \in BOOLEAN : Restart(old)
  BY <1>3, RestartKeeps
<1>4. CASE Claim \/ Start \/ PersistTrace \/ Raise \/ Unwind \/ Conclude
  BY <1>4, ClaimKeeps, StartKeeps, PersistTraceKeeps, RaiseKeeps, UnwindKeeps, ConcludeKeeps
<1>5. CASE CancelRun \/ CancelRowFirst \/ CancelTaskLater \/ View \/ Crash
  BY <1>5, CancelRunKeeps, CancelRowFirstKeeps, CancelTaskLaterKeeps, ViewKeeps, CrashKeeps
<1>6. CASE DeleteSeesTrace \/ DeleteSeesJob \/ DeleteRun
  BY <1>6, DeleteSeesTraceKeeps, DeleteSeesJobKeeps, DeleteRunKeeps
<1> QED
  BY <1>1, <1>2, <1>3, <1>4, <1>5, <1>6 DEF StoreNext

LEMMA StoreTells == StoreInv => StoreTypeOK /\ SucceededIsStored /\ ShownStatusTrue /\ DeletedStaysDeleted
<1> SUFFICES ASSUME StoreInv PROVE ShownStatusTrue
  BY DEF StoreInv
<1>1. job \in JobActive \cup JobTerminal \cup {"absent"}
  BY StoreFacts DEF StoreTypeOK
<1>2. job = "succeeded" => row.status \in {"success", "partial", "failed", "no_streams"}
  BY StoreFacts DEF SucceededIsStored
<1> QED
  BY <1>1, <1>2 DEF ShownStatusTrue, DetailStatus, ListStatus, JobShown, RunActive, JobActive, JobTerminal

(* Through retries, crashes, restarts, cancels and deletes: a job that     *)
(* succeeded has its result in the store, the console never says of a run  *)
(* what its job contradicts, a deleted run stays deleted, and the streams  *)
(* shown are lost only with the run or to a later result                   *)
(* (api/storage repositories, api/app.py).                                 *)
THEOREM StoreIsTrue == StoreSpec => StoreTrue
<1>1. StoreSpec => []StoreInv
  BY StoreStart, StoreStep, PTL DEF StoreSpec
<1>2. StoreSpec => [](StoreTypeOK /\ SucceededIsStored /\ ShownStatusTrue /\ DeletedStaysDeleted)
  BY <1>1, StoreTells, PTL
<1>3. StoreSpec => ShownStreamsSurvive
  <2>1. StoreInv /\ [StoreNext]_storeVars =>
          [ShownStreams # 0 => row' = NoRow \/ ShownStreams' >= ShownStreams]_storeVars
    BY StoreStep DEF StreamsStay
  <2> QED
    BY <1>1, <2>1, PTL DEF StoreSpec, ShownStreamsSurvive
<1> QED
  BY <1>2, <1>3 DEF StoreTrue
=============================================================================
