------------------------------ MODULE RunPools ------------------------------
(***************************************************************************)
(* The per-run streaming worker pools of src/src/agents/pools.py: a hosting *)
(* and an embedded pool of bounded workers on unbounded FIFO queues, the    *)
(* drainer that waits for a pool, sentinel shutdown (aclose) and the        *)
(* cancellation hook (cancel_run_pools).                                    *)
(*                                                                          *)
(* Everything runs on one asyncio loop: a step is what a coroutine does     *)
(* between two awaits.  The client of the pools is the run's one graph      *)
(* coroutine; here it is the most general client that keeps the protocol    *)
(* CanDrain, and Pipeline.tla shows that the orchestrator's graph is one.   *)
(***************************************************************************)
EXTENDS Integers, Sequences, FiniteSets, SequencesExt

CONSTANTS
  Url,           \* target URLs, a finite set
  None,          \* Python's None: the stop sentinel, and "no item"
  Slot           \* worker_idx of a role's workers: as many as
                 \* settings.max_parallel_hosting_pages

ASSUME RunPoolsAssumption ==
  /\ IsFiniteSet(Url)
  /\ None \notin Url
  /\ IsFiniteSet(Slot) /\ Slot # {}

Hosting  == "hosting"
Embedded == "embedded"
Role     == {Hosting, Embedded}
Worker   == Role \X Slot
RoleOf(w) == w[1]

VARIABLES
  seen,              \* seen_urls, shared by both roles
  queue,             \* [Role -> sequence of URLs and sentinels]
  pending,           \* pending_items: queued or being processed
  inflight,          \* items being processed
  live,              \* live_workers
  producersDone,     \* the drain cycle's producers have finished
  drained,           \* the drained asyncio.Event
  results,           \* URLs with a result in self.results
  buffer,            \* [Role -> URLs with a result not yet consumed]
  folded,            \* URLs whose result was folded into the graph state
  embeddedEnqueued,  \* embedded_enqueued_urls
  cancelled,         \* cancelled_reason is not None
  errors,            \* worker_errors is not empty
  flag,              \* the observer's cancel_requested flag
  pc,                \* where each worker task is suspended
  item,              \* the URL each worker is processing
  graph,             \* the graph coroutine
  awaited,           \* tasks that aclose's gather still waits for
  hook,              \* the control-room cancellation hook
  joined             \* tasks that the hook's asyncio.wait still waits for

poolVars   == <<seen, queue, pending, inflight, live, producersDone, drained>>
resultVars == <<results, buffer, folded, embeddedEnqueued>>
stopVars   == <<cancelled, errors, flag>>
workerVars == <<pc, item>>
callerVars == <<graph, awaited, hook, joined>>
vars == <<poolVars, resultVars, stopVars, workerVars, callerVars>>

(* A worker task: not running, about to check the flag, suspended in        *)
(* queue.get(), or suspended in the page agent.                             *)
WorkerState == {"off", "top", "waiting", "busy"}

(* The graph: running a node that is no drainer, suspended in               *)
(* wait_until_drained(role), out of the graph, inside aclose, finished.     *)
GraphState == {"producing", "unwinding", "closing", "closed"} \cup Role
HookState  == {"idle", "waiting", "killing", "done"}

Queued(r) == ToSet(queue[r]) \ {None}
Busy(r)   == {w \in Worker : RoleOf(w) = r /\ pc[w] = "busy"}
Alive(r)  == {w \in Worker : RoleOf(w) = r /\ pc[w] # "off"}
Running   == {item[w] : w \in {v \in Worker : pc[v] = "busy"}}
LiveTasks == Alive(Hosting) \cup Alive(Embedded)

-----------------------------------------------------------------------------
Init ==
  /\ seen = {}
  /\ queue = [r \in Role |-> <<>>]
  /\ pending = [r \in Role |-> 0]
  /\ inflight = [r \in Role |-> 0]
  /\ live = [r \in Role |-> 0]
  /\ producersDone = [r \in Role |-> FALSE]
  /\ drained = [r \in Role |-> FALSE]
  /\ results = {} /\ folded = {} /\ embeddedEnqueued = {}
  /\ buffer = [r \in Role |-> {}]
  /\ cancelled = FALSE /\ errors = FALSE /\ flag = FALSE
  /\ pc = [w \in Worker |-> "off"]
  /\ item = [w \in Worker |-> None]
  /\ graph = "producing" /\ awaited = {}
  /\ hook = "idle" /\ joined = {}

-----------------------------------------------------------------------------
(* Mutants: enqueue() without the seen_urls test, and without the test of   *)
(* cancelled_reason.                                                        *)
AcceptedDuplicates(hs, es) ==
  [r \in Role |-> IF cancelled THEN {} ELSE IF r = Hosting THEN hs ELSE es]
AcceptedCancelled(hs, es) ==
  [r \in Role |-> IF r = Hosting THEN hs \ seen ELSE es \ (seen \cup hs)]

(* enqueue() of every URL of hs to the hosting pool, then of es to the      *)
(* embedded pool: the URLs it accepts.  A duplicate is suppressed, and a    *)
(* cancelled pool takes nothing.                                            *)
Accepted(hs, es) ==
  LET h == IF cancelled THEN {} ELSE hs \ seen
      e == IF cancelled THEN {} ELSE es \ (seen \cup h)
  IN  [r \in Role |-> IF r = Hosting THEN h ELSE e]

(* The accepted URLs join the queues, in any order within a role: the order *)
(* is that of the agent's result, which is data.                            *)
PutAll(new) ==
  /\ seen' = seen \cup new[Hosting] \cup new[Embedded]
  /\ \E h \in SetToSeqs(new[Hosting]), e \in SetToSeqs(new[Embedded]) :
       queue' = [r \in Role |-> queue[r] \o (IF r = Hosting THEN h ELSE e)]

(* ensure_workers: the first item of a role without a live worker spawns    *)
(* the role's whole worker set.                                             *)
Spawned(new) == {w \in Worker : new[RoleOf(w)] # {} /\ live[RoleOf(w)] = 0}

(* Mutant: live_workers is left to the workers to count, not raised at once.*)
SpawnCountLate(new, r) == 0
SpawnCount(new, r) == IF new[r] # {} /\ live[r] = 0 THEN Cardinality(Slot) ELSE 0

(* Mutant: the last item to finish does not set the event.                  *)
CheckDrainedNever(set, stop, done, items, flying, workers) ==
  set \/ stop \/ (done /\ items > 0 /\ workers = 0)

(* _check_drained, on the values the step leaves behind.                    *)
CheckDrained(set, stop, done, items, flying, workers) ==
  \/ set
  \/ stop
  \/ (done /\ items = 0 /\ flying = 0)
  \/ (done /\ items > 0 /\ workers = 0)

(* Mutant: one sentinel per role.                                          *)
WithOneSentinel == [r \in Role |-> Append(queue[r], None)]

(* A sentinel for every live worker, and one where there is none.           *)
WithSentinels ==
  [r \in Role |->
     queue[r] \o [k \in 1 .. (IF live[r] > 0 THEN live[r] ELSE 1) |-> None]]

-----------------------------------------------------------------------------
(* Workers.                                                                 *)

(* What the end of a worker task does to the counters: the finally clauses  *)
(* of _process_item (when it holds an item) and of _worker_loop.            *)
Exit(w) ==
  LET r    == RoleOf(w)
      held == IF pc[w] = "busy" THEN 1 ELSE 0
  IN  /\ pc' = [pc EXCEPT ![w] = "off"]
      /\ item' = [item EXCEPT ![w] = None]
      /\ live' = [live EXCEPT ![r] = @ - 1]
      /\ inflight' = [inflight EXCEPT ![r] = @ - held]
      /\ awaited' = awaited \ {w}
      /\ joined' = joined \ {w}
      /\ UNCHANGED <<graph, hook>>

(* _mark_cancelled: no sentinel is placed.                                  *)
MarkCancelled ==
  /\ cancelled' = TRUE
  /\ drained' = [r \in Role |-> TRUE]

(* Loop top with the cancel flag raised: RunCancelledError.                 *)
AbortAtTop(w) ==
  /\ pc[w] = "top" /\ flag
  /\ Exit(w)
  /\ MarkCancelled
  /\ UNCHANGED <<seen, queue, pending, producersDone, resultVars, errors, flag>>

(* Loop top, empty queue: suspended in queue.get().                         *)
Block(w) ==
  /\ pc[w] = "top" /\ ~flag
  /\ queue[RoleOf(w)] = <<>>
  /\ pc' = [pc EXCEPT ![w] = "waiting"]
  /\ UNCHANGED <<poolVars, resultVars, stopVars, item, callerVars>>

(* queue.get() returns the head: from the loop top after the flag check, or *)
(* to a worker woken by a put, which does not look at the flag again.       *)
CanGet(w) ==
  /\ pc[w] = "waiting" \/ (pc[w] = "top" /\ ~flag)
  /\ queue[RoleOf(w)] # <<>>

TakeItem(w) ==
  LET r == RoleOf(w) IN
  /\ CanGet(w)
  /\ Head(queue[r]) # None
  /\ queue' = [queue EXCEPT ![r] = Tail(@)]
  /\ inflight' = [inflight EXCEPT ![r] = @ + 1]
  /\ pc' = [pc EXCEPT ![w] = "busy"]
  /\ item' = [item EXCEPT ![w] = Head(queue[r])]
  /\ UNCHANGED <<seen, pending, live, producersDone, drained, resultVars,
                 stopVars, callerVars>>

TakeSentinel(w) ==
  LET r == RoleOf(w) IN
  /\ CanGet(w)
  /\ Head(queue[r]) = None
  /\ queue' = [queue EXCEPT ![r] = Tail(@)]
  /\ Exit(w)
  /\ drained' = [drained EXCEPT ![r] =
       CheckDrained(@, cancelled, producersDone[r], pending[r], inflight[r],
                    live[r] - 1)]
  /\ UNCHANGED <<seen, pending, producersDone, resultVars, stopVars>>

(* The agent returned, timed out or failed: in each case a result is        *)
(* appended, and a hosting result hands its same-event hosting pages hs and *)
(* embedded candidates es to the pools, all before the next await.          *)
Discoveries(w, hs, es) == RoleOf(w) = Embedded => hs = {} /\ es = {}

Report(w) ==
  /\ results' = results \cup {item[w]}
  /\ buffer' = [buffer EXCEPT ![RoleOf(w)] = @ \cup {item[w]}]
  /\ UNCHANGED folded

(* Mutant: both finally clauses decrement pending_items.                    *)
PendingAfterTwice(w, new) ==
  [r \in Role |-> pending[r] + Cardinality(new[r])
                    - (IF r = RoleOf(w) THEN 2 ELSE 0)]

PendingAfter(w, new) ==
  [r \in Role |-> pending[r] + Cardinality(new[r])
                    - (IF r = RoleOf(w) THEN 1 ELSE 0)]

FinishItem(w, hs, es) ==
  LET r   == RoleOf(w)
      new == Accepted(hs, es)
  IN  /\ pc[w] = "busy"
      /\ Discoveries(w, hs, es)
      /\ Report(w)
      /\ PutAll(new)
      /\ embeddedEnqueued' = embeddedEnqueued \cup new[Embedded]
      /\ pending' = PendingAfter(w, new)
      /\ inflight' = [inflight EXCEPT ![r] = @ - 1]
      /\ live' = [q \in Role |-> live[q] + SpawnCount(new, q)]
      /\ pc' = [v \in Worker |-> IF v = w \/ v \in Spawned(new) THEN "top"
                                 ELSE pc[v]]
      /\ item' = [item EXCEPT ![w] = None]
      /\ drained' = [drained EXCEPT ![r] =
           CheckDrained(@, cancelled, producersDone[r], pending'[r],
                        inflight'[r], live[r])]
      /\ UNCHANGED <<producersDone, stopVars, callerVars>>

(* An exception outside the agent's own try block, while the result is      *)
(* post-processed: the worker dies, and the drainer is to raise it.         *)
Crash(w, hs) ==
  LET r   == RoleOf(w)
      new == Accepted(hs, {})
  IN  /\ pc[w] = "busy"
      /\ Discoveries(w, hs, {})
      /\ Report(w)
      /\ PutAll(new)
      /\ pending' = PendingAfter(w, new)
      /\ Exit(w)
      /\ errors' = TRUE
      /\ drained' = [drained EXCEPT ![r] = TRUE]
      /\ UNCHANGED <<producersDone, embeddedEnqueued, cancelled, flag>>

(* The agent saw the cancel flag: RunCancelledError is never laundered into *)
(* a failed result, so the item ends without one.                           *)
AgentCancelled(w) ==
  LET r == RoleOf(w) IN
  /\ pc[w] = "busy" /\ flag
  /\ pending' = [pending EXCEPT ![r] = @ - 1]
  /\ Exit(w)
  /\ MarkCancelled
  /\ UNCHANGED <<seen, queue, producersDone, resultVars, errors, flag>>

(* task.cancel() by the hook: CancelledError runs the finally clauses only. *)
Kill(w) ==
  LET r == RoleOf(w) IN
  /\ hook = "killing" /\ w \in joined
  /\ pending' = [pending EXCEPT ![r] = @ - (IF pc[w] = "busy" THEN 1 ELSE 0)]
  /\ Exit(w)
  /\ drained' = [drained EXCEPT ![r] =
       CheckDrained(@, cancelled, producersDone[r], pending'[r], inflight'[r],
                    live'[r])]
  /\ UNCHANGED <<seen, queue, producersDone, resultVars, stopVars>>

-----------------------------------------------------------------------------
(* The graph coroutine.                                                     *)

(* A node that is no drainer hands URLs to the hosting pool (landing).      *)
Produce(hs) ==
  LET new == Accepted(hs, {}) IN
  /\ graph = "producing"
  /\ PutAll(new)
  /\ pending' = [r \in Role |-> pending[r] + Cardinality(new[r])]
  /\ live' = [r \in Role |-> live[r] + SpawnCount(new, r)]
  /\ pc' = [w \in Worker |-> IF w \in Spawned(new) THEN "top" ELSE pc[w]]
  /\ UNCHANGED <<inflight, producersDone, drained, resultVars, stopVars, item,
                 callerVars>>

(* The client protocol: the embedded pool is drained only while the hosting *)
(* pool, its other producer, is idle.                                       *)
CanDrain(r) == r = Embedded => pending[Hosting] = 0 /\ inflight[Hosting] = 0

(* open_cycle: what the drained event is when the cycle starts.  Mutant: it *)
(* is left as the last cycle ended.                                         *)
EventKept(r) == drained[r]
Reopened(r)  == FALSE

(* A drainer node up to its await: open_cycle, enqueue of the node's        *)
(* targets, and the synchronous part of wait_until_drained.                 *)
StartDrain(r, us) ==
  LET new == IF r = Hosting THEN Accepted(us, {}) ELSE Accepted({}, us) IN
  /\ graph = "producing"
  /\ PutAll(new)
  /\ pending' = [q \in Role |-> pending[q] + Cardinality(new[q])]
  /\ live' = [q \in Role |-> live[q] + SpawnCount(new, q)]
  /\ pc' = [w \in Worker |-> IF w \in Spawned(new) THEN "top" ELSE pc[w]]
  /\ producersDone' = [producersDone EXCEPT ![r] = TRUE]
  /\ drained' = [drained EXCEPT ![r] =
       CheckDrained(Reopened(r), cancelled, TRUE, pending'[r], inflight[r], live'[r])]
  /\ graph' = r
  /\ UNCHANGED <<inflight, resultVars, stopVars, item, awaited, hook, joined>>

BeginDrain(r, us) == CanDrain(r) /\ StartDrain(r, us)

(* Mutant: the buffer is read but not emptied.                              *)
ConsumeCopy(r) ==
  /\ folded' = folded \cup buffer[r]
  /\ UNCHANGED buffer

(* consume_results.                                                         *)
Consume(r) ==
  /\ folded' = folded \cup buffer[r]
  /\ buffer' = [buffer EXCEPT ![r] = {}]

(* The drained event is set and there is nothing to raise: the node folds   *)
(* the role's buffered results into the graph state.                        *)
EndDrain(r) ==
  /\ graph = r
  /\ drained[r] /\ ~cancelled /\ ~errors
  /\ Consume(r)
  /\ graph' = "producing"
  /\ UNCHANGED <<poolVars, results, embeddedEnqueued, stopVars, workerVars,
                 awaited, hook, joined>>

(* wait_until_drained raises RunCancelledError, or the first worker error.  *)
FailDrain(r) ==
  /\ graph = r
  /\ drained[r] /\ (cancelled \/ errors)
  /\ graph' = "unwinding"
  /\ UNCHANGED <<poolVars, resultVars, stopVars, workerVars, awaited, hook,
                 joined>>

(* The graph ends on its own: it completed, a node raised (budget, agent),  *)
(* or the workflow deadline cancelled it wherever it was suspended.         *)
LeaveGraph ==
  /\ graph \in {"producing"} \cup Role
  /\ graph' = "unwinding"
  /\ UNCHANGED <<poolVars, resultVars, stopVars, workerVars, awaited, hook,
                 joined>>

(* aclose: request_stop puts the sentinels, gather snapshots the tasks.     *)
BeginClose ==
  /\ graph = "unwinding"
  /\ queue' = WithSentinels
  /\ awaited' = LiveTasks
  /\ graph' = "closing"
  /\ UNCHANGED <<seen, pending, inflight, live, producersDone, drained,
                 resultVars, stopVars, workerVars, hook, joined>>

(* gather returned: the task list is cleared and the run unregistered.      *)
Reap ==
  /\ graph = "closing" /\ awaited = {}
  /\ graph' = "closed"
  /\ UNCHANGED <<poolVars, resultVars, stopVars, workerVars, awaited, hook,
                 joined>>

-----------------------------------------------------------------------------
(* The control room.                                                        *)

(* RunRegistry.request_cancel (a user, or the cost cap): refused once the   *)
(* run is over.                                                             *)
RequestCancel ==
  /\ ~flag /\ graph # "closed"
  /\ flag' = TRUE
  /\ UNCHANGED <<poolVars, resultVars, cancelled, errors, workerVars,
                 callerVars>>

(* cancel_run_pools up to asyncio.wait: RunPools.cancel places sentinels    *)
(* and sets the events only when no one has cancelled the pools before.     *)
HookCancel ==
  /\ hook = "idle" /\ flag /\ graph # "closed"
  /\ hook' = "waiting"
  /\ joined' = LiveTasks
  /\ cancelled' = TRUE
  /\ IF cancelled THEN UNCHANGED <<queue, drained>>
     ELSE /\ queue' = WithSentinels
          /\ drained' = [r \in Role |-> TRUE]
  /\ UNCHANGED <<seen, pending, inflight, live, producersDone, resultVars,
                 errors, flag, workerVars, graph, awaited>>

(* Ten seconds passed and a worker is still there: task.cancel().           *)
HookTimeout ==
  /\ hook = "waiting" /\ joined # {}
  /\ hook' = "killing"
  /\ UNCHANGED <<poolVars, resultVars, stopVars, workerVars, graph, awaited,
                 joined>>

HookDone ==
  /\ hook \in {"waiting", "killing"} /\ joined = {}
  /\ hook' = "done"
  /\ UNCHANGED <<poolVars, resultVars, stopVars, workerVars, graph, awaited,
                 joined>>

(* Mutant: only a suspended drainer is cancelled.                           *)
CancelDrainerTask ==
  /\ hook = "done"
  /\ graph \in Role
  /\ graph' = "unwinding"
  /\ UNCHANGED <<poolVars, resultVars, stopVars, workerVars, awaited, hook,
                 joined>>

(* After the hook the app cancels the run's task, wherever it is suspended. *)
CancelTask ==
  /\ hook = "done"
  /\ graph \in {"producing"} \cup Role
  /\ graph' = "unwinding"
  /\ UNCHANGED <<poolVars, resultVars, stopVars, workerVars, awaited, hook,
                 joined>>

-----------------------------------------------------------------------------
WorkerStep(w) ==
  \/ AbortAtTop(w)
  \/ Block(w)
  \/ TakeItem(w)
  \/ TakeSentinel(w)
  \/ \E hs, es \in SUBSET Url : FinishItem(w, hs, es)
  \/ \E hs \in SUBSET Url : Crash(w, hs)
  \/ AgentCancelled(w)
  \/ Kill(w)

GraphStep ==
  \/ \E us \in SUBSET Url : Produce(us)
  \/ \E r \in Role, us \in SUBSET Url : BeginDrain(r, us)
  \/ \E r \in Role : EndDrain(r)
  \/ \E r \in Role : FailDrain(r)
  \/ LeaveGraph
  \/ BeginClose
  \/ Reap

ControlStep ==
  \/ RequestCancel
  \/ HookCancel
  \/ HookTimeout
  \/ HookDone
  \/ CancelTask

(* The run is over. *)
Finished == graph = "closed" /\ UNCHANGED vars

Next == (\E w \in Worker : WorkerStep(w)) \/ GraphStep \/ ControlStep \/ Finished

(* asyncio runs every task that is ready, and wait_for bounds every agent;  *)
(* nothing obliges the graph to start a drain, the clock to run out or a    *)
(* user to cancel.                                                          *)
Fairness ==
  /\ \A w \in Worker : WF_vars(WorkerStep(w))
  /\ \A r \in Role : WF_vars(EndDrain(r) \/ FailDrain(r))
  /\ WF_vars(BeginClose) /\ WF_vars(Reap)
  /\ WF_vars(HookTimeout) /\ WF_vars(HookDone) /\ WF_vars(CancelTask)

Spec     == Init /\ [][Next]_vars
FairSpec == Spec /\ Fairness
-----------------------------------------------------------------------------
(* Properties.                                                              *)

TypeOK ==
  /\ seen \in SUBSET Url
  /\ queue \in [Role -> Seq(Url \cup {None})]
  /\ pending \in [Role -> Nat] /\ inflight \in [Role -> Nat]
  /\ live \in [Role -> Nat]
  /\ producersDone \in [Role -> BOOLEAN] /\ drained \in [Role -> BOOLEAN]
  /\ results \in SUBSET Url /\ folded \in SUBSET Url
  /\ buffer \in [Role -> SUBSET Url]
  /\ embeddedEnqueued \in SUBSET Url
  /\ cancelled \in BOOLEAN /\ errors \in BOOLEAN /\ flag \in BOOLEAN
  /\ pc \in [Worker -> WorkerState]
  /\ item \in [Worker -> Url \cup {None}]
  /\ graph \in GraphState /\ awaited \in SUBSET Worker
  /\ hook \in HookState /\ joined \in SUBSET Worker

(* The hand-kept counters, which replace a count asyncio.Queue does not     *)
(* offer, agree with the queues and the tasks in every state: what          *)
(* _check_drained and ensure_workers decide from is the truth.              *)
Outstanding(r) == Queued(r) \cup {item[w] : w \in Busy(r)}
Accounting ==
  \A r \in Role :
    /\ pending[r] = Cardinality(Outstanding(r))
    /\ inflight[r] = Cardinality(Busy(r))
    /\ live[r] = Cardinality(Alive(r))

CountersTrue == TypeOK /\ Accounting

(* A URL is in one place only: once in one queue, or on one worker, or in   *)
(* the results; so no page agent is ever run twice on a URL, in either role.*)
NoRepeat(s) == \A i, j \in DOMAIN s : s[i] = s[j] /\ s[i] # None => i = j
OneOwner ==
  /\ \A r \in Role : NoRepeat(queue[r])
  /\ Queued(Hosting) \cap Queued(Embedded) = {}
  /\ \A v, w \in Worker : pc[v] = "busy" /\ pc[w] = "busy" /\ item[v] = item[w]
                             => v = w
  /\ \A r \in Role : Queued(r) \cap (Running \cup results) = {}
  /\ Running \cap results = {}

(* Unless the run is cancelled, every URL ever accepted is queued, being    *)
(* processed or has its result: crashes and sentinels lose none.            *)
NothingLost ==
  ~cancelled => seen = Queued(Hosting) \cup Queued(Embedded) \cup Running \cup results

(* Every result is in exactly one of the two buffers or folded: a drainer   *)
(* neither loses nor repeats a result a worker produced before it ran.      *)
ConsumedOnce ==
  /\ results = folded \cup buffer[Hosting] \cup buffer[Embedded]
  /\ buffer[Hosting] \cap buffer[Embedded] = {}
  /\ folded \cap (buffer[Hosting] \cup buffer[Embedded]) = {}

(* wait_until_drained returns without raising only when no item of the role *)
(* is queued or being processed, although hosting workers keep producing.   *)
DrainSound ==
  \A r \in Role :
    graph = r /\ drained[r] /\ ~cancelled /\ ~errors => Outstanding(r) = {}

(* No lost wake-up: while a drainer is suspended there is work left and a   *)
(* live worker to do it, so the event will be set.                          *)
NoLostWakeup ==
  \A r \in Role : graph = r /\ ~drained[r] => pending[r] > 0 /\ live[r] > 0

(* A cancelled pool never blocks a drainer, whichever side cancelled it and *)
(* even if the drainer reopens the cycle afterwards.                        *)
CancelWakesDrainers == cancelled => \A r \in Role : drained[r]

(* aclose has placed a sentinel for every task its gather waits for.        *)
SentinelsSuffice ==
  graph = "closing" =>
    \A r \in Role : Cardinality({i \in DOMAIN queue[r] : queue[r][i] = None})
                       >= Cardinality(awaited \cap Alive(r))

(* What is waited for comes: no drainer and no aclose is left waiting for a *)
(* worker that sleeps or has gone.                                          *)
NoneWaitsForEver == NoLostWakeup /\ CancelWakesDrainers /\ SentinelsSuffice

(* Each URL accepted has one result, and each result one reader.            *)
ResultsExact == NothingLost /\ ConsumedOnce

(* pools.py:256 of aclose: "Stop workers, reap their tasks".  The code does *)
(* not: a worker that gather waits for may hand over a first embedded URL,  *)
(* whose workers are spawned after gather's snapshot of the task list.      *)
ClosedMeansReaped == graph = "closed" => LiveTasks = {}

(* Once cancelled, the pools take no URL and start no worker.               *)
CancelIsFinal ==
  [][cancelled => seen' = seen /\ \A w \in Worker : pc[w] = "off" => pc'[w] = "off"]_vars

(* A drain that began ends.                                                 *)
DrainEnds == \A r \in Role : graph = r ~> graph # r

(* aclose returns: after a deadline, a crash, a cancellation, always.       *)
CloseEnds == graph = "unwinding" ~> graph = "closed"

(* The graph is never held up by its pools: drains end, and so does aclose. *)
WaitsEnd == DrainEnds /\ CloseEnds

(* A cancellation that reached the pools ends the run and every worker.     *)
CancelStopsAll == hook = "waiting" ~> graph = "closed" /\ LiveTasks = {}

(* Whatever the run waits for its pools with ends: a drain, aclose, the     *)
(* hook of a cancellation.                                                  *)
PoolsEnd == WaitsEnd /\ CancelStopsAll

-----------------------------------------------------------------------------
(* The pools implement the ledger of UrlLedger.                             *)
StageOf(u) ==
  CASE u \notin seen -> "unseen"
    [] u \in Queued(Hosting) \cup Queued(Embedded) -> "queued"
    [] u \in Running -> "running"
    [] u \in folded -> "folded"
    [] u \in results \ folded -> "reported"
    [] OTHER -> "lost"

Ledger == INSTANCE UrlLedger
            WITH stage <- [u \in Url |-> StageOf(u)], stopped <- cancelled

(* Every step of the pools is a step of the ledger or changes nothing in it:*)
(* queued once, run once, folded once, lost only in a cancelled run.        *)
ImplementsLedger == Ledger!Spec
=============================================================================
