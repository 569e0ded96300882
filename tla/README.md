# Open Web Catcher: TLA+ models and proofs

Open Web Catcher takes the URL of a suspected pirate-stream site, lets LLM
page agents drive a browser over it, collects stream evidence and prepares
takedown mails. This directory models the parts of it where the order of
things matters: the worker pools of a run and the graph that drives them, the
agents, their tools, their memory and their evidence, the queue that runs are
executed from, what is stored of a run and what the console shows of it, the
dataset, the costs, the mails and the settings. Source paths are relative to
the repository root (`src/agents/pools.py` and so on).

## Inventory

| Part | State | Operations | What is hard | Module |
|---|---|---|---|---|
| Worker pools (`agents/pools.py`) | two FIFO queues, `seen_urls`, hand-kept counters, `drained` events, results and per-role buffers, worker tasks | `enqueue`, `ensure_workers`, `open_cycle`, `wait_until_drained`, `consume_results`, `cancel`, `aclose`, worker loop | several producers and consumers, a drain that must neither end early nor hang, three ways to cancel, failures of agents and workers | `RunPools`, `UrlLedger` |
| Pipeline graph (`agents/orchestrator.py`, `agents/validator.py`) | pending lists, extraction results, replan counter | one node per stage, routers, workflow deadline, evidence gate | who drains which pool when, what the gate sees, one bounded replan, leaving the graph at any point | `Pipeline` |
| Page agents (`agents/landing_page.py`, `hosting_page.py`, `embedded_page.py`) | answers, evidence, targets, final status | normalising an answer, merging the run memory into it, routing | a model that forgets what its tools saw; partial failure | `Evidence` |
| Run of an agent (`agents/pools.py` `_run_agent`, `agents/*_page.py`, `classification.py`, `agents/memory.py`) | connection to the tools, timer, verdict, what memory and trace keep | connect, run the loop, close, judge, remember, answer | a cancellation or a timer at any await, also while the connection is closed | `AgentRuns` |
| Run of the graph (`OrchestratorAgent.run`, `_background_workflow`) | state merged so far, deadline, budget, registered pools | start, node, deadline, budget, close the pools, answer | a deadline in the middle of a node, a budget changed under the run, two coroutines that tell the end | `WorkflowRun` |
| Handoffs (`orchestrator.py` `_build_*_handoff`, `pools.py`) | what each queued target is told | announce, queue, build late, give | a target is queued by whoever comes first, with or without its handoff | `Handoffs` |
| Agent runtime (`agents/runtime/`) | message history, budgets, cache of tool results | boot calls, model call, tool batch, compaction, final answer | limits that meet each other, retries, cancellation between two calls, a cache against a changing page | `AgentLoop` |
| Working memory (`memory/short_term.py`) | deque of events, capped lists of signals | record, remember, state for the prompt | which entries fall out | `WorkingMemory` |
| Memory of sites (`memory/long_term.py`, `SiteHintRepository`) | hints with success rate and expiry | upsert, recall, prune | concurrent writers, a unique key, retention | `SiteMemory` |
| Browser sessions (`tools/playwright/runtime/`, `shared/browser-state.js`, `mcp-server.js`) | connections, browsers by scope, launches in flight, reference counts, host cookie jar | acquire, release, close all, merge | joined launches, vanished clients, shutdown during a launch, merges of one jar | `BrowserSessions` |
| Page tools (`tools/playwright/tools/`) | epoch of the DOM, candidates, network ledger, wait counter | navigate, inspect, interact, wait | the page changes by itself between two calls | `PageTools` |
| Playground sessions (`api/app.py`) | MCP sessions by profile | get, call, expire, close | duplicate opening against expiry, a retry after a failure | `ToolSessions` |
| Job queue (`api/app.py`, `storage/repositories.py`, `storage/dataset_repository.py`, `api/datasets.py`) | rows of jobs, site runs and batches; the tasks of the one API process | enqueue, claim, execute, heartbeat, three cancel endpoints, startup recovery, shutdown | separate commits, cancellation against completion, crash and restart, retries | `JobQueue` |
| Run registry and stream (`utils/observability.py`, `_stream_trace` and the persistence loop of `api/app.py`, `web/lib/use-*-stream.ts`) | traces with numbered events, cancel flag; the reader's last number | emit, restore, follow, reconnect | a reader across restart and retry | `RunTrace` |
| Run storage (`RunRepository`) | the run's row, its children, its job | snapshot, save, delete, clean-up | a delete or a crash between two commits | `RunStore` |
| Agent rows (`storage/repositories.py`) | rows cut out of one event list | extract contexts, number invocations | agents of one role that overlap | `AgentRows` |
| Run plan (`orchestrator/run_plan.py`, `RunPlanRepository`) | plan and step rows | emit, transition | writes that fail, crashes, replans | `RunPlanSteps` |
| Notes (`_sync_auto_decisions`) | decisions of a run | sync a list, edit, delete | two tabs post the same list | `RunNotes` |
| Console pages (`ui_runs`, `ui_run_detail`, `get_overview`, `get_run_detail`) | what three records of a run are merged to; rollups of agents | list, filter, detail, totals, stages | records written at different times | `RunBoard`, `AgentRollups` |
| Dataset (`storage/dataset_repository.py`, `api/datasets.py`) | sites and counts, seeding, health checks | import, rename, delete, finalise a run, seed, check | counts written from an old look; two seeders | `DatasetSites`, `SiteHealth` |
| Usage (`utils/observability.py`, `utils/instrumentation.py`) | metrics, events, prices | price, add, cap, store, show | answers under way when the cap is hit; three places that add up | `UsageLedger` |
| Takedown mails (`utils/ipinfo.py`, `orchestrator/emailing.py`) | provider rows, drafts | look up, group, draft, store, recover | streams of several servers, pages and hosts | `Takedown` |
| Settings (`utils/config.py`, `api/provider_config.py`) | two files, one shared object, the bridge file | load, update, refresh a catalogue, save, reset | everybody holds the same object; saves are not atomic | `OperatorSettings` |
| Proxy pool, accounts, LLM clients, migrations, scripts | - | - | see Not modelled | |

How they interact: the console posts a URL or a batch; `_enqueue_background_job`
or `create_batch` write job rows; the loop `_background_worker_loop` claims a
row and starts a task that runs the pipeline; `OrchestratorAgent.run` creates
the pools, drives the graph and closes the pools; landing and hosting results
feed the pools while later nodes drain them; each page agent is a loop of model
and tool calls over a connection to the tools server, with a working memory of
its own and the hints of its site; every step reports to the run's trace, which
is persisted every second and which the console follows; the result is stored
at the end, its streams become mails, its costs a row. A cancel request raises
a flag in the trace, tears the pools down (`cancel_run_pools`), cancels the
run's task and writes the rows.

## Modules

Each module's head says what it abstracts from. `Pipeline` extends `RunPools`,
`RunTrace` extends `JobQueue`, and the eight `...Proofs` modules extend what they
prove about, several modules each. The others share no state and are composed for
checking only:

| Module for TLC | Composes |
|---|---|
| `MCRunPools`, `MCJobQueue`, `MCPipeline` | `RunPools`; `JobQueue`; `Pipeline` |
| `MCPoolsLive` | `Pipeline` (the graph) or `RunPools` with its general client, and the refinement of `UrlLedger` |
| `MCLifecycles` | `AgentLoop`, `BrowserSessions`, `RunTrace`, `SiteHealth` |
| `MCRecords` | `RunStore`, `RunNotes`, `RunPlanSteps`, `DatasetSites`, `SiteMemory`, `OperatorSettings` |
| `MCPages` | `UsageLedger`, `RunBoard`, `AgentRollups`, `Takedown`, `Handoffs` |
| `MCPageWork` | `AgentRows`, `ToolSessions`, `WorkingMemory`, `PageTools`, `Evidence` |
| `MCRuns` | `JobQueue`, `WorkflowRun`, `AgentRuns` |

In the last six a variable `focus` (`driver` in `MCPoolsLive`) is chosen in the
initial state; only that part steps, and fairness is asked of it alone. The
states are the sum of the parts' states and each part behaves as it does alone,
since they share nothing. A property of a part that is not the focus is a
statement about its initial state.

Some variables record for the properties only, and say so where they are
declared: who overlapped whom, what was accepted, what was captured.
Each definition marked `mutant` is a plausible fault of the definition that
follows it; nothing else uses it.

### RunPools

All coroutines of a run share one asyncio loop, so a step is what one
coroutine does between two awaits. A worker is `off`, at the loop `top` before
the flag check, `waiting` in `queue.get()` or `busy` in its agent. The model
is finer than the code at the loop top: the code goes from the end of one item
to the next `get` without an await, the model lets others step in between. The
URLs one result hands over join a queue in any order.

| Action | Code |
|---|---|
| `AbortAtTop`, `Block`, `TakeItem`, `TakeSentinel` | `_worker_loop` up to its next await |
| `FinishItem` | `_process_item` after the agent answered, timed out or failed; `_post_process_hosting`; the `finally` clauses |
| `Crash` | an exception outside the agent's `try`, and the worker's `except Exception` |
| `AgentCancelled`, `Kill` | `RunCancelledError` from the agent; `task.cancel()` from the hook |
| `Produce` | enqueue from the landing node |
| `BeginDrain` (`StartDrain`), `EndDrain`, `FailDrain` | `open_cycle`, `enqueue` of the node's targets, `wait_until_drained`, `consume_results` |
| `LeaveGraph`, `BeginClose`, `Reap` | end of the graph stream or deadline; `aclose` |
| `RequestCancel`, `HookCancel`, `HookTimeout`, `HookDone`, `CancelTask` | the flag; `cancel_run_pools`; `_cancel_active_run_task` |

The client is any coroutine that keeps `CanDrain`: it drains the embedded pool
only while the hosting pool, its other producer, is idle. Time is left out: a
timeout may strike whenever its call is pending. One cancellation hook runs at
a time; a second one finds the pools cancelled and only waits.

### Pipeline

`Pipeline` extends `RunPools`, keeps its workers and its control room, and
replaces the general client by the graph: one action per node, split at its
await (`HostingBegin`/`HostingEnd`, `EmbeddedBegin`/`EmbeddedEnd`). Routers are
operators with the destinations `build_graph` maps them to. A result is its URL
and whether it holds streams; the agents, the probe and the judge answer
anything they may. `Classify` is the classification with its confidence gate
(at most one tiebreak, a failed classification, the hosting fallback of an
embedded page); targets `embedded_page` skips are any subset.
The branch of `embedded_page` that has nothing to do is left out because no
route reaches it without pending targets. `KeepsPoolProtocol` states that every behaviour of
the pipeline is one of `RunPools!Spec`: this is what makes the results about
the general client results about the orchestrator.

### JobQueue

The rows survive a crash, everything else is lost. A task that executes a job
is `created`, `running` (awaiting the workflow), `unwinding` (cancelled) or
`returned`. Database calls are synchronous, so a step contains all commits up
to the next await, and the `CrashIn...` actions put a crash between them.

| Action | Code |
|---|---|
| `CreateBatch`, `Enqueue` | `POST /api/datasets/batches`: one commit for the rows, one per job |
| `Claim` | `claim_next` and `mark_site_run_running` from the worker loop |
| `Start`, `Finish`, `Conclude` | `_execute_background_job` around `_background_workflow`; `JobAfter` and `SiteAfter` are its three branches |
| `CancelIdle`, `CancelRun`, `CancelTask`, `CancelRows` | `POST /ui/runs/{run_id}/cancel` |
| `CancelActive`, `CancelBatch`, `SweepNext` | the bulk and the batch endpoint: rows first, then the tasks one by one |
| `Crash`, `CrashInClaim`, `CrashInConclude`, `CrashInCancel` | death of the process, also between two commits |
| `Shutdown`, `Stopped`, `Restart` | lifespan shutdown and startup with `recover_stale_running` and the orphan sweep |

Which claimable row is taken is left open (the code takes the oldest). Leases
and heartbeats are the set `stale` of `Restart`: with `EarlyRestart` any
subset, otherwise all rows; `Recovered` is what `recover_stale_running` makes of
one. A running workflow heartbeats from its persistence
loop, and nobody reads the lease while the process is up. Statuses are merged
where the code treats them alike (`success` and `partial`; all failures). One
bulk or batch cancel runs at a time, and there is one batch.

### RunTrace

`RunTrace` extends `JobQueue` and follows one run: each step of the queue is
taken together with what the same code does to the trace. The log is the
sequence of the epochs (attempt and life of the process) its events come from,
an event's number being its position. The console is a connection that may
break at any time and the list it has folded; it stops once it was told that
the run is completed.

| Action | Code |
|---|---|
| `TraceStart` (`Create`, `Restore`) | the head of `_execute_background_job` and `_background_workflow`: take up, restore or replace the trace |
| `Emit`, `Persist` | `RunObserver.emit`; a round of `_trace_persist_loop` |
| `TraceFinish` | final event, `finish`, last snapshot |
| `TraceCancel` (`RequestCancel`) | the cancel endpoints on the registry |
| `TraceShutdown`, `TraceDown` | shutdown closes the streams, the registry dies with the process |
| `Connect`, `Disconnect` | the `EventSource` and its reconnects |
| `TickTrace`, `TickRestore`, `TickRows`, `TickJob` | the four ways through a round of `_stream_trace`, with `applyRunStreamPayload` |

The trace of the focus "trace" of `MCLifecycles` is one run with its queue.
Left out: eviction from the registry (fewer than `max_runs` traces are alive),
database writes that fail, metrics and plan snapshots.

### AgentLoop and WorkingMemory

`AgentLoop` is `run_agent_loop`: boot calls, then supersteps of the nodes
`llm`, `tools`, `compact_context` and `budget_exhausted`. `CallModel`,
`ModelAsks`, `ModelFinishes`, `ModelFails` are a model call with its retries;
`DispatchTools`, `CallTool`, `ToolSucceeds`, `ToolFails`, `EndTurn` a batch of
calls; `Compact` a continuation; `CallModelLast` the request for the final
answer when the budget is spent. The model
asks for any of the batches of the constants; a tool may succeed, fail, time
out after it has changed the page, or say that the site is down. Time appears
as the time limits of every wait, that may strike whenever it waits.

`WorkingMemory` is `ShortTermMemory`: a deque and, per kind of signal, a list
that is capped. `StartCall` and `FinishCall` are what the loop writes around a
call, whether it works or fails: `ArgumentNotes` what its arguments leave,
`Ingested` what a result does, `ErrorNotes` what is read in the text of an
error, `Asked` the observation of a question to the site memory. `Told` is what
the next prompt says.

### AgentRuns, WorkflowRun and Handoffs

`AgentRuns` is what surrounds `run_agent_loop`, for the classification and its
tiebreak, the landing agent, and the agents that workers run under a timer. The
awaits are those of connecting, of the loop and of closing the connection; at
each a cancellation, a timer or a failure may strike.

| Action | Code |
|---|---|
| `Begins` (`Begin`), `Connects` | a node or a worker starts an agent; the connection to the tools |
| `LoopAnswers`, `LoopRaises` | the loop returns or raises |
| `Closes` (`Replies`, `Tell`) | the connection is closed, the answer judged, `remember_agent_run`, `agent_finished` |
| `TimesOut`, `IsKilled` (`Throw`) | `asyncio.wait_for` around a worker's agent; `task.cancel()` |
| `CancelRequested`, `Ends` | the flag of the trace; the graph is cancelled, or the pools too |

`WorkflowRun` has the nodes as opaque steps that spend and may hang
(`EnterNode`, `PassNode`, `Spend`, `LeaveNode`, `NodeRaises`); the deadline, the
budget and a cancellation end the graph (`Leave`), `Settle` closes the pools and
tells the trace and the caller. A shutdown of the process cancels the run's task
without the cancel flag (`ShutDownRun`), which is answered as cancelled too. The
budget is the one in the shared settings, so an operator may change it under the
run (`SetLimit`). A `TimeoutError` of a
node is told as the deadline of the workflow.

`Handoffs` has the two sides that queue a target, the graph and the workers,
and what each knows when it builds a handoff. Two facts it makes plain, both
by design of the code: whatever verdict is reached, the fallback after garbage
included, the memory keeps a classification as a success; and in a run that
does not go through the landing node, a handoff built by a worker calls its own
target the root and has no verdict, which is why `RunTold` is about landing
runs.

### BrowserSessions, PageTools and ToolSessions

`BrowserSessions` is the Node process of the tools server: a step is what runs
between two awaits. A connection is `new`, `launching`, `joining`, `open` or
`gone`; a browser `starting`, `open`, `closing`, `merging`, `writing`,
`closed` or `dead`. Clients vanish without a word, pages close by themselves,
and the server may crash. The file system may fail the server (`Fault`): a jar
that cannot be read counts as none (`Jar`), and a merge that fails leaves the
file as it was or torn, and goes on to close the browser (`MergeFails`).

`PageTools` is one tab. The page adds, removes and hides elements and sends
requests between any two steps of a tool; its observer of mutations is there
from `Observe` on, which is DOMContentLoaded. An interaction is five steps with
awaits between them: `Interact` reads what to compare with, `Check` refuses a
stale candidate, `Locate` counts the elements that carry its number and, when
there is none, goes on to whatever else the caller gave (`Found` by "other",
which may find any element or a point on none), `Act` looks the element up
again, and `Verify` compares. The tools are given a session
(`Wired`), as their tests do; see Known disagreements. `inspect` numbers the
elements its selector finds and stamps the ones it shows; `numbering` remembers
whether a document was inspected once or again, and `sole` is true of a click
whose answer is the only numbering of its document. A second inspection with
another role or scope numbers anew, and for the 200 ms until the epoch advances
an older candidate passes as fresh; `ActsOnNamed` excepts it.

`ToolSessions` are the playground's MCP sessions of one profile, opened and
closed outside the lock that guards the map.

### Evidence and Takedown

`Evidence` follows a URL from the tool that captured it through the agent's
answer, the merge of the run memory, the targets, the evidence gate (`Gate`,
with `ProbeOutcomes`, `JudgeVerdicts`, `FallbackVerdict`) to the final status.
Sets stand for lists; what a URL looks like is a constant. `Takedown` takes the
streams of the result to provider rows and drafts, stores them and shows them; a
row of evidence is a record per stream, written again by each server that lists
it and filled where it is blank by the page's own list.

### RunStore, AgentRows, RunPlanSteps, RunNotes

`RunStore` has one run's row, its job row and its trace, the snapshots every
second, the final save and the job's row in transactions of their own, `DELETE
/ui/runs/{run_id}` on a worker thread, and the crash between any two. An
attempt's number stands for its data. `AgentRows` reads events as they are
written and cuts them into contexts, one open per name. `RunPlanSteps` wraps
the nodes; every write may fail. `RunNotes` has two tabs that post the list of
decisions derived from the events each has seen.

### DatasetSites, SiteHealth, SiteMemory, UsageLedger, RunBoard, AgentRollups

`DatasetSites`: transactions of worker threads that count first and write
later. `SiteHealth`: attempts of a probe, a bounded number at a time. A check
that is interrupted fails as a whole. `SiteMemory`: `Writing`, `Find`,
`Insert`/`Blend` and the retry after a clash of the unique key; a write that
fails both times is `lost`. `UsageLedger`: an answer is priced, added and
logged in one step; prices change between answers; rows are made of metrics
and of events. `RunBoard` and `AgentRollups` are pages: they compute what they
show from the records, and the properties compare it with what happened. The
sweep of `_max_concurrency` is a number per entry of the time line
(`RollActive`): entries that tie are of one sign, so that their order among each
other does not matter to the greatest.

### OperatorSettings

The environment, `configs/settings.yaml` and `data/settings.runtime.yaml`, the
object `_settings` all requests share, and the bridge file of the browser
tools.

| Action | Code |
|---|---|
| `AskSettings`, `AssignSettings`, `TakeSettings` | `get_settings`: look, load and assign, return; another thread may reset in between |
| `Edit`, `Refuse` | `apply_ui_config_update` on the shared object; a provider that is refused after other fields were set |
| `NoCatalog`, `CatalogSaved` | `get_ui_provider_models`: no live catalogue; the live one is stored and saved |
| `OpenFile`, `WriteFile`, `SaveFails` | `save_yaml`: the file is emptied, then written; the base file when the runtime file cannot be opened |
| `ResetSettings`, `WriteBridge` | `reset_settings_cache`; `save_browser_runtime_bridge` |
| `SettingsRestart` | death of the process and `lifespan` |

A request that is rejected by `validate_settings_patch` changes nothing and is
no action. Values that are cleared are blank and count as absent; after
`save_yaml` has left blanks out, the second clean-up of cleared keys finds
nothing to do.

## What the runs check

| Run | Instance | Result |
|---|---|---|
| `pools` | 3 URLs, 2 workers per role, symmetric | exact counters (`CountersTrue`), one owner per URL (`OneOwner`), nothing lost or consumed twice (`ResultsExact`), drains end only when the pool is idle (`DrainSound`), no lost wake-up, cancellation wakes all, enough sentinels (`NoneWaitsForEver`), cancellation is final (`CancelIsFinal`) |
| `pools_live` | root and 1 URL, 1 worker per role, 1 replan | drains and closes end and a cancellation stops all workers (`PoolsEnd`), the graph ends (`GraphEnds`), the pools implement `UrlLedger` (`ImplementsLedger`) |
| `queue` | 3 runs, 2 attempts, 2 at once, 1 crash, early restarts and cancels, symmetric | attempts bounded and the batch in step with its rows (`QueueSafe`), never claimed twice (`NotClaimedTwice`), ended jobs stay (`TerminalIsFinal`) |
| `pipeline` | root and 2 URLs, 1 worker, 1 replan, symmetric | the graph is an allowed client of the pools (`KeepsPoolProtocol`); the gate sees all evidence and only probed evidence passes (`GateSound`) |
| `lifecycles` | agent: 3 calls, 3 continuations, 2 retries, cache of 1; browsers: 3 connections, 2 scopes, 2 cookies, 1 fault of the file system, 1 crash; trace: 1 run, 2 attempts, 1 crash, 3 events; health: 2 sites, 1 slot | `LoopSafe`, `StopsCalling`, `BrowsersSafe`, `TraceSafe`, `HealthSafe`, `EverythingEnds` |
| `records` | store: 3 attempts, 2 crashes; notes: 2 requests, 2 decisions, 3 rows; plan: 2 attempts, 6 visits; sites: 2 URLs, 1 seed, 2 writers, 1 looker, 2 runs; memory: 3 runs, 2 page types, 2 days; settings: 2 requests, 3 fields, 3 updates | `StoreTrue`, `NotesTrue`, `PlanTrue`, `SitesTrue`, `MemoryTrue`, `SettingsTrue` |
| `pages` | usage: 2 runs of 2 agents, cap 9, 3 calls; board: 2 runs, 2 attempts; rollups: 2 stages, 2 agents, 4 events; mails: 2 page results, 3 streams on 2 hosts; handoffs: 2 watch pages, 1 player, 1 replan | `CostsTrue`, `BoardTells`, `RollupsTell`, `MailsTrue`, `HandoffsTrue` |
| `page_work` | rows: 3 invocations, 2 workers, 2 parts; sessions: 3 callers, 2 opened; memory: 3 kinds of calls, window 4, caps 2 and 3; tools: 1 tab, 3 elements, 3 layouts, 2 selections, 1 load, 1 advance of the epoch, 2 requests, the document and the traffic in turn; evidence: 8 URLs, 1 replan | `RowsTrue`, `SessionsSafe`, `WorkSafe`, `ToolsSafe`, `EvidenceSafe` |
| `runs` | queue: 2 runs, 2 at once, 1 crash; workflow: 7 visits, spending up to 2, budgets none and 1; agents: classification, tiebreak and 1 agent of each kind, 4 words, 3 forms of a reply | every job ends, every cancel request is answered, every batch of a process that does not die ends and stays as it ended (`QueueEnds`); `WorkflowSafe`, `AgentRunsSafe`; agents that began and the run around them end (`RunsEnd`) |
| `pools_leak`, `queue_cancel_race`, `pipeline_replan` | as `pools`, `queue`, `pipeline`, smaller | expected to fail: see below |

A property of a group is a conjunction of named parts, each with a comment that
states it and names the code. The parts, per module:

- `AgentLoop`: an agent ends before LangGraph's recursion limit
  (`EndsBeforeRecursionLimit`), says `budget_exhausted` only when it is
  (`BudgetReportedTrue`), never asks a model with an unanswered tool call
  (`CallsAnswered`), serves no result of an older page from its cache
  (`CacheFresh`), begins no call after a cancel request
  (`NoCallAfterCancel`) and stops when told to (`StopIsFinal`).
- `BrowserSessions`: a browser in use stays open and is counted right, one per
  scope; no credential enters the jar; merges lose no cookie (`JarKeeps`), except
  one that could not read the file, which takes it for empty and writes over it;
  that needs a fault of the file system or a crash, and no order of closes is one
  (`LossExplained`); every browser is closed in the end.
- `RunPools`, `JobQueue`: `CountersTrue` is `TypeOK` and `Accounting`, `QueueSafe`
  is `TypeOK`, `AttemptsBounded` and `BatchInStep`; `PoolsEnd` is `WaitsEnd` and
  `CancelStopsAll`, `QueueEnds` is `JobsEnd`, `CancelAnswers` and `BatchEnds`.
- `RunTrace`: the console's list of a run executed once is a beginning of the
  log and all of it when it stops (`ShownWhole`); the stream ends
  (`StreamEnds`).
- `SiteHealth`: a site is offered for deletion only if no attempt reached it.
- `RunStore`: `succeeded` means the result is stored; shown streams survive
  snapshots and clean-up; what is shown agrees with the job; a deleted run
  stays deleted.
- `RunNotes`: each decision once; the operator's own are never touched; a
  request that nobody disturbed leaves exactly its list.
- `RunPlanSteps`: the stored plan tells which node runs; the console shows it.
- `DatasetSites`: the counts of a site are those of its runs; removed sites are
  not seeded again while another is left (`RemovedStaysOut`). Excepted is a site
  that was removed while a request that had found the dataset empty was under
  way: its import does not look again and adds the site. `SiteMemory`: no writer is refused by the unique key, none
  that wrote alone is lost, nothing expired is shown after a start.
- `OperatorSettings`: what was accepted is what the next load gives
  (`AcceptedLoads`); what is in force and what the browser tools read is what
  is stored (`InForceIsStored`); no secret enters the base file
  (`SecretsKept`).
- `UsageLedger`: lines add up to the total, events to the metrics; the cost
  stays below the cap and one answer per agent; the overview misses no call.
- `RunBoard`: a filter finds what the list shows under its word; a page never
  says that an ended run goes on; the overview adds up; a run blocked by the
  provider counts once. `AgentRollups`: the peak is the number that really
  worked together; a stage goes on exactly while an agent of it does, and
  counts as done only if each of them succeeded.
- `Takedown`: a mail names its addressee's streams only; together they name
  every stream; screenshots are of a page that lists the stream, labels of a
  server that does.
- `AgentRows`: an invocation that ran alone has a row of its own; no event is
  in two rows. `ToolSessions`: every open session has an owner who closes it;
  no call begins on a closed one. `WorkingMemory`: only the oldest is
  forgotten (`HeardKept`, `FreshSurvive`; labels under a raised cap may lose what
  was just seen again while their list is exactly as long as the smaller cap,
  which is excepted); a recent failure is told. `PageTools`: an interaction that
  finds an element with the candidate's number acts on the one that was named,
  and acts on another, or on none, only when no element carries the number
  (`ActsOnNamed`); no mutation is missed once the page has settled, for what was
  read after the observer started (`SettledIsSeen`); requests during an
  interaction are noticed unless the ledger was full; waiting is bounded.
- `AgentRuns`: no connection is left behind (`ConnectionsClosed`); memory,
  trace and caller are told alike (`ToldAlike`); pages are worked on after a
  verdict that passed the gate (`WorkAfterVerdict`); nothing begins after a
  cancelled classification (`CancelStopsRouting`).
- `WorkflowRun`: a partial result has the output of every node that ended and
  of no other (`PartialIsWhole`); trace and caller are told the same, and
  "cancelled" only when a cancel was asked for or the process is shut down, which
  cancels its runs without asking (`ToldAsAnswered`); the pools leave the registry
  unless the run fails before its first node or a shutdown meets it while it
  closes them (`PoolsLeave`); `BudgetHolds`.
- `Handoffs`: an agent gets the handoff that was announced (`AnnouncedGiven`),
  with what the landing page said of its target (`MatchTold`) and of the run
  (`RunTold`), whoever queued it first.
- `Evidence`: every captured stream is reported or was dropped by the gate;
  players that were seen are visited; no browser is sent to a stream; embedded
  agents run on the three triggers only; an answered run does not fail.

Bounds. Three URLs let one URL be queued, one run and one be discovered at
the same time, also in different roles; two workers per role are the least
with which sentinels, drains and crashes of one meet the work of the other.
Three runs with two slots are the least where one waits while two execute;
two attempts are the code's default and show both the retry and the dead
letter; one crash already meets every commit boundary, and the theorems cover
any number. One replan is the code's `MAX_REPLANS_PER_STAGE`. The liveness runs
use smaller instances without symmetry; the waiting they check for needs one
worker and one item. Three calls and three continuations let the budget end
within a batch, at its end and after a compaction; a cache of one evicts. Three
connections on two scopes are a launcher, one that joins it and one beside
them. One fault of the file system (`MaxJarFaults`) is the least that tears a jar
while the server lives and shows the next merge that cannot read it. A call with
URLs, one with a locator and one to the site memory, each of which may fail,
leave every kind of note a call leaves. Two writers, requests, agents or tabs of everything else are enough for
each pair of steps to meet, and a third of what they write shows what the first
two left. Three updates are the least in which a slow catalogue meets two
settings objects. Deadlock is checked in every run that drives one part;
`Finished` in `RunPools` is the stutter of a run that is over. In the five
group runs it is not, since their parts end or keep still.

Each checked property has a mutant: a fault in one definition of the model
under which the run's own instance violates the property.

### Disagreements with the documentation

Each of these runs is expected to fail, and the property quotes the text.

| Run | Text | What happens |
|---|---|---|
| `pools_leak` | "Stop workers, reap their tasks" (`pools.py:256`) | workers spawned by the last hosting result, after `gather` took its snapshot, outlive `aclose` |
| `pipeline_replan` | "re-queue the affected target pages" (`orchestrator.py:1631`) | they are in `seen_urls` and suppressed as duplicates |
| `queue_cancel_race` | "the final status is `cancelled`" (`docs/architecture/streaming-role-contracts-spike.md:307`) | a workflow that just returned overwrites the cancelled site row |

### Known disagreements

Also found with the models, as a counterexample to the property that says what
the text says. They have no run of their own: the checked properties state what
does hold and name the exception.

| Where | Text | What happens |
|---|---|---|
| `api/app.py:741` | "the startup sweep owns them" (`streaming-role-contracts-spike.md:237`) | a restart within the lease never recovers the row (`JobsEnd` with `EarlyRestart`) |
| `api/app.py:1643` | "no further updates will arrive" (`web/lib/use-run-stream.ts:113`) | a failed attempt completes the trace and the console stops, though the job is retried; one that missed it drops the first events of the retry |
| `agents/orchestrator.py:1608` | a dropped URL stays out (line 1628) | the servers of a page result keep it |
| `storage/repositories.py:2105` | one row per invocation (`docs/workflow/dashboard-logging.md:217`) | invocations of one role that overlap share a row |
| `storage/ui_repository.py:2035` | the events agree with the metrics (`agents/runtime/loop.py:444`) | the overview counts a call under its provider's and under its resolved name |
| `utils/console_state.py:12` | `no_target` is terminal (`orchestrator.py:1905`) | it is in no set of terminal statuses: its batch stays running, the overview counts it nowhere (`storage/dataset_repository.py:1142`) |
| `storage/ui_repository.py:1167` | a stage that works is shown as running (`agent-output-panel.tsx:139`) | agents that share an actor hide each other's end |
| `agents/orchestrator.py:2290` | "pools are idle here on every exit path" (line 2286) | a deadline or a spent budget ends the graph while a drain is given up, and `aclose` lets the workers take every page queued before its sentinels: the run goes on until that is done |
| `agents/pools.py:352` | "D4.3: never launder cancellation into FAILED/TIMEOUT" (line 356) | the timer of `wait_for` strikes while a cancelled agent closes its connection; its exception replaces the cancellation and the worker records a timeout |
| `agents/pools.py:425` | "source hosting page: ..." (`tests/test_orchestrator_handoff_and_email.py:330`) | a player that a worker queued first gets its handoff from the worker, which never knows the source page; the one of the graph is dropped as a duplicate |
| `memory/short_term.py:640` | the prompt line that says "recent" (line 638) | it need not be the latest entry |
| `api/app.py:1749` | "reopening session once" (line 1746) | it closes the key `profile`, while sessions are kept under `browser\|url\|profile` (212-215): the retry uses the session that failed |
| `agents/orchestrator.py:2256` | the plan is announced as stored | on a database that enforces foreign keys its row cannot be inserted before the run's (`ForeignKeys`) |
| `storage/models.py:823` | the walk of a step's status | `transition_step` accepts any order, so a replan goes from done back to in progress |
| `utils/ipinfo.py:165` | lookups are best effort (line 160) | an RDAP answer that is no JSON object ends the stage |
| `tools/playwright/runtime/page-state.js:134` | waits for a stable page (line 8) | a debounced page that keeps changing never has its epoch advanced |
| `tools/playwright/runtime/locator-engine.js:14` | candidates are "validated against pageStateTracker to detect DOM mutations" | a second inspection numbers elements anew, which is a mutation that the epoch shows 200 ms later: until then an older candidate passes as fresh and names another element |
| `tools/playwright/tool-registry.js:88` | tools share the session | it passes `browserWsEndpoint`, the tools read `browserSession`: called through the registry they answer with an error |
| `utils/config.py:16` | "a stronger layer always wins" | a catalogue fetched across two updates saves the older object over them; a refused update stays in the shared object and is stored by the next save; a crash between emptying and writing empties the file; an update that falls back to the base file is reported as stored though the runtime file shadows it; any update pins the values of the weaker layers |

Met without a property: a job cancelled after a crash and before its retry
leaves a restored trace that nobody completes (`StreamEnds` excludes it); the
registry may evict a running trace when a hundred others are open
(`observability.py:662`); two requests with one idempotency key both insert
(`repositories.py:1943`); a batch cancelled, or a process that dies, while
`create_batch` enqueues leaves queued rows without a job (`datasets.py:705`); a
halted run reports streams that were not probed (`orchestrator.py:2341`); the
idle reaper of the tools server looks at requests, not at launches
(`mcp-server.js:490`).

## Fairness

`RunPools`: asyncio runs every ready task and `wait_for` bounds every agent, so
each worker, the end of a drain, `aclose` and the hook, once they can step, do.
Nothing obliges the graph to begin a drain, the deadline to strike or a user to
cancel. `Pipeline`: agents, probe and judge calls carry timeouts, so nodes
return. `JobQueue`: the loop polls, every pipeline has a global deadline, and a
process that is down is started again; nobody has to create, cancel or crash.
`AgentLoop`: every wait has a time limit, so `Proceed` is taken. `SiteHealth`:
client time-outs. All of it is weak fairness. `RunTrace` adds that the console
reconnects while it has not been told the end, and strong fairness of the
stream's rounds: a connection may break again and again, but not before every
round. A run need not emit or persist anything but its final events.
`BrowserSessions`: a launch returns, a connection that ended is released, a
file write ends; the merge waits for a lock that others take and give back, and
is strongly fair. `AgentRuns`: connecting and closing return, the timer around a
worker's agent strikes, a cancelled task is resumed, and the node of a
classification or a landing agent, which has no timer of its own, is ended by
the deadline. `WorkflowRun`: a run that was started starts, the deadline strikes
and what follows it returns. The other modules have safety properties only.

## What is proved

With TLAPS, for every value of the constants that the named assumptions allow.
Each safety property that a passing run checks is a theorem. A proof module treats several modules that
share nothing; the table gives the theorem that states the checked property,
and the inductive invariant it rests on, each of which TLC has checked first on
the instance of the run.

| Module | Theorems (module: property) | Inductive invariant |
|---|---|---|
| `RunPoolsProofs` | `RunPools`: `OneOwnerHolds`, `CountersAreTrue` (`TypeCorrect`, `AccountingHolds`), `ResultsAreExact`, `DrainIsSound`, `NobodyWaitsForEver`, `CancelStays`, `PoolsImplementLedger` | `Own`, `Accounting`, `ResultInv`, `DrainInv`, `CloseInv` |
| `PipelineProofs` | `Pipeline`: `GraphKeepsProtocol`, `GateIsSound` | `PipeInv` |
| `JobQueueProofs` | `JobQueue`: `QueueIsSafe` (`TypeCorrect`, `AttemptsAreBounded`, `BatchStaysInStep`), `NeverClaimedTwice`, `EndedJobsStay`; `RunTrace`: `TraceIsSafe` | `IInv`; `TraceInv` |
| `LifecycleProofs` | `AgentLoop`: `LoopSafeHolds`, `StopsCallingHolds`; `SiteHealth`: `HealthIsSafe`; `BrowserSessions`: `BrowsersAreSafe`; `RunStore`: `StoreIsTrue` | `LoopInv`; `HealthInv`; `BrowserInv`; `StoreInv` |
| `RunsProofs` | `AgentRuns`: `AgentsAreSafe`; `WorkflowRun`: `WorkflowIsSafe`; `Handoffs`: `HandoffsAreTrue` | `AgentsInv`; `WorkflowInv`; `HandoffsInv` |
| `PageWorkProofs` | `ToolSessions`: `SessionsAreSafe`; `AgentRows`: `RowsAreTrue`; `Evidence`: `EvidenceIsSafe`; `PageTools`: `ToolsAreSafe`; `WorkingMemory`: `WorkIsSafe` | `ToolInv`; `RowsInv`; `EvidenceInv`; `TabInv`; `WorkInv` |
| `RecordsProofs` | `RunPlanSteps`: `PlanIsTrue`; `UsageLedger`: `CostsAreTrue`; `RunBoard`: `BoardIsTrue`; `OperatorSettings`: `SettingsAreTrue`; `Takedown`: `MailsAreTrue`; `AgentRollups`: `RollupsAreTrue` | `PlanInv`; `UsageInv`; `BoardInv`; `SettingsInv`; `MailInv`; `RollInv` |
| `SitesProofs` | `DatasetSites`: `SitesAreTrue`; `SiteMemory`: `MemoryIsTrue`; `RunNotes`: `NotesAreTrue` | `SitesInv`; `MemoryInv`; `NotesInv` |

The assumptions are those the code justifies: sets of agents, actors, runs,
requests or URLs are finite where something of them is counted, the parts of a
page result are lists and each of its streams has a host, the root a run is
given is no stream (`EvidenceAssumption`; the code never checks this, and a run
that is given a stream's URL is outside what is shown), limits are natural numbers
and positive where the code takes them so, and values that stand for "none" are
none of the others; an update of the browser settings is never blank, because
`normalize_browser_runtime` fills in what is missing. One is sharper: `MemoryAssumption` asks for at least two
attempts of an upsert (`repositories.py:2725` has `range(2)`), and with one
`NeverRefused` would not hold.

`RunPools`. `OneOwner` is not inductive: a state may satisfy it in which a
queued URL is unknown to `seen_urls`, and the next `enqueue` breaks it. `Own`
adds that what has an owner was accepted (`Known`), that a worker holds a URL
exactly while it is busy (`HoldsItem`), that `live_workers` is exact
(`LiveCount`, else `ensure_workers` could restart a running worker) and that
awaited tasks are alive (`Tracked`). The order within a queue enters through
lemmas about `SetToSeqs`, concatenation and `Tail`. `AccountingHolds` rests on
`Own`: since URLs are distinct, each change of a counter is the change of a
cardinality. `ResultsAreExact` takes `NothingLost` and `ConsumedOnce` together
with `HookAfter` (the hook acts on pools that are cancelled), because only a
cancelled worker may drop its URL. `DrainIsSound` and `NobodyWaitsForEver` rest
on `DrainInv`, which says what keeps a drain honest: no sentinel is in a queue
before the end (`NoSentinel`), a role with work has workers (`Manned`), the
hosting pool is quiet while the embedded one is drained (`HostingQuiet`; here
`CanDrain`, the contract of the client, is used), and the event that was set was
set by a finished cycle (`EventTrue`). For `aclose`, `CloseInv` says that the
workers of a role it waits for are all there are or none (`AllOrNone`): a set
spawned during `gather` comes only where nobody was left. `PoolsImplementLedger`
is the refinement of `UrlLedger`: the places a URL can be in are disjoint
(`PlacesDiffer`), so a place tells a stage, and each step that moves a URL is one
of the ledger's.

`Pipeline`. `GraphKeepsProtocol` shows that every step of the graph is one of
`RunPools!Next`, so that all theorems about the pools hold of the orchestrator.
`GraphInv` adds that the nodes around the pools find them idle
(`NodesFindIdle`), that the graph knows of all the embedded work
(`EmbeddedKnown`) and that the hosting pool is done before the embedded one is
drained (`HostingFirst`).

`JobQueue`, `RunTrace`. `IInv` adds `Held` (a run with a task has a row nobody
can claim; a process that is down has no tasks) and `Bounded` (a claimable row
has an attempt left). `BatchInStep` is inductive by itself. A step of the trace
is a step of the queue or none (`TraceStepsQueue`), so `IInv` comes with it;
`TraceInv` adds what ties the trace to the task (`TraceHeld`) and, for a run
executed once, that the log only grows in one epoch and the console's list is
its beginning (`TraceOnce`).

`AgentLoop`. What is not inductive is the bound on supersteps. `LoopInv` bounds
them by the calls that the turn will have made when it is over (`Will`) and the
continuations so far: at most 2 Will + 3 continuation, and one or two more by
where the turn stands (`BeforeModel`, `BeforeTools`, `InTurn`, `AfterTools`,
`Stopped`). A turn takes two supersteps and makes a call unless the budget is
spent, and a compaction takes a third; `ContinuationsFit` says that the limit
was computed for that many continuations. `HealthInv` adds `BestSoFar` and
`Counted`.

`BrowserSessions`. `ConnsKnown` says where a connection stands in its scope,
`LaunchesKnown` that a scope has at most one launch, whose joiners hold its
reference; the count of references is then the cardinality of the holders.
`JarHeld` says what the holder of the lock has read: unless it was blind to the
file, what it will write includes the jar, so that its write adds to it; and a
file is torn while nobody holds the lock, or a holder blind, only after a fault or
a crash (`LossExplained`).

`RunStore`. `Writers` says what each writer relies on between its commits,
`AttemptsLeft` that a claim stays within the bound, `ResultStored` that a task
whose result will be reported has stored it or lost its job, `StreamsAlike` that
document and rows come from one attempt.

`AgentRuns`, `WorkflowRun`, `Handoffs`. The properties are nearly inductive:
`AgentsInv` adds that a verdict has an answer (`NoVerdictYet`) and that targets
come from a verdict (`TargetsAfterVerdict`); `WorkflowInv` adds what each stage
has told (`Staged`, `NotYetOver`). `HandoffsInv` adds that what a queued target
was not told yet is still known to the pools when its worker builds it
(`Early`, `Known`, `Queued`, `Named`).

`ToolSessions`, `AgentRows`, `Evidence`, `PageTools`, `WorkingMemory`.
`ToolInv`: a session is in
the hands of one request until it is kept or closed (`Holding`, `OneHolder`),
and nothing is kept after shutdown (`AtRest`). `RowsInv`: an open context bears
the name of its role's last invocation (`OpenNamed`), what overlaps is known to
overlap, and an invocation that is alone is the open one (`LoneIsOpen`).
`EvidenceInv`: every target was worked on or waits (`Handled`), and what was
captured is in a result, a buffer or dropped (`Reported`). `TabInv`: an answer
whose document and state are the current ones names elements as stamped
(`AnswersHold`), a document never inspected has no stamps (`Unnumbered`), what
carries the number of a click in progress is the element it means, if anything
does, and nothing carries it once another locator was taken (`CallsHold`): a call
in progress keeps other calls, and so inspections, out, and elements only lose
their stamps meanwhile. `WorkInv`: `ListsHeld`
says of each list what `WorkSafe` says, with all that was heard finite;
`RememberHolds` carries it through the notes of a call's arguments and of its result or error one
by one, each under a cap that is one of the list's (`IngestedOk`), and `DequeHeld` says at which place of
the deque the last failure is (`LogHolds`).

`RunPlanSteps`, `UsageLedger`, `RunBoard`. `PlanInv` adds that a node is entered
in a running attempt. The sums of `UsageLedger` are written as numbers of units,
`Cardinality` of a set of pairs, so that adding to one line is adding a finite
set; `UsageInv` bounds the cost of a run under its cap by the answers still
asked for. That the dearest answer exists is proved by well-founded descent.
`BoardInv`: a job that runs has a task or lost it in a crash (`JobHasTask`),
rows keep a verdict (`VerdictKept`), an ended trace has its row
(`TraceHasRow`).

`OperatorSettings`. What the property says of quiet moments, `SettingsInv` says
of each settings object that is in force or held by a request and is not left
behind, field by field: it has what was set (`SetValues`), what was cleared is
blank or what the weaker layers say (`ClearedValues`), and where the fallback to
the base file cannot store a field, object and files already agree
(`FixedValues`, `FixedTell`). While somebody saves such an object, nobody else
has another (`OneSaver`), so that its text is what was accepted. The files tell
every field that nobody is changing and no failed save has put in doubt
(`FilesTell`), and the bridge tells what was accepted once no update is under
way (`BridgeTells`). That a settings object can always be numbered is the
pigeonhole principle.

`Takedown`. The lemmas say what the operators return, for lists of any length.
Evidence is added page by page (`NextRows`), and `RowsTell` holds after each
page: there is one row for every stream found so far, its screenshots are of a
page that lists the stream, and its label, where a server lists it, is of such a
server. `RowsTell` is what survives a row that is written again by a later
server or filled by a later page. With it, a draft is about streams of its
provider and shows them (`DraftTells`), and the drafts leave none out
(`DraftsCover`). `MailInv` then only says where the drafts come from: the
providers are those of this run's streams (`Recorded`), what was drafted or
stored is what they give, and a page shows the stored drafts or all of them
anew.

`AgentRollups`. The rows are cut from the log event by event (`CutOneMore`).
`RollRowsOK` ties them to the log: a row that has ended ends with a finish of
its actor and has its outcome, and no actor that was heard lacks a row. That a
stage is told truly follows from this and from `RollCounted`: while agents do
not share an actor, a row is open exactly while the agent works, unless it
raised. The peak needs a fact about every moment, `RollPeaked`: no moment lies
in more rows than ever worked at the same time, and, once somebody worked, a
moment at which a row begins lies in as many. A row that begins covers no moment
before, and rows that have ended lie before it unless they ended in the same
instant, which is why agents that take over from each other in one instant are
excepted. `PeakFound` shows that the sweep over the time line, ends after
beginnings, finds the greatest of these numbers.

`DatasetSites`, `SiteMemory`, `RunNotes`. `SitesInv`: what a writer has counted
is what it will leave, unless it has met another (`TakenRight`); counts fit the
rows (`CountsFit`); who has found the dataset empty found nothing removed, and
what is removed while somebody is about to import is known to be (`SeedsOnce`).
`MemoryInv`: the row a writer has found stays or the overlap is known
(`RowStays`, `OverlapsKnown`), what was written is in the rate (`WrittenKept`,
`RowsAlive`). `NotesInv`: without overlap one request is at work, and for it the
decisions are those it found, those it worked off as sent (`FoundAll`,
`WorkedOff`).

Only model-checked is liveness (`PoolsEnd`, `GraphEnds`, `QueueEnds`,
`RunsEnd`, `EverythingEnds`): TLAPS does not treat fairness and `ENABLED`.

Folds over data of any length (the evidence, the rows of a page, sums) are
written as recursive functions, sets or cardinalities and not with the fold
operators of the community modules, because the induction theorems of the
library take an operator as a parameter, which no installed prover
instantiates. A least counterexample under a well-founded order replaces
induction (`UpTo` for numbers, and the proofs about the dearest answer of
`UsageLedger`, the keys of `RunNotes` and the notes of `WorkingMemory`).

## Not modelled

Page content, prompts and model answers, presentation: data without the
interleavings a model checker is for.

- Proxy pool (`tools/shared/proxy-pool.js`): a cursor and a short list of recent
  choices per set of sources, one synchronous update per launch, no failure
  counts or cool-down.
- Accounts (`api/auth/`): each request is one transaction over the caller's own
  rows; no run depends on them.
- LLM clients (`utils/provider_models.py`): construction,
  catalogues and data tables. Retries are in `AgentLoop`, prices in
  `UsageLedger`, the refresh of a catalogue in `OperatorSettings`.
- Prompt versions, admin statistics: single-row updates and queries.
- `memory/run_store.py`: not used by the program.
- The in-memory fallback of `_enqueue_background_job`, idempotency keys, jobs
  outside a batch in `JobQueue` (they differ by having no site row; `RunStore`
  and `RunBoard` have them).
- Eviction from the registry, metrics and plan snapshots in `RunTrace`.
- Elements of other frames, screenshots and summaries in `PageTools`; the other
  tools, which read the page without keeping state. An inspection is one step
  there, though the code reads the epoch shortly before the elements. Which
  element a locator by role, selector, text or point finds is left open.
- Migrations, start-up and maintenance scripts: run by hand on a system that is
  down.
