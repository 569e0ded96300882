---------------------------- MODULE WorkflowRun ----------------------------
(***************************************************************************)
(* OrchestratorAgent.run and the background coroutine around it: the       *)
(* pools are registered, the graph runs under a deadline and a budget, the *)
(* pools are closed, and whatever became of it is told twice, to the trace *)
(* and to the caller.  A deadline or a budget still answers with what the  *)
(* nodes that ended have left.                                             *)
(*                                                                         *)
(* Nodes are opaque here (Pipeline, RunPlanSteps and RunPools look inside).*)
(* A step is what happens between two awaits.  The awaits are the ones of  *)
(* the nodes and of aclose, which waits for the workers of the pools.      *)
(***************************************************************************)
EXTENDS Naturals, Sequences

CONSTANTS
    MaxVisits,  \* bound on the nodes that run
    MaxSpent,   \* bound on what they spend
    Limits      \* the budgets an operator may set; 0 is none

ASSUME WorkflowAssumption == MaxVisits \in Nat /\ MaxSpent \in Nat /\ Limits \subseteq Nat

VARIABLES
    runStage,   \* "new", "graph", "unwinding", "over"
    atNode,     \* the node that runs, or the last that ended
    within,     \* it has not ended, or never will
    visited,    \* nodes that have run
    live,       \* live_state: nodes whose output was merged, in order
    cause,      \* why it ended: "none", "done", "timeout", "budget", "error", "cancel", "kill",
                \* "shutdown", or "interrupted", a shutdown in the middle of closing
    registered, \* the pools are in the map of the running pools
    spent,      \* what the metrics of the run add up to
    limit,      \* the budget in the settings shared with the operators
    overStarts, \* nodes that called a model although the budget was spent
    cancelAsked,\* the cancel flag of the trace
    toldEnds,   \* terminal events of the trace
    mode,       \* failure_mode of the trace: "open" until it is completed
    result,     \* nodes the answered result was built from
    kind,       \* its failure_kind
    answer      \* what the caller got: "none", "ok", "cancelled", "error"

graphVars == <<runStage, atNode, within, visited, live>>
costVars  == <<spent, limit, overStarts>>
tellVars  == <<toldEnds, mode, result, kind, answer>>
wfVars == <<graphVars, cause, registered, costVars, cancelAsked, tellVars>>

\* build_graph, with the router's analyze_providers mapped to the gate.
Successors(n) ==
    CASE n = "start"    -> {"classify"}
      [] n = "classify" -> {"landing_page", "queue_root_hosting", "queue_root_embedded",
                            "validate_evidence", "no_target"}
      [] n = "landing_page" -> {"hosting_page", "embedded_page", "validate_evidence"}
      [] n = "queue_root_hosting"  -> {"hosting_page"}
      [] n = "queue_root_embedded" -> {"embedded_page"}
      [] n = "hosting_page"  -> {"hosting_page", "embedded_page", "validate_evidence"}
      [] n = "embedded_page" -> {"embedded_page", "validate_evidence"}
      [] n = "validate_evidence" -> {"analyze_providers", "hosting_page"}
      [] n = "analyze_providers" -> {"generate_takedown_emails"}
      [] OTHER -> {"end"}

Nodes == {"classify", "landing_page", "queue_root_hosting", "queue_root_embedded", "hosting_page",
          "embedded_page", "validate_evidence", "analyze_providers",
          "generate_takedown_emails", "no_target"}

Drainers == {"hosting_page", "embedded_page"}
Quiet    == {"queue_root_hosting", "queue_root_embedded", "no_target"}   \* call no model

\* The nodes that ask make_workflow_governor before their body.
Checked == Drainers \cup {"validate_evidence", "analyze_providers", "generate_takedown_emails"}

WorkflowInit ==
    /\ runStage = "new" /\ atNode = "start" /\ within = FALSE /\ visited = 0 /\ live = <<>>
    /\ cause = "none" /\ registered = FALSE
    /\ spent = 0 /\ limit \in Limits /\ overStarts = 0
    /\ cancelAsked = FALSE
    /\ toldEnds = <<>> /\ mode = "open" /\ result = <<>> /\ kind = "" /\ answer = "none"

\* The process shuts down; nobody asked for a cancel.
ByShutdown == {"shutdown", "interrupted"}

\* _WorkflowGovernor.check; every node makes a governor of its own.
OverBudget == limit > 0 /\ spent > limit

-----------------------------------------------------------------------------
(* Telling.                                                                *)

\* _emit_failure_once and _emit_cancel_once look at the last event; "cancelled"
\* is run_cancelled, or the request of the cancellation when that came last.
Once(events, e) == IF events # <<>> /\ events[Len(events)] = e THEN events ELSE Append(events, e)

\* The except clauses of _background_workflow; the result is dropped.
AnsweredRun(how, events, as) ==
    /\ answer' = how /\ mode' = as
    /\ toldEnds' = Once(events, as)
    /\ result' = <<>> /\ kind' = ""

\* run has emitted e and finished the trace as m; the caller looks at the flag
\* and stores the result, which may fail.
Returned(e, m, k) ==
    \/ /\ ~cancelAsked
       /\ answer' = "ok" /\ mode' = m /\ toldEnds' = Append(toldEnds, e)
       /\ result' = live /\ kind' = k
    \/ cancelAsked /\ AnsweredRun("cancelled", Append(toldEnds, e), "cancelled")
    \/ ~cancelAsked /\ AnsweredRun("error", Append(toldEnds, e), "failed")

-----------------------------------------------------------------------------
(* The run.                                                                *)

\* The site memory is checked, which never raises; the pools are registered;
\* the plan is written.  A database that gives no session raises before the
\* graph, and past the finally that closes the pools.
StartRun ==
    /\ runStage = "new"
    /\ registered' = TRUE
    /\ \/ runStage' = "graph" /\ UNCHANGED <<atNode, within, visited, live, tellVars>>
       \/ /\ runStage' = "over" /\ AnsweredRun("error", <<"failed">>, "failed")
          /\ UNCHANGED <<atNode, within, visited, live>>
    /\ UNCHANGED <<cause, costVars, cancelAsked>>

Leave(why) ==
    /\ runStage' = "unwinding" /\ cause' = why
    /\ UNCHANGED <<atNode, within, visited, live, registered, costVars, cancelAsked, tellVars>>

\* A drainer without work returns at once.
EnterNode(n) ==
    /\ runStage = "graph" /\ ~within /\ n \in Successors(atNode) /\ n # "end"
    /\ visited < MaxVisits
    /\ IF n \in Checked /\ OverBudget
       THEN Leave("budget")
       ELSE /\ atNode' = n /\ within' = TRUE /\ visited' = visited + 1
            /\ overStarts' = overStarts + (IF n \notin Quiet /\ OverBudget THEN 1 ELSE 0)
            /\ UNCHANGED <<runStage, live, cause, registered, spent, limit, cancelAsked, tellVars>>

PassNode(n) ==
    /\ runStage = "graph" /\ ~within /\ n \in Successors(atNode) \cap Drainers
    /\ visited < MaxVisits
    /\ atNode' = n /\ visited' = visited + 1 /\ live' = Append(live, n)
    /\ UNCHANGED <<runStage, within, cause, registered, costVars, cancelAsked, tellVars>>

Spend ==
    /\ runStage = "graph" /\ within /\ atNode \notin Quiet /\ spent < MaxSpent
    /\ spent' = spent + 1
    /\ UNCHANGED <<graphVars, cause, registered, limit, overStarts, cancelAsked, tellVars>>

\* Mutant: the outputs are merged when the graph has ended.
LeaveNodeUnmerged ==
    /\ runStage = "graph" /\ within /\ within' = FALSE
    /\ UNCHANGED <<runStage, atNode, visited, live, cause, registered, costVars, cancelAsked, tellVars>>

\* _consume_graph_stream merges what a node returns before the next begins.
LeaveNode ==
    /\ runStage = "graph" /\ within
    /\ within' = FALSE /\ live' = Append(live, atNode)
    /\ UNCHANGED <<runStage, atNode, visited, cause, registered, costVars, cancelAsked, tellVars>>

\* A TimeoutError of a node is told as the one of the deadline.
NodeRaises ==
    /\ runStage = "graph" /\ within
    /\ \/ Leave("error") \/ Leave("timeout")
       \/ cancelAsked /\ Leave("cancel")

GraphEnds == runStage = "graph" /\ ~within /\ "end" \in Successors(atNode) /\ Leave("done")

Deadline == runStage = "graph" /\ Leave("timeout")

\* aclose has waited for the workers and taken the pools off the map; a
\* CancelledError in that wait leaves them there.
Settle ==
    /\ runStage = "unwinding"
    /\ runStage' = "over" /\ registered' = (registered /\ cause = "interrupted")
    /\ CASE cause = "done"    -> Returned("finished", "finished", "")
         [] cause = "timeout" -> Returned("halted", "workflow_timeout", "workflow_timeout")
         [] cause = "budget"  -> Returned("halted", "budget_exceeded", "budget_exceeded")
         [] cause = "error"   -> AnsweredRun("error", Append(toldEnds, "failed"), "failed")
         [] OTHER             -> AnsweredRun("cancelled", toldEnds, "cancelled")
    /\ UNCHANGED <<atNode, within, visited, live, cause, costVars, cancelAsked>>

-----------------------------------------------------------------------------
(* Around the run.                                                         *)
CancelAsked ==
    /\ runStage \in {"graph", "unwinding"} /\ ~cancelAsked /\ cause \notin ByShutdown
    /\ cancelAsked' = TRUE
    /\ UNCHANGED <<graphVars, cause, registered, costVars, tellVars>>

\* The hook of the cancel endpoint has taken the pools down; the CancelledError
\* replaces what is on its way.
KillRun ==
    /\ cancelAsked /\ runStage \in {"graph", "unwinding"} /\ cause \notin {"kill"} \cup ByShutdown
    /\ runStage' = "unwinding" /\ cause' = "kill"
    /\ registered' = FALSE
    /\ UNCHANGED <<atNode, within, visited, live, costVars, cancelAsked, tellVars>>

\* Shutdown cancels the task without the flag, once requests are served; the
\* hook takes the pools of a task down that is not the worker loop's.  A task
\* that has not begun ends untold (JobQueue).
ShutDownRun ==
    /\ runStage \in {"graph", "unwinding"} /\ cause \notin {"kill"} \cup ByShutdown
    /\ runStage' = "unwinding"
    /\ cause' = IF runStage = "graph" THEN "shutdown" ELSE "interrupted"
    /\ registered' \in {FALSE, registered}
    /\ UNCHANGED <<atNode, within, visited, live, costVars, cancelAsked, tellVars>>

SetLimit(l) ==
    /\ runStage # "over" /\ l # limit
    /\ limit' = l /\ overStarts' = 0
    /\ UNCHANGED <<graphVars, cause, registered, spent, cancelAsked, tellVars>>

RunSteps ==
    \/ StartRun \/ (\E n \in Nodes : EnterNode(n) \/ PassNode(n))
    \/ Spend \/ LeaveNode \/ NodeRaises \/ GraphEnds \/ Deadline \/ Settle

WorkflowNext == RunSteps \/ CancelAsked \/ KillRun \/ ShutDownRun \/ \E l \in Limits : SetLimit(l)

\* The deadline is a timer; workers end by their own timers (AgentRuns), so that
\* aclose ends.  Nothing is asked of a node.
WorkflowFairness == WF_wfVars(StartRun) /\ WF_wfVars(Deadline) /\ WF_wfVars(Settle)

WorkflowSpec == WorkflowInit /\ [][WorkflowNext]_wfVars /\ WorkflowFairness

-----------------------------------------------------------------------------
WorkflowTypeOK ==
    /\ runStage \in {"new", "graph", "unwinding", "over"}
    /\ atNode \in Nodes \cup {"start"} /\ within \in BOOLEAN /\ visited \in 0..MaxVisits
    /\ live \in Seq(Nodes) /\ result \in Seq(Nodes)
    /\ cause \in {"none", "done", "timeout", "budget", "error", "cancel", "kill"} \cup ByShutdown
    /\ registered \in BOOLEAN /\ cancelAsked \in BOOLEAN
    /\ spent \in 0..MaxSpent /\ limit \in Limits /\ overStarts \in Nat
    /\ toldEnds \in Seq({"finished", "halted", "failed", "cancelled"})
    /\ mode \in {"open", "finished", "failed", "cancelled", "workflow_timeout", "budget_exceeded"}
    /\ kind \in {"", "workflow_timeout", "budget_exceeded"}
    /\ answer \in {"none", "ok", "cancelled", "error"}

(* A result that is answered, a partial one included, carries the output of *)
(* every node that ended and of no other: a deadline in the middle of a node *)
(* loses that node's output alone.                                          *)
PartialIsWhole ==
    /\ Len(live) = visited - (IF within THEN 1 ELSE 0)
    /\ answer = "ok" => result = live
    /\ answer # "ok" => result = <<>>

(* The trace and the caller are told the same, whichever of the two         *)
(* coroutines tells it, and a failure is told once.  "cancelled" is told of *)
(* a run that was asked to cancel, and of every run a shutdown of the       *)
(* process meets, which nobody asked to cancel.                             *)
ToldAsAnswered ==
    /\ runStage = "over" <=> answer # "none"
    /\ runStage # "over" => toldEnds = <<>> /\ mode = "open"
    /\ answer = "ok" =>
          /\ Len(toldEnds) = 1 /\ ~cancelAsked
          /\ kind = "" => toldEnds[1] = "finished" /\ mode = "finished"
          /\ kind # "" => toldEnds[1] = "halted" /\ mode = kind
    /\ answer = "cancelled" =>
          /\ cancelAsked \/ cause \in ByShutdown
          /\ mode = "cancelled" /\ toldEnds[Len(toldEnds)] = "cancelled"
    /\ runStage = "over" /\ cause \in ByShutdown => answer = "cancelled"
    /\ answer = "error" => mode = "failed" /\ toldEnds[Len(toldEnds)] = "failed"
    /\ \A i \in DOMAIN toldEnds : toldEnds[i] = "failed" => i = Len(toldEnds)

(* Pools stay in the map of the running pools only when the run failed     *)
(* before its first node, when there is no worker to end, or when the      *)
(* shutdown of the process met it while it closed them.                    *)
PoolsLeave ==
    runStage = "over" /\ registered =>
        (visited = 0 /\ answer = "error") \/ cause = "interrupted"

(* Once the budget of the run is spent one node more may call a model, the  *)
(* landing agent's, which does not ask.                                     *)
BudgetHolds == overStarts <= 1

WorkflowSafe ==
    WorkflowTypeOK /\ PartialIsWhole /\ ToldAsAnswered /\ PoolsLeave /\ BudgetHolds

(* A run that began ends, also when a node hangs.                           *)
WorkflowEnds == runStage = "graph" ~> runStage = "over"
=============================================================================
