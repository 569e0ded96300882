------------------------------- MODULE MCRuns -------------------------------
(***************************************************************************)
(* Model-checking instance of what carries a run to its end: the job of    *)
(* the queue, the run of the graph, and the runs of its agents.            *)
(*                                                                         *)
(* The parts share no state: one of them, the focus, takes steps in a      *)
(* behaviour, and fairness is asked of the focus only.                     *)
(***************************************************************************)
EXTENDS JobQueue, WorkflowRun, AgentRuns

CONSTANTS r1, r2

VARIABLE focus
runVars == <<focus, vars, wfVars, arVars>>

\* AgentRuns: one page type with an agent of each kind behind it, one that leads
\* two ways, one confidence that passes, and words that no map knows.
MCWords == {"landing_page", "embedded_page", "high", "rubbish"}

-----------------------------------------------------------------------------
RunsInit ==
  /\ focus \in {"queue", "workflow", "agents"}
  /\ Init /\ WorkflowInit /\ AgentRunsInit
  /\ focus # "workflow" => limit = 0

QueuePart    == focus = "queue"    /\ Next          /\ UNCHANGED <<focus, wfVars, arVars>>
WorkflowPart == focus = "workflow" /\ WorkflowNext  /\ UNCHANGED <<focus, vars, arVars>>
AgentsPart   == focus = "agents"   /\ AgentRunsNext /\ UNCHANGED <<focus, vars, wfVars>>

RunsNext == QueuePart \/ WorkflowPart \/ AgentsPart

\* Fairness of JobQueue, WorkflowFairness and AgentRunsFairness, of the focus.
Of(part, A) == focus = part /\ A
RunsFairness ==
  /\ \A r \in Run :
       /\ WF_vars(Of("queue", Enqueue(r))) /\ WF_vars(Of("queue", Claim(r)))
       /\ WF_vars(Of("queue", WorkerStep(r)))
  /\ WF_vars(Of("queue", SweepNext)) /\ WF_vars(Of("queue", Stopped))
  /\ WF_vars(Of("queue", \E stale \in SUBSET Run : Restart(stale)))
  /\ WF_wfVars(Of("workflow", StartRun)) /\ WF_wfVars(Of("workflow", Deadline))
  /\ WF_wfVars(Of("workflow", Settle))
  /\ \A a \in Agents : WF_arVars(Of("agents", Proceeds(a)))
  /\ WF_arVars(Of("agents", Ends("halted")))

RunsSpec == RunsInit /\ [][RunsNext]_runVars /\ RunsFairness

(* Whatever hangs, the agents that began (AgentRunsEnd) and the run around  *)
(* them (WorkflowEnds) come to their end.                                   *)
RunsEnd == AgentRunsEnd /\ WorkflowEnds
=============================================================================
