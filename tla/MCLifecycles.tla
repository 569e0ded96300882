---------------------------- MODULE MCLifecycles ----------------------------
(***************************************************************************)
(* Model-checking instance of what has to come to an end: an agent's loop, *)
(* the browsers of the tools server, the event stream of a run and a       *)
(* health check.                                                           *)
(*                                                                         *)
(* The parts share no state: one of them, the focus, takes steps in a      *)
(* behaviour, and fairness is asked of the focus only.                     *)
(***************************************************************************)
EXTENDS AgentLoop, BrowserSessions, RunTrace, SiteHealth

CONSTANT r1

VARIABLE focus
lifeVars == <<focus, agentVars, sVars, allVars, healthVars>>

\* AgentLoop: two cacheable calls with room for one result.
MCBatches ==
  {<<"inspect">>, <<"inspect", "inspect">>, <<"navigate", "inspect">>, <<"plan", "note">>, <<"unknown">>}
MCReadCalls == {"inspect", "plan"}

-----------------------------------------------------------------------------
LivesInit ==
  /\ focus \in {"agent", "browser", "trace", "health"}
  /\ AgentInit /\ SInit /\ TraceInit /\ HealthInit
  /\ focus # "health" => urlsLeft = [c \in Candidates |-> 1]

AgentStep   == focus = "agent"   /\ AgentNext  /\ UNCHANGED <<focus, sVars, allVars, healthVars>>
BrowserStep == focus = "browser" /\ SNext      /\ UNCHANGED <<focus, agentVars, allVars, healthVars>>
TraceStep   == focus = "trace"   /\ TraceNext  /\ UNCHANGED <<focus, agentVars, sVars, healthVars>>
CheckStep   == focus = "health"  /\ HealthNext /\ UNCHANGED <<focus, agentVars, sVars, allVars>>

LivesNext == AgentStep \/ BrowserStep \/ TraceStep \/ CheckStep

\* AgentFairness, SFairness, TraceFairness and that of HealthSpec, of the focus.
In(part, A) == focus = part /\ A
LivesFairness ==
  /\ WF_agentVars(In("agent", Proceed))
  /\ \A c \in Conns :
       /\ WF_sVars(In("browser", Launched(c) \/ LaunchFails(c))) /\ WF_sVars(In("browser", Release(c)))
       /\ SF_sVars(In("browser", SkipMerge(c) \/ \E found \in SUBSET Cookies : BeginMerge(c, found, FALSE)))
       /\ WF_sVars(In("browser", BeginWrite(c) \/ EndWrite(c) \/ MergeFails(c)))
  /\ WF_allVars(In("trace", RunStep)) /\ WF_allVars(In("trace", QueueStep))
  /\ WF_allVars(In("trace", Stopped /\ TraceDown)) /\ WF_allVars(In("trace", Connect))
  /\ SF_allVars(In("trace", Tick))
  /\ WF_healthVars(In("health", HealthStep))

LivesSpec == LivesInit /\ [][LivesNext]_lifeVars /\ LivesFairness

(* Every agent ends (AgentEnds), and so does every health check (CheckEnds).*)
AgentsEnd == focus = "agent" => AgentEnds
ChecksEnd == focus = "health" => CheckEnds

(* What is begun comes to an end: agents, browsers, event streams, checks.  *)
EverythingEnds == AgentsEnd /\ BrowsersClose /\ StreamEnds /\ ChecksEnd
=============================================================================
