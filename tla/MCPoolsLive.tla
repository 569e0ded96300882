----------------------------- MODULE MCPoolsLive -----------------------------
(***************************************************************************)
(* Liveness of the pools, under their most general client and under the    *)
(* orchestrator's graph: which of the two drives them is fixed at the      *)
(* start.                                                                  *)
(***************************************************************************)
EXTENDS Pipeline

CONSTANTS root, u1, s1

VARIABLE driver
poolsLiveVars == <<driver, pipeVars>>

PoolsLiveInit == PipelineInit /\ driver \in {"client", "graph"}

ClientStep == driver = "client" /\ Next /\ UNCHANGED <<driver, graphVars>>
GraphDrives == driver = "graph" /\ PipelineNext /\ UNCHANGED driver

\* Fairness and PipelineFairness, each for its driver.
Client(A) == driver = "client" /\ A
Graph(A) == driver = "graph" /\ A /\ UNCHANGED graphVars
ClientFairness ==
  /\ \A w \in Worker : WF_vars(Client(WorkerStep(w)))
  /\ \A r \in Role : WF_vars(Client(EndDrain(r) \/ FailDrain(r)))
  /\ WF_vars(Client(BeginClose)) /\ WF_vars(Client(Reap))
  /\ WF_vars(Client(HookTimeout)) /\ WF_vars(Client(HookDone)) /\ WF_vars(Client(CancelTask))
GraphFairness ==
  /\ WF_pipeVars(driver = "graph" /\ NodeStep)
  /\ WF_pipeVars(driver = "graph" /\ node = "END" /\ Leave)
  /\ \A w \in Worker : WF_pipeVars(Graph(WorkerStep(w)))
  /\ WF_pipeVars(Graph(\E r \in Role : FailDrain(r)))
  /\ WF_pipeVars(Graph(BeginClose \/ Reap))

PoolsLiveSpec ==
  PoolsLiveInit /\ [][ClientStep \/ GraphDrives]_poolsLiveVars /\ ClientFairness /\ GraphFairness

(* A run that the graph drives ends (PipelineEnds).                        *)
GraphEnds == driver = "graph" => PipelineEnds
=============================================================================
