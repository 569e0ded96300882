------------------------------ MODULE Pipeline ------------------------------
(***************************************************************************)
(* The orchestrator's graph (agents/orchestrator.py, build_graph and its    *)
(* nodes) driving the worker pools of RunPools: which node runs, what it    *)
(* hands to the pools, what it waits for, and the evidence gate with its    *)
(* bounded replan.                                                          *)
(*                                                                          *)
(* The module extends RunPools and replaces its most general client by the  *)
(* graph.  Agents, probes and the judge answer anything they may.           *)
(***************************************************************************)
EXTENDS RunPools

CONSTANTS
  Root,         \* the URL of the run
  MaxReplans    \* MAX_REPLANS_PER_STAGE

ASSUME PipelineAssumption == Root \in Url /\ MaxReplans \in Nat

VARIABLES
  node,             \* the graph node that runs, or the last one that ran
  pendingHosting,   \* pending_hosting_urls of the graph state
  pendingEmbedded,  \* pending_embedded_urls
  landed,           \* extraction_results holds the landing result
  evidence,         \* URLs whose extraction result holds a stream
  probed,           \* those the evidence gate judged since they were last found
  attempts          \* validator_replan_attempts

graphVars == <<node, pendingHosting, pendingEmbedded, landed, evidence, probed, attempts>>
pipeVars  == <<vars, graphVars>>

Node == {"classify", "landing_page", "queue_root_hosting", "queue_root_embedded",
         "hosting_page", "embedded_page", "validate_evidence", "analyze_providers",
         "generate_takedown_emails", "no_target", "END"}

PipelineInit ==
  /\ Init
  /\ node = "classify"
  /\ pendingHosting = {} /\ pendingEmbedded = {}
  /\ landed = FALSE /\ evidence = {} /\ probed = {}
  /\ attempts = 0

(* The graph coroutine is at node n, not suspended in a drain.              *)
At(n) == graph = "producing" /\ node = n

(* URLs with a result in extraction_results.                                *)
Extracted == folded \cup (IF landed THEN {Root} ELSE {})

-----------------------------------------------------------------------------
(* The routers, with the destinations build_graph maps them to.             *)

(* What the classification agent may say: low is a score below the gate,    *)
(* shell a reasoning that speaks of a site around the player, or against    *)
(* there being one.                                                         *)
Classifications ==
  [page : {"landing", "hosting", "embedded", "unknown"}, low : BOOLEAN,
   source : {"parsed", "fallback", "heuristic_default"}, shell : BOOLEAN]

(* An agent that fails counts as one whose answer could not be parsed.      *)
FailedClassification ==
  [page |-> "unknown", low |-> TRUE, source |-> "fallback", shell |-> FALSE]

ConfidenceGateBlocks(c) ==
  /\ c.source # "heuristic_default"
  /\ c.low \/ (c.page = "unknown" /\ c.source = "fallback")

NeedsHostingFallback(c) == c.page = "embedded" /\ c.shell

RouteAfterClassification(c) ==
  CASE ConfidenceGateBlocks(c) -> "no_target"
    [] ~ConfidenceGateBlocks(c) /\ c.page = "landing" -> "landing_page"
    [] ~ConfidenceGateBlocks(c) /\ (c.page = "hosting" \/ NeedsHostingFallback(c)) -> "queue_root_hosting"
    [] ~ConfidenceGateBlocks(c) /\ c.page = "embedded" /\ ~NeedsHostingFallback(c) -> "queue_root_embedded"
    [] ~ConfidenceGateBlocks(c) /\ c.page = "unknown" -> "validate_evidence"

(* Mutant of the landing route: the arms are swapped.                       *)
RouteAfterLandingSwapped(hosting, embedded) ==
  IF hosting # {} THEN "embedded_page" ELSE "validate_evidence"
RouteAfterLanding(hosting, embedded) ==
  IF hosting # {} THEN "hosting_page"
  ELSE IF embedded # {} THEN "embedded_page" ELSE "validate_evidence"

RouteAfterHosting(hosting, embedded) ==
  IF hosting # {} THEN "hosting_page"
  ELSE IF embedded # {} THEN "embedded_page" ELSE "validate_evidence"

RouteAfterEmbedded == "validate_evidence"

-----------------------------------------------------------------------------
(* The nodes.                                                               *)

(* A classification the gate blocks is asked for once more, and the second  *)
(* one is routed whatever it says.                                          *)
Classify ==
  /\ At("classify")
  /\ \E first \in Classifications \cup {FailedClassification} :
       IF ConfidenceGateBlocks(first)
       THEN \E second \in Classifications \cup {FailedClassification} :
              node' = RouteAfterClassification(second)
       ELSE node' = RouteAfterClassification(first)
  /\ UNCHANGED <<vars, pendingHosting, pendingEmbedded, landed, evidence, probed, attempts>>

QueueRootHosting ==
  /\ At("queue_root_hosting")
  /\ pendingHosting' = pendingHosting \cup {Root}
  /\ node' = "hosting_page"
  /\ UNCHANGED <<vars, pendingEmbedded, landed, evidence, probed, attempts>>

QueueRootEmbedded ==
  /\ At("queue_root_embedded")
  /\ pendingEmbedded' = pendingEmbedded \cup {Root}
  /\ node' = "embedded_page"
  /\ UNCHANGED <<vars, pendingHosting, landed, evidence, probed, attempts>>

(* The landing agent answered or failed: a result either way.  Its matches  *)
(* hs go to the hosting pool at once and to the pending list; direct says   *)
(* whether it found streams itself.                                         *)
LandingPage(hs, direct) ==
  /\ At("landing_page")
  /\ Produce(hs)
  /\ landed' = TRUE
  /\ evidence' = IF direct THEN evidence \cup {Root} ELSE evidence
  /\ pendingHosting' = hs
  /\ node' = RouteAfterLanding(hs, pendingEmbedded)
  /\ UNCHANGED <<pendingEmbedded, probed, attempts>>

(* hosting_page with nothing to do: an update that changes nothing.         *)
HostingIdle ==
  /\ At("hosting_page")
  /\ pendingHosting = {} /\ pending[Hosting] = 0 /\ inflight[Hosting] = 0
  /\ node' = RouteAfterHosting(pendingHosting, pendingEmbedded)
  /\ UNCHANGED <<vars, pendingHosting, pendingEmbedded, landed, evidence, probed, attempts>>

HostingBegin ==
  /\ At("hosting_page")
  /\ pendingHosting # {} \/ pending[Hosting] > 0 \/ inflight[Hosting] > 0
  /\ StartDrain(Hosting, pendingHosting)
  /\ UNCHANGED graphVars

(* embedded_page is only entered with pending targets.  Those without a     *)
(* hosting source are left out: any subset.                                 *)
EmbeddedBegin(us) ==
  /\ At("embedded_page")
  /\ pendingEmbedded # {} \/ pending[Embedded] > 0 \/ inflight[Embedded] > 0
  /\ us \subseteq pendingEmbedded
  /\ StartDrain(Embedded, us)
  /\ UNCHANGED graphVars

(* A drained role's results join extraction_results; the found of them hold *)
(* streams.                                                                 *)
Gather(r, found) ==
  /\ EndDrain(r)
  /\ found \subseteq buffer[r]
  /\ evidence' = evidence \cup found
  /\ UNCHANGED <<landed, probed, attempts>>

(* Mutant: what the workers queued for the embedded pool is not followed up.*)
FollowUpsListed == pendingEmbedded
FollowUps == pendingEmbedded \cup embeddedEnqueued

HostingEnd(found) ==
  /\ node = "hosting_page"
  /\ Gather(Hosting, found)
  /\ pendingHosting' = {}
  /\ pendingEmbedded' = FollowUps
  /\ node' = RouteAfterHosting({}, FollowUps)

EmbeddedEnd(found) ==
  /\ node = "embedded_page"
  /\ Gather(Embedded, found)
  /\ pendingEmbedded' = {}
  /\ node' = RouteAfterEmbedded
  /\ UNCHANGED pendingHosting

(* Mutant: the replan does not count.                                       *)
ReplanUncounted(n) == n
ReplanCounted(n) == n + 1

(* request_replan: a request while the budget of the stage lasts.           *)
RequestReplan(n) == n < MaxReplans

Survivors(hit, left) == (evidence \ hit) \cup left

(* The gate: the results hit lose streams (unreachable, or flagged by the   *)
(* judge), left of them keep others.  Without a surviving stream the verdict*)
(* is never sufficient; then one bounded replan puts the affected targets   *)
(* back, else the run goes on with what survived.                           *)
Affected(hit) == IF hit # {} THEN hit ELSE Extracted

Validate(hit, left, sufficient) ==
  LET replan == ~sufficient /\ RequestReplan(attempts) IN
  /\ At("validate_evidence")
  /\ hit \subseteq evidence /\ left \subseteq hit
  /\ sufficient => Survivors(hit, left) # {}
  /\ evidence' = Survivors(hit, left)
  /\ probed' = Survivors(hit, left)
  /\ attempts' = IF replan THEN ReplanCounted(attempts) ELSE attempts
  /\ pendingHosting' = IF replan THEN Affected(hit) ELSE {}
  /\ node' = IF replan THEN "hosting_page" ELSE "analyze_providers"
  /\ UNCHANGED <<vars, pendingEmbedded, landed>>

(* The nodes after the gate do not touch the pools or the evidence.         *)
Follow(n, next) ==
  /\ At(n)
  /\ node' = next
  /\ UNCHANGED <<vars, pendingHosting, pendingEmbedded, landed, evidence, probed, attempts>>

AnalyzeProviders      == Follow("analyze_providers", "generate_takedown_emails")
GenerateTakedownEmails == Follow("generate_takedown_emails", "END")
NoTarget              == Follow("no_target", "END")

(* The stream of the graph ends: at END, or because a node raised (a budget,*)
(* a cancellation, an agent) or the workflow deadline struck.               *)
Leave == LeaveGraph /\ UNCHANGED graphVars

-----------------------------------------------------------------------------
NodeStep ==
  \/ Classify
  \/ QueueRootHosting
  \/ QueueRootEmbedded
  \/ \E hs \in SUBSET Url, direct \in BOOLEAN : LandingPage(hs, direct)
  \/ HostingIdle
  \/ HostingBegin
  \/ \E us \in SUBSET Url : EmbeddedBegin(us)
  \/ \E found \in SUBSET Url : HostingEnd(found)
  \/ \E found \in SUBSET Url : EmbeddedEnd(found)
  \/ \E hit, left \in SUBSET Url, sufficient \in BOOLEAN : Validate(hit, left, sufficient)
  \/ AnalyzeProviders
  \/ GenerateTakedownEmails
  \/ NoTarget

(* Everything in RunPools that is not the graph coroutine inside its nodes. *)
PoolStep ==
  /\ \/ \E w \in Worker : WorkerStep(w)
     \/ \E r \in Role : FailDrain(r)
     \/ BeginClose
     \/ Reap
     \/ ControlStep
     \/ Finished
  /\ UNCHANGED graphVars

PipelineNext == NodeStep \/ PoolStep \/ Leave

(* Every agent, probe and judge call is bounded by a timeout, so a node     *)
(* returns or raises; at END the graph stream ends.                         *)
PipelineFairness ==
  /\ WF_pipeVars(NodeStep)
  /\ WF_pipeVars(node = "END" /\ Leave)
  /\ \A w \in Worker : WF_pipeVars(WorkerStep(w) /\ UNCHANGED graphVars)
  /\ WF_pipeVars((\E r \in Role : FailDrain(r)) /\ UNCHANGED graphVars)
  /\ WF_pipeVars((BeginClose \/ Reap) /\ UNCHANGED graphVars)

PipelineSpec     == PipelineInit /\ [][PipelineNext]_pipeVars
FairPipelineSpec == PipelineSpec /\ PipelineFairness

-----------------------------------------------------------------------------
(* Properties.                                                              *)

PipelineTypeOK ==
  /\ node \in Node
  /\ pendingHosting \in SUBSET Url /\ pendingEmbedded \in SUBSET Url
  /\ landed \in BOOLEAN
  /\ evidence \in SUBSET Extracted /\ probed \in SUBSET Extracted
  /\ attempts \in 0 .. MaxReplans

(* The graph is a client that RunPools allows: it never drains the embedded *)
(* pool while the hosting pool, its producer, is at work.  So everything    *)
(* RunPools promises its most general client holds of the orchestrator.     *)
KeepsPoolProtocol == Spec

(* When evidence is judged, and from then on, no page agent is queued or    *)
(* running in either pool and no result is left in a buffer: nothing that   *)
(* was ever handed to the pools is missing from what the gate sees.         *)
Gated == {"validate_evidence", "analyze_providers", "generate_takedown_emails"}
EvidenceComplete ==
  graph = "producing" /\ node \in Gated =>
    \A r \in Role : Outstanding(r) = {} /\ buffer[r] = {}

(* Every result with streams that reaches the provider stage was put before *)
(* the gate after it was found, although a replan adds results behind the   *)
(* gate.  What the gate takes out of a result is in Evidence.               *)
EvidenceProbed ==
  node \in {"analyze_providers", "generate_takedown_emails"} => evidence \subseteq probed

(* The graph ends: the replan loop, the routers' self-loop and the drains   *)
(* never keep it going for ever.                                            *)
PipelineEnds == <>(graph = "closed")

(* "re-queue the affected target pages back through ``hosting_page``"       *)
(* (orchestrator.py:1631): in a run nobody cancelled, what a replan put back*)
(* is queued when hosting_page hands it to the pools.                       *)
ReplanRuns ==
  [][HostingBegin /\ attempts > 0 /\ ~cancelled
       => pendingHosting \subseteq Queued(Hosting)']_pipeVars

(* What the evidence gate judges is complete, and it judges all             *)
(* (orchestrator.py:1598-1750); the replan counter stays within its bound.  *)
GateSound == PipelineTypeOK /\ EvidenceComplete /\ EvidenceProbed
=============================================================================
