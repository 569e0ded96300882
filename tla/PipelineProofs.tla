--------------------------- MODULE PipelineProofs ---------------------------
(***************************************************************************)
(* For any URLs, workers and replan budget: the orchestrator's graph is a  *)
(* client that the pools allow (KeepsPoolProtocol, a refinement), and what *)
(* its evidence gate judges is complete (GateSound).                       *)
(*                                                                         *)
(* GraphInv says what each node finds in the pools: nothing before the     *)
(* landing page and at the gate, an idle hosting pool at embedded_page, and*)
(* an embedded pool whose work is known to the graph.                      *)
(***************************************************************************)
EXTENDS Pipeline, RunPoolsProofs

Idle(r) == Outstanding(r) = {} /\ buffer[r] = {}
AllIdle == Idle(Hosting) /\ Idle(Embedded)

(* The nodes that find the pools empty.                                    *)
Quiescent == {"classify", "landing_page", "queue_root_hosting", "queue_root_embedded"} \cup Gated

NodesFindIdle ==
  graph = "producing" /\ (node \in Quiescent \/ (node = "hosting_page" /\ pendingHosting = {})) => AllIdle

(* What the embedded pool has, the graph knows of.                         *)
EmbeddedKnown == ~Idle(Embedded) => embeddedEnqueued \cup pendingEmbedded # {}

(* The hosting pool is done before the embedded one is drained.            *)
HostingFirst == graph \in {"producing", Embedded} /\ node = "embedded_page" => Idle(Hosting)

GraphInv == PipelineTypeOK /\ EvidenceProbed /\ NodesFindIdle /\ EmbeddedKnown /\ HostingFirst

PoolInv == Own /\ Accounting /\ DrainInv
PipeInv == PoolInv /\ GraphInv

(* The two roles, and who is none.                                         *)
LEMMA Roles ==
  /\ Hosting \in Role /\ Embedded \in Role /\ Hosting # Embedded
  /\ \A r \in Role : r = Hosting \/ r = Embedded
  /\ "producing" \notin Role /\ "unwinding" \notin Role /\ "closing" \notin Role /\ "closed" \notin Role
  /\ \A w \in Worker : RoleOf(w) \in Role
BY DEF Role, Hosting, Embedded, Worker, RoleOf

-----------------------------------------------------------------------------
(* Steps of the pools under the graph.                                     *)

(* Nothing comes to the pools, and nothing is reported.                    *)
Kept ==
  /\ \A r \in Role : Outstanding(r)' \subseteq Outstanding(r)
  /\ buffer' = buffer /\ folded' = folded /\ embeddedEnqueued' = embeddedEnqueued

(* A worker that takes a URL, a sentinel, or leaves.                       *)
LEMMA WorkerKeeps ==
  ASSUME Own, NEW w \in Worker, Gives(w) \/ TakeItem(w) \/ Block(w) \/ TakeSentinel(w)
  PROVE  Kept /\ graph' = graph
<1>1. buffer' = buffer /\ folded' = folded /\ embeddedEnqueued' = embeddedEnqueued /\ graph' = graph
  BY DEF Gives, AbortAtTop, AgentCancelled, Kill, TakeItem, Block, TakeSentinel, Exit, resultVars, callerVars
<1>2. pc \in [Worker -> WorkerState] /\ item \in [Worker -> Url \cup {None}] /\ RoleOf(w) \in Role
  BY Roles DEF Own, Typed
<1>3. ASSUME NEW r \in Role PROVE Outstanding(r)' \subseteq Outstanding(r)
  <2>1. CASE TakeItem(w)
    <3> DEFINE u == Head(queue[RoleOf(w)])
    <3>1. u \in Queued(RoleOf(w)) /\ \A q \in Role : Queued(q)' \subseteq Queued(q)
      BY <1>2, <2>1, TailEffect DEF TakeItem, CanGet
    <3>2. item'[w] = u /\ \A v \in Worker : v # w => pc'[v] = pc[v] /\ item'[v] = item[v]
      BY <1>2, <2>1 DEF TakeItem
    <3> HIDE DEF u
    <3> QED
      BY <3>1, <3>2 DEF Outstanding, Busy
  <2>2. CASE Gives(w) \/ Block(w) \/ TakeSentinel(w)
    <3>1. Queued(r)' \subseteq Queued(r)
      <4>1. CASE TakeSentinel(w)
        BY <1>2, <4>1, TailEffect DEF TakeSentinel, CanGet
      <4>2. CASE Gives(w) \/ Block(w)
        BY <4>2 DEF Gives, AbortAtTop, AgentCancelled, Kill, Block, poolVars, Queued
      <4> QED
        BY <2>2, <4>1, <4>2
    <3>2. pc'[w] # "busy" /\ \A v \in Worker : v # w => pc'[v] = pc[v] /\ item'[v] = item[v]
      BY <1>2, <2>2 DEF Gives, AbortAtTop, AgentCancelled, Kill, Block, TakeSentinel, Exit
    <3> QED
      BY <3>1, <3>2 DEF Outstanding, Busy
  <2> QED
    BY <2>1, <2>2
<1> QED
  BY <1>1, <1>3 DEF Kept

(* The steps that wind a run up, and those of the control room.            *)
LEMMA ControlKeeps ==
  ASSUME Own,
         \/ \E r \in Role : FailDrain(r)
         \/ BeginClose \/ Reap \/ ControlStep \/ LeaveGraph \/ UNCHANGED vars
  PROVE  Kept /\ (graph' = graph \/ graph' \notin {"producing"} \cup Role)
<1>1. /\ pc' = pc /\ item' = item /\ (queue' = queue \/ queue' = WithSentinels)
      /\ buffer' = buffer /\ folded' = folded /\ embeddedEnqueued' = embeddedEnqueued
  BY DEF FailDrain, BeginClose, Reap, LeaveGraph, ControlStep, RequestCancel, HookCancel, HookTimeout,
         HookDone, CancelTask, vars, poolVars, resultVars, workerVars
<1>2. graph' = graph \/ graph' \in {"unwinding", "closing", "closed"}
  BY DEF FailDrain, BeginClose, Reap, LeaveGraph, ControlStep, RequestCancel, HookCancel, HookTimeout,
         HookDone, CancelTask, vars, callerVars
<1>3. \A r \in Role : Queued(r)' = Queued(r)
  BY <1>1, SentinelsEffect DEF Queued
<1>4. \A r \in Role : Outstanding(r)' = Outstanding(r)
  BY <1>1, <1>3 DEF Outstanding, Busy
<1> QED
  BY <1>1, <1>2, <1>4, Roles DEF Kept

(* A worker that reports had an item; what it hands to the embedded pool is*)
(* listed, and an embedded worker hands over nothing.                      *)
LEMMA ReportFeeds ==
  ASSUME Own, NEW w \in Worker, NEW hs \in SUBSET Url, NEW es \in SUBSET Url,
         FinishItem(w, hs, es) \/ Crash(w, hs)
  PROVE  /\ Outstanding(RoleOf(w)) # {}
         /\ \A r \in Role : r # RoleOf(w) => buffer'[r] = buffer[r]
         /\ RoleOf(w) = Embedded => \A r \in Role : Outstanding(r)' \subseteq Outstanding(r)
         /\ Outstanding(Embedded)' \ Outstanding(Embedded) \subseteq embeddedEnqueued'
         /\ embeddedEnqueued \subseteq embeddedEnqueued'
         /\ folded' = folded /\ graph' = graph
<1>1. /\ pc[w] = "busy" /\ RoleOf(w) \in Role
      /\ folded' = folded /\ buffer' = [buffer EXCEPT ![RoleOf(w)] = @ \cup {item[w]}]
      /\ graph' = graph
  BY Roles DEF FinishItem, Crash, Report, Exit, callerVars
<1>2. item[w] \in Outstanding(RoleOf(w))
  BY <1>1 DEF Outstanding, Busy
<1>3. \A r \in Role : r # RoleOf(w) => buffer'[r] = buffer[r]
  BY <1>1 DEF Own, Typed
<1>4. PICK new : /\ Fresh(new) /\ PutAll(new)
                 /\ RoleOf(w) = Embedded => new[Hosting] = {} /\ new[Embedded] = {}
                 /\ embeddedEnqueued' = embeddedEnqueued \cup new[Embedded]
  <2>1. CASE FinishItem(w, hs, es)
    <3>1. Fresh(Accepted(hs, es)) /\ PutAll(Accepted(hs, es))
      BY <2>1, AcceptedFresh DEF FinishItem, Own
    <3>2. embeddedEnqueued' = embeddedEnqueued \cup Accepted(hs, es)[Embedded]
      BY <2>1 DEF FinishItem
    <3>3. RoleOf(w) = Embedded => Accepted(hs, es)[Hosting] = {} /\ Accepted(hs, es)[Embedded] = {}
      BY <2>1, Roles DEF FinishItem, Discoveries, Accepted
    <3> QED
      BY <3>1, <3>2, <3>3
  <2>2. CASE Crash(w, hs)
    <3>1. Fresh(Accepted(hs, {})) /\ PutAll(Accepted(hs, {})) /\ embeddedEnqueued' = embeddedEnqueued
      BY <2>2, AcceptedFresh DEF Crash, Own
    <3>2. Accepted(hs, {})[Embedded] = {}
      BY Roles DEF Accepted
    <3>3. RoleOf(w) = Embedded => Accepted(hs, {})[Hosting] = {}
      BY <2>2, Roles DEF Crash, Discoveries, Accepted
    <3> QED
      BY <3>1, <3>2, <3>3
  <2> QED
    BY <2>1, <2>2
<1>5. \A r \in Role : Queued(r)' = Queued(r) \cup new[r]
  BY <1>4, PutAllEffect
<1>6. pc'[w] # "busy" /\ \A v \in Worker : v # w => item'[v] = item[v] /\ (pc'[v] = "busy" => pc[v] = "busy")
  <2>1. CASE FinishItem(w, hs, es)
    BY <2>1 DEF FinishItem, Own, Typed
  <2>2. CASE Crash(w, hs)
    BY <2>2 DEF Crash, Exit, Own, Typed
  <2> QED
    BY <2>1, <2>2
<1>7. \A r \in Role : Outstanding(r)' \subseteq Outstanding(r) \cup new[r]
  BY <1>5, <1>6 DEF Outstanding, Busy
<1>8. RoleOf(w) = Embedded => \A r \in Role : Outstanding(r)' \subseteq Outstanding(r)
  BY <1>4, <1>7, Roles
<1>9. Outstanding(Embedded)' \ Outstanding(Embedded) \subseteq embeddedEnqueued'
  BY <1>4, <1>7, Roles
<1> QED
  BY <1>1, <1>2, <1>3, <1>4, <1>8, <1>9

-----------------------------------------------------------------------------
(* The steps of the pools keep GraphInv.                                   *)

(* A step that brings nothing, while the graph stays or leaves.            *)
LEMMA KeptKeeps ==
  ASSUME GraphInv, Own, Kept, UNCHANGED graphVars,
         graph' = graph \/ graph' \notin {"producing"} \cup Role
  PROVE  GraphInv'
<1>1. /\ node' = node /\ pendingHosting' = pendingHosting /\ pendingEmbedded' = pendingEmbedded
      /\ landed' = landed /\ evidence' = evidence /\ probed' = probed /\ attempts' = attempts
  BY DEF graphVars
<1>2. \A r \in Role : Idle(r) => Idle(r)'
  BY DEF Kept, Idle
<1>3. graph' \in {"producing", Embedded} => graph' = graph
  BY Roles
<1>4. PipelineTypeOK' /\ EvidenceProbed'
  BY <1>1 DEF GraphInv, Kept, PipelineTypeOK, EvidenceProbed, Extracted
<1>5. NodesFindIdle' /\ HostingFirst'
  BY <1>1, <1>2, <1>3, Roles DEF GraphInv, NodesFindIdle, HostingFirst, AllIdle
<1>6. EmbeddedKnown'
  BY <1>1, <1>2, Roles DEF GraphInv, Kept, EmbeddedKnown
<1> QED
  BY <1>4, <1>5, <1>6 DEF GraphInv

(* A worker that reports does so where the graph does not count on rest.   *)
LEMMA ReportKeeps ==
  ASSUME GraphInv, Own, UNCHANGED graphVars,
         NEW w \in Worker, NEW hs \in SUBSET Url, NEW es \in SUBSET Url,
         FinishItem(w, hs, es) \/ Crash(w, hs)
  PROVE  GraphInv'
<1>1. /\ node' = node /\ pendingHosting' = pendingHosting /\ pendingEmbedded' = pendingEmbedded
      /\ landed' = landed /\ evidence' = evidence /\ probed' = probed /\ attempts' = attempts
  BY DEF graphVars
<1>2. /\ Outstanding(RoleOf(w)) # {} /\ RoleOf(w) \in Role
      /\ \A r \in Role : r # RoleOf(w) => buffer'[r] = buffer[r]
      /\ RoleOf(w) = Embedded => \A r \in Role : Outstanding(r)' \subseteq Outstanding(r)
      /\ Outstanding(Embedded)' \ Outstanding(Embedded) \subseteq embeddedEnqueued'
      /\ embeddedEnqueued \subseteq embeddedEnqueued'
      /\ folded' = folded /\ graph' = graph
  BY ReportFeeds, Roles
<1>3. PipelineTypeOK' /\ EvidenceProbed'
  BY <1>1, <1>2 DEF GraphInv, PipelineTypeOK, EvidenceProbed, Extracted
<1>4. ~AllIdle
  BY <1>2, Roles DEF AllIdle, Idle
<1>5. NodesFindIdle'
  BY <1>1, <1>2, <1>4 DEF GraphInv, NodesFindIdle
<1>6. HostingFirst'
  <2> SUFFICES ASSUME graph \in {"producing", Embedded}, node = "embedded_page" PROVE Idle(Hosting)'
    BY <1>1, <1>2 DEF HostingFirst
  <2>1. Idle(Hosting)
    BY DEF GraphInv, HostingFirst
  <2>2. RoleOf(w) = Embedded
    BY <1>2, <2>1, Roles DEF Idle
  <2> QED
    BY <1>2, <2>1, <2>2, Roles DEF Idle
<1>7. EmbeddedKnown'
  <2>1. CASE embeddedEnqueued' \cup pendingEmbedded # {}
    BY <1>1, <2>1 DEF EmbeddedKnown
  <2>2. CASE embeddedEnqueued' \cup pendingEmbedded = {}
    <3>1. Idle(Embedded)
      BY <1>2, <2>2 DEF GraphInv, EmbeddedKnown
    <3>2. Outstanding(Embedded)' = {} /\ RoleOf(w) # Embedded
      BY <1>2, <2>2, <3>1 DEF Idle
    <3>3. Idle(Embedded)'
      BY <1>2, <3>1, <3>2, Roles DEF Idle
    <3> QED
      BY <3>3 DEF EmbeddedKnown
  <2> QED
    BY <2>1, <2>2
<1> QED
  BY <1>3, <1>5, <1>6, <1>7 DEF GraphInv

-----------------------------------------------------------------------------
(* The steps of the graph keep GraphInv.                                   *)

(* What every step of a node has to work with.                             *)
NodeFacts ==
  /\ node \in Node /\ pendingHosting \in SUBSET Url /\ pendingEmbedded \in SUBSET Url
  /\ landed \in BOOLEAN /\ evidence \in SUBSET Extracted /\ probed \in SUBSET Extracted
  /\ attempts \in 0 .. MaxReplans
  /\ folded \in SUBSET Url /\ embeddedEnqueued \in SUBSET Url /\ buffer \in [Role -> SUBSET Url]
  /\ Root \in Url /\ MaxReplans \in Nat

LEMMA GraphFacts == Own /\ GraphInv => NodeFacts
BY PipelineAssumption DEF Own, Typed, GraphInv, PipelineTypeOK, NodeFacts

(* The nodes that touch no pool: where they lead to finds them as they are.*)
LEMMA NodeKeeps ==
  ASSUME GraphInv, Own, UNCHANGED vars, graph = "producing",
         node' \in Node, pendingHosting' \in SUBSET Url, pendingEmbedded' \in SUBSET Url,
         pendingEmbedded \subseteq pendingEmbedded', landed' = landed,
         evidence' \in SUBSET Extracted, probed' \in SUBSET Extracted, attempts' \in 0 .. MaxReplans,
         node' \in {"analyze_providers", "generate_takedown_emails"} => evidence' \subseteq probed',
         \/ AllIdle
         \/ node' \notin Quiescent \cup {"hosting_page", "embedded_page"}
  PROVE  GraphInv'
<1>1. /\ graph' = graph /\ buffer' = buffer /\ folded' = folded /\ embeddedEnqueued' = embeddedEnqueued
      /\ queue' = queue /\ pc' = pc /\ item' = item
  BY DEF vars, poolVars, resultVars, workerVars, callerVars
<1>2. \A r \in Role : Outstanding(r)' = Outstanding(r)
  BY <1>1 DEF Outstanding, Queued, Busy
<1>3. \A r \in Role : Idle(r)' <=> Idle(r)
  BY <1>1, <1>2 DEF Idle
<1>4. Extracted' = Extracted
  BY <1>1 DEF Extracted
<1>5. PipelineTypeOK' /\ EvidenceProbed'
  BY <1>4 DEF GraphInv, PipelineTypeOK, EvidenceProbed
<1>6. NodesFindIdle' /\ HostingFirst'
  BY <1>1, <1>3, Roles DEF NodesFindIdle, HostingFirst, AllIdle
<1>7. EmbeddedKnown'
  BY <1>1, <1>3, Roles DEF GraphInv, EmbeddedKnown
<1> QED
  BY <1>5, <1>6, <1>7 DEF GraphInv

(* Before the first page, at the gate and behind it.                       *)
LEMMA QuietNodes ==
  ASSUME GraphInv, Own,
         \/ Classify \/ QueueRootHosting \/ QueueRootEmbedded \/ HostingIdle
         \/ \E hit, left \in SUBSET Url, sufficient \in BOOLEAN : Validate(hit, left, sufficient)
         \/ AnalyzeProviders \/ GenerateTakedownEmails \/ NoTarget
  PROVE  GraphInv'
<1>1. NodeFacts
  BY GraphFacts
<1>2. "classify" \in Quiescent /\ "queue_root_hosting" \in Quiescent /\ "queue_root_embedded" \in Quiescent
      /\ "validate_evidence" \in Quiescent /\ "analyze_providers" \in Quiescent
      /\ "generate_takedown_emails" \in Quiescent
  BY DEF Quiescent, Gated
<1>3. graph = "producing" /\ (node \in Quiescent \/ (node = "hosting_page" /\ pendingHosting = {})) => AllIdle
  BY DEF GraphInv, NodesFindIdle
<1>4. ASSUME Classify PROVE GraphInv'
  <2>1. /\ graph = "producing" /\ node = "classify" /\ UNCHANGED vars
        /\ pendingHosting' = pendingHosting /\ pendingEmbedded' = pendingEmbedded /\ landed' = landed
        /\ evidence' = evidence /\ probed' = probed /\ attempts' = attempts
    BY <1>4 DEF Classify, At
  <2>2. \A c : RouteAfterClassification(c) \in {"no_target", "landing_page", "queue_root_hosting",
                   "queue_root_embedded", "validate_evidence"} \/ ~(c \in Classifications \cup {FailedClassification})
    BY DEF RouteAfterClassification, Classifications, FailedClassification
  <2>3. node' \in {"no_target", "landing_page", "queue_root_hosting", "queue_root_embedded", "validate_evidence"}
    BY <1>4, <2>2 DEF Classify
  <2>4. node' \in Node /\ node' \notin {"analyze_providers", "generate_takedown_emails"}
    BY <2>3 DEF Node
  <2> QED
    BY <1>1, <1>2, <1>3, <2>1, <2>4, NodeKeeps DEF NodeFacts
<1>5. ASSUME QueueRootHosting \/ QueueRootEmbedded PROVE GraphInv'
  <2>1. /\ graph = "producing" /\ AllIdle /\ UNCHANGED vars
        /\ node' \in {"hosting_page", "embedded_page"}
        /\ pendingHosting' \in SUBSET Url /\ pendingEmbedded' \in SUBSET Url
        /\ pendingEmbedded \subseteq pendingEmbedded' /\ landed' = landed
        /\ evidence' = evidence /\ probed' = probed /\ attempts' = attempts
    BY <1>1, <1>2, <1>3, <1>5 DEF QueueRootHosting, QueueRootEmbedded, At, NodeFacts
  <2>2. node' \in Node /\ node' \notin {"analyze_providers", "generate_takedown_emails"}
    BY <2>1 DEF Node
  <2> QED
    BY <1>1, <2>1, <2>2, NodeKeeps DEF NodeFacts
<1>6. ASSUME HostingIdle PROVE GraphInv'
  <2>1. /\ graph = "producing" /\ AllIdle /\ UNCHANGED vars
        /\ pendingHosting' = pendingHosting /\ pendingEmbedded' = pendingEmbedded /\ landed' = landed
        /\ evidence' = evidence /\ probed' = probed /\ attempts' = attempts
    BY <1>3, <1>6 DEF HostingIdle, At
  <2>2. node' \in {"hosting_page", "embedded_page", "validate_evidence"}
    BY <1>6 DEF HostingIdle, RouteAfterHosting
  <2>3. node' \in Node /\ node' \notin {"analyze_providers", "generate_takedown_emails"}
    BY <2>2 DEF Node
  <2> QED
    BY <1>1, <2>1, <2>3, NodeKeeps DEF NodeFacts
<1>7. ASSUME NEW hit \in SUBSET Url, NEW left \in SUBSET Url, NEW sufficient \in BOOLEAN,
             Validate(hit, left, sufficient)
      PROVE  GraphInv'
  <2>1. /\ graph = "producing" /\ node = "validate_evidence" /\ UNCHANGED vars
        /\ hit \subseteq evidence /\ left \subseteq hit
        /\ evidence' = (evidence \ hit) \cup left /\ probed' = evidence'
        /\ pendingEmbedded' = pendingEmbedded /\ landed' = landed
        /\ node' \in {"hosting_page", "analyze_providers"}
    BY <1>7 DEF Validate, At, Survivors
  <2>2. AllIdle
    BY <1>2, <1>3, <2>1
  <2>3. evidence' \in SUBSET Extracted /\ probed' \in SUBSET Extracted
    BY <1>1, <2>1 DEF NodeFacts
  <2>4. Extracted \in SUBSET Url
    BY <1>1 DEF Extracted, NodeFacts
  <2>5. pendingHosting' \in SUBSET Url
    BY <1>7, <2>4 DEF Validate, Affected
  <2>6. attempts' \in 0 .. MaxReplans
    <3>1. attempts' = attempts \/ (attempts < MaxReplans /\ attempts' = attempts + 1)
      BY <1>7 DEF Validate, RequestReplan, ReplanCounted
    <3>2. attempts \in 0 .. MaxReplans /\ MaxReplans \in Nat
      BY <1>1 DEF NodeFacts
    <3> QED
      BY <3>1, <3>2
  <2>7. node' \in Node
    BY <2>1 DEF Node
  <2> QED
    BY <1>1, <2>1, <2>2, <2>3, <2>5, <2>6, <2>7, NodeKeeps DEF NodeFacts
<1>8. ASSUME AnalyzeProviders \/ GenerateTakedownEmails \/ NoTarget PROVE GraphInv'
  <2>1. /\ graph = "producing" /\ UNCHANGED vars
        /\ \/ node = "analyze_providers" /\ node' = "generate_takedown_emails"
           \/ node' = "END"
        /\ pendingHosting' = pendingHosting /\ pendingEmbedded' = pendingEmbedded /\ landed' = landed
        /\ evidence' = evidence /\ probed' = probed /\ attempts' = attempts
    BY <1>8 DEF AnalyzeProviders, GenerateTakedownEmails, NoTarget, Follow, At
  <2>2. node = "analyze_providers" => evidence \subseteq probed
    BY DEF GraphInv, EvidenceProbed
  <2>3. node' \in Node /\ (node' = "END" => node' \notin Quiescent \cup {"hosting_page", "embedded_page"})
    BY <2>1 DEF Node, Quiescent, Gated
  <2>4. AllIdle \/ node' \notin Quiescent \cup {"hosting_page", "embedded_page"}
    BY <1>2, <1>3, <2>1, <2>3
  <2>5. node' \in {"analyze_providers", "generate_takedown_emails"} => evidence' \subseteq probed'
    BY <2>1, <2>2
  <2> QED
    BY <1>1, <2>1, <2>3, <2>4, <2>5, NodeKeeps DEF NodeFacts
<1> QED
  BY <1>4, <1>5, <1>6, <1>7, <1>8

(* A step that puts URLs leaves the pool of a role to which it puts none.  *)
LEMMA PutLeaves ==
  ASSUME Own, NEW new, Fresh(new), PutAll(new), item' = item, buffer' = buffer,
         pc' = [w \in Worker |-> IF w \in Spawned(new) THEN "top" ELSE pc[w]]
  PROVE  \A r \in Role : new[r] = {} /\ Idle(r) => Idle(r)'
<1>1. \A r \in Role : Queued(r)' = Queued(r) \cup new[r]
  BY PutAllEffect
<1>2. \A w \in Worker : pc'[w] = "busy" => pc[w] = "busy"
  OBVIOUS
<1>3. \A r \in Role : new[r] = {} => Outstanding(r)' \subseteq Outstanding(r)
  BY <1>1, <1>2 DEF Outstanding, Busy
<1> QED
  BY <1>3 DEF Idle

(* The landing page hands its matches to the hosting pool.                 *)
LEMMA LandingKeeps ==
  ASSUME GraphInv, Own, NEW hs \in SUBSET Url, NEW direct \in BOOLEAN, LandingPage(hs, direct)
  PROVE  GraphInv'
<1> DEFINE new == Accepted(hs, {})
<1>1. NodeFacts
  BY GraphFacts
<1>2. /\ graph = "producing" /\ graph' = "producing" /\ node = "landing_page"
      /\ Fresh(new) /\ PutAll(new) /\ item' = item
      /\ pc' = [w \in Worker |-> IF w \in Spawned(new) THEN "top" ELSE pc[w]]
      /\ buffer' = buffer /\ folded' = folded /\ embeddedEnqueued' = embeddedEnqueued
      /\ landed' = TRUE /\ evidence' \in {evidence, evidence \cup {Root}}
      /\ pendingHosting' = hs /\ pendingEmbedded' = pendingEmbedded
      /\ probed' = probed /\ attempts' = attempts
      /\ node' = RouteAfterLanding(hs, pendingEmbedded)
  BY AcceptedFresh DEF LandingPage, At, Produce, resultVars, callerVars, Own
<1>3. AllIdle
  BY <1>2 DEF GraphInv, NodesFindIdle, Quiescent
<1>4. new[Embedded] = {} /\ (hs = {} => new[Hosting] = {})
  BY Roles DEF Accepted
<1> HIDE DEF new
<1>5. Idle(Embedded)' /\ (hs = {} => Idle(Hosting)')
  BY <1>2, <1>3, <1>4, PutLeaves, Roles DEF AllIdle
<1>6. /\ hs # {} => node' = "hosting_page"
      /\ node' \in {"hosting_page", "embedded_page", "validate_evidence"}
  BY <1>2 DEF RouteAfterLanding
<1>7. PipelineTypeOK'
  <2>1. Extracted \subseteq Extracted' /\ Root \in Extracted'
    BY <1>2 DEF Extracted
  <2>2. node' \in Node
    BY <1>6 DEF Node
  <2> QED
    BY <1>1, <1>2, <2>1, <2>2 DEF PipelineTypeOK, NodeFacts
<1>8. EvidenceProbed'
  BY <1>6 DEF EvidenceProbed
<1>9. NodesFindIdle' /\ HostingFirst'
  <2>1. hs # {} => node' \notin Quiescent
    BY <1>6 DEF Quiescent, Gated
  <2>2. hs = {} => AllIdle'
    BY <1>5 DEF AllIdle
  <2> QED
    BY <1>2, <1>5, <1>6, <2>1, <2>2 DEF NodesFindIdle, HostingFirst
<1>10. EmbeddedKnown'
  BY <1>5 DEF EmbeddedKnown
<1> QED
  BY <1>7, <1>8, <1>9, <1>10 DEF GraphInv

(* A drainer node hands its targets to its pool, and waits.                *)
LEMMA BeginKeeps ==
  ASSUME GraphInv, Own, NEW r \in Role, NEW us \in SUBSET Url, StartDrain(r, us), UNCHANGED graphVars,
         r = Embedded => node = "embedded_page" /\ us \subseteq pendingEmbedded
  PROVE  GraphInv'
<1> DEFINE new == IF r = Hosting THEN Accepted(us, {}) ELSE Accepted({}, us)
<1>1. /\ graph = "producing" /\ graph' = r
      /\ Fresh(new) /\ PutAll(new) /\ item' = item
      /\ pc' = [w \in Worker |-> IF w \in Spawned(new) THEN "top" ELSE pc[w]]
      /\ buffer' = buffer /\ folded' = folded /\ embeddedEnqueued' = embeddedEnqueued
  BY AcceptedFresh DEF StartDrain, resultVars, Own
<1>2. /\ node' = node /\ pendingHosting' = pendingHosting /\ pendingEmbedded' = pendingEmbedded
      /\ landed' = landed /\ evidence' = evidence /\ probed' = probed /\ attempts' = attempts
  BY DEF graphVars
<1>3. /\ r = Hosting => new[Embedded] = {}
      /\ r = Embedded => new[Hosting] = {} /\ new[Embedded] \subseteq pendingEmbedded
  BY Roles DEF Accepted
<1> HIDE DEF new
<1>4. \A q \in Role : new[q] = {} /\ Idle(q) => Idle(q)'
  BY <1>1, PutLeaves
<1>5. PipelineTypeOK' /\ EvidenceProbed'
  BY <1>1, <1>2 DEF GraphInv, PipelineTypeOK, EvidenceProbed, Extracted
<1>6. NodesFindIdle'
  BY <1>1, Roles DEF NodesFindIdle
<1>7. HostingFirst'
  BY <1>1, <1>2, <1>3, <1>4, Roles DEF GraphInv, HostingFirst
<1>8. EmbeddedKnown'
  BY <1>1, <1>2, <1>3, <1>4, Roles DEF GraphInv, EmbeddedKnown
<1> QED
  BY <1>5, <1>6, <1>7, <1>8 DEF GraphInv

(* A drain that ends leaves its pool idle, and its results with the graph. *)
LEMMA DrainLeavesIdle ==
  ASSUME PoolInv, NEW r \in Role, EndDrain(r)
  PROVE  /\ Idle(r)' /\ graph = r /\ graph' = "producing"
         /\ \A q \in Role : Idle(q) => Idle(q)'
         /\ folded' = folded \cup buffer[r] /\ embeddedEnqueued' = embeddedEnqueued
<1>1. /\ graph = r /\ graph' = "producing" /\ drained[r] /\ ~cancelled /\ ~errors
      /\ folded' = folded \cup buffer[r] /\ buffer' = [buffer EXCEPT ![r] = {}]
      /\ embeddedEnqueued' = embeddedEnqueued
      /\ queue' = queue /\ pc' = pc /\ item' = item
  BY DEF EndDrain, Consume, poolVars, workerVars
<1>2. pending[r] = 0
  BY <1>1 DEF PoolInv, DrainInv, EventTrue
<1>3. Outstanding(r) = {}
  BY <1>2, Counts DEF PoolInv, CountFacts
<1>4. \A q \in Role : Outstanding(q)' = Outstanding(q)
  BY <1>1 DEF Outstanding, Queued, Busy
<1>5. \A q \in Role : buffer'[q] = IF q = r THEN {} ELSE buffer[q]
  BY <1>1 DEF PoolInv, Own, Typed
<1> QED
  BY <1>1, <1>3, <1>4, <1>5 DEF Idle

(* A drainer node ends: the hosting one follows up what its workers found. *)
LEMMA EndKeeps ==
  ASSUME PoolInv, GraphInv, NEW found \in SUBSET Url, HostingEnd(found) \/ EmbeddedEnd(found)
  PROVE  GraphInv'
<1>1. NodeFacts
  BY GraphFacts DEF PoolInv
<1>2. CASE HostingEnd(found)
  <2>1. /\ EndDrain(Hosting) /\ found \subseteq buffer[Hosting] /\ evidence' = evidence \cup found
        /\ landed' = landed /\ probed' = probed /\ attempts' = attempts
        /\ pendingHosting' = {} /\ pendingEmbedded' = pendingEmbedded \cup embeddedEnqueued
        /\ node' = IF pendingEmbedded \cup embeddedEnqueued # {} THEN "embedded_page" ELSE "validate_evidence"
    BY <1>2 DEF HostingEnd, Gather, FollowUps, RouteAfterHosting
  <2>2. /\ Idle(Hosting)' /\ graph' = "producing" /\ (Idle(Embedded) => Idle(Embedded)')
        /\ folded' = folded \cup buffer[Hosting] /\ embeddedEnqueued' = embeddedEnqueued
    BY <2>1, DrainLeavesIdle, Roles
  <2>3. PipelineTypeOK'
    <3>1. Extracted \subseteq Extracted' /\ found \subseteq Extracted'
      BY <2>1, <2>2 DEF Extracted
    <3> QED
      BY <1>1, <2>1, <3>1 DEF PipelineTypeOK, NodeFacts, Node
  <2>4. EvidenceProbed'
    BY <2>1 DEF EvidenceProbed
  <2>5. HostingFirst'
    BY <2>2 DEF HostingFirst
  <2>6. NodesFindIdle'
    <3> SUFFICES ASSUME node' \in Quiescent \/ node' = "hosting_page" PROVE AllIdle'
      BY DEF NodesFindIdle
    <3>1. pendingEmbedded \cup embeddedEnqueued = {}
      BY <2>1 DEF Quiescent, Gated
    <3>2. Idle(Embedded)
      BY <3>1 DEF GraphInv, EmbeddedKnown
    <3> QED
      BY <2>2, <3>2 DEF AllIdle
  <2>7. EmbeddedKnown'
    BY <2>1, <2>2 DEF GraphInv, EmbeddedKnown
  <2> QED
    BY <2>3, <2>4, <2>5, <2>6, <2>7 DEF GraphInv
<1>3. CASE EmbeddedEnd(found)
  <2>1. /\ EndDrain(Embedded) /\ found \subseteq buffer[Embedded] /\ evidence' = evidence \cup found
        /\ landed' = landed /\ probed' = probed /\ attempts' = attempts
        /\ pendingHosting' = pendingHosting /\ pendingEmbedded' = {}
        /\ node = "embedded_page" /\ node' = "validate_evidence"
    BY <1>3 DEF EmbeddedEnd, Gather, RouteAfterEmbedded
  <2>2. /\ Idle(Embedded)' /\ graph = Embedded /\ graph' = "producing" /\ (Idle(Hosting) => Idle(Hosting)')
        /\ folded' = folded \cup buffer[Embedded] /\ embeddedEnqueued' = embeddedEnqueued
    BY <2>1, DrainLeavesIdle, Roles
  <2>3. PipelineTypeOK'
    <3>1. Extracted \subseteq Extracted' /\ found \subseteq Extracted'
      BY <2>1, <2>2 DEF Extracted
    <3> QED
      BY <1>1, <2>1, <3>1 DEF PipelineTypeOK, NodeFacts, Node
  <2>4. Idle(Hosting)
    BY <2>1, <2>2 DEF GraphInv, HostingFirst
  <2>5. AllIdle'
    BY <2>2, <2>4 DEF AllIdle
  <2> QED
    BY <2>1, <2>2, <2>3, <2>5 DEF GraphInv, EvidenceProbed, NodesFindIdle, HostingFirst, EmbeddedKnown, AllIdle
<1> QED
  BY <1>2, <1>3

-----------------------------------------------------------------------------
(* The graph is a client the pools allow.                                  *)

(* The steps of the nodes are steps of RunPools, or touch no pool.         *)
LEMMA NodeIsClient ==
  ASSUME PipeInv, NodeStep
  PROVE  [Next]_vars
<1>1. NodeFacts
  BY GraphFacts DEF PipeInv, PoolInv
<1>2. ASSUME NEW hs \in SUBSET Url, NEW direct \in BOOLEAN, LandingPage(hs, direct) PROVE Next
  BY <1>2 DEF LandingPage, Next, GraphStep
<1>3. ASSUME HostingBegin PROVE Next
  <2>1. StartDrain(Hosting, pendingHosting) /\ CanDrain(Hosting)
    BY <1>3, Roles DEF HostingBegin, CanDrain
  <2> QED
    BY <1>1, <2>1, Roles DEF BeginDrain, Next, GraphStep, NodeFacts
<1>4. ASSUME NEW us \in SUBSET Url, EmbeddedBegin(us) PROVE Next
  <2>1. StartDrain(Embedded, us) /\ graph = "producing" /\ node = "embedded_page"
    BY <1>4 DEF EmbeddedBegin, At
  <2>2. Outstanding(Hosting) = {}
    BY <2>1 DEF PipeInv, GraphInv, HostingFirst, Idle
  <2>3. pending[Hosting] = 0 /\ inflight[Hosting] = 0
    BY <2>2, Counts, Roles DEF PipeInv, PoolInv, CountFacts
  <2>4. CanDrain(Embedded)
    BY <2>3 DEF CanDrain
  <2> QED
    BY <2>1, <2>4, Roles DEF BeginDrain, Next, GraphStep
<1>5. ASSUME NEW found \in SUBSET Url, HostingEnd(found) \/ EmbeddedEnd(found) PROVE Next
  BY <1>5, Roles DEF HostingEnd, EmbeddedEnd, Gather, Next, GraphStep
<1>6. ASSUME \/ Classify \/ QueueRootHosting \/ QueueRootEmbedded \/ HostingIdle
             \/ \E hit, left \in SUBSET Url, sufficient \in BOOLEAN : Validate(hit, left, sufficient)
             \/ AnalyzeProviders \/ GenerateTakedownEmails \/ NoTarget
      PROVE  UNCHANGED vars
  BY <1>6 DEF Classify, QueueRootHosting, QueueRootEmbedded, HostingIdle, Validate, AnalyzeProviders,
     GenerateTakedownEmails, NoTarget, Follow
<1> QED
  BY <1>2, <1>3, <1>4, <1>5, <1>6 DEF NodeStep

(* And so is every step of the pipeline.                                   *)
LEMMA StepIsClient == PipeInv /\ [PipelineNext]_pipeVars => [Next]_vars
<1> SUFFICES ASSUME PipeInv, [PipelineNext]_pipeVars PROVE [Next]_vars
  OBVIOUS
<1>1. CASE NodeStep
  BY <1>1, NodeIsClient
<1>2. CASE PoolStep
  BY <1>2 DEF PoolStep, Next, GraphStep
<1>3. CASE Leave
  BY <1>3 DEF Leave, Next, GraphStep
<1>4. CASE UNCHANGED pipeVars
  BY <1>4 DEF pipeVars
<1> QED
  BY <1>1, <1>2, <1>3, <1>4 DEF PipelineNext

(* The graph's own steps keep what it counts on.                           *)
LEMMA GraphNext == PipeInv /\ [PipelineNext]_pipeVars => GraphInv'
<1> SUFFICES ASSUME PipeInv, [PipelineNext]_pipeVars PROVE GraphInv'
  OBVIOUS
<1>1. PoolInv /\ GraphInv /\ Own /\ NodeFacts
  BY GraphFacts DEF PipeInv, PoolInv
<1>2. CASE NodeStep
  <2>1. ASSUME NEW hs \in SUBSET Url, NEW direct \in BOOLEAN, LandingPage(hs, direct) PROVE GraphInv'
    BY <1>1, <2>1, LandingKeeps
  <2>2. ASSUME HostingBegin PROVE GraphInv'
    <3>1. StartDrain(Hosting, pendingHosting) /\ UNCHANGED graphVars
      BY <2>2 DEF HostingBegin
    <3>2. Hosting \in Role /\ Hosting # Embedded /\ pendingHosting \in SUBSET Url
      BY <1>1, Roles DEF NodeFacts
    <3> QED
      BY <1>1, <3>1, <3>2, BeginKeeps
  <2>3. ASSUME NEW us \in SUBSET Url, EmbeddedBegin(us) PROVE GraphInv'
    <3>1. StartDrain(Embedded, us) /\ UNCHANGED graphVars /\ node = "embedded_page" /\ us \subseteq pendingEmbedded
      BY <2>3 DEF EmbeddedBegin, At
    <3> QED
      BY <1>1, <3>1, BeginKeeps, Roles
  <2>4. ASSUME NEW found \in SUBSET Url, HostingEnd(found) \/ EmbeddedEnd(found) PROVE GraphInv'
    BY <1>1, <2>4, EndKeeps
  <2>5. ASSUME \/ Classify \/ QueueRootHosting \/ QueueRootEmbedded \/ HostingIdle
               \/ \E hit, left \in SUBSET Url, sufficient \in BOOLEAN : Validate(hit, left, sufficient)
               \/ AnalyzeProviders \/ GenerateTakedownEmails \/ NoTarget
        PROVE  GraphInv'
    BY <1>1, <2>5, QuietNodes
  <2> QED
    BY <1>2, <2>1, <2>2, <2>3, <2>4, <2>5 DEF NodeStep
<1>3. CASE PoolStep
  <2>1. ASSUME NEW w \in Worker, WorkerStep(w) PROVE GraphInv'
    <3>1. UNCHANGED graphVars
      BY <1>3 DEF PoolStep
    <3>2. CASE Gives(w) \/ TakeItem(w) \/ Block(w) \/ TakeSentinel(w)
      BY <1>1, <3>1, <3>2, WorkerKeeps, KeptKeeps
    <3>3. ASSUME NEW hs \in SUBSET Url, NEW es \in SUBSET Url, FinishItem(w, hs, es) \/ Crash(w, hs)
          PROVE  GraphInv'
      BY <1>1, <3>1, <3>3, ReportKeeps
    <3>4. {} \in SUBSET Url
      OBVIOUS
    <3> QED
      BY <2>1, <3>2, <3>3, <3>4 DEF WorkerStep, Gives
  <2>2. ASSUME \/ \E r \in Role : FailDrain(r)
               \/ BeginClose \/ Reap \/ ControlStep \/ Finished
        PROVE  GraphInv'
    <3>1. UNCHANGED graphVars
      BY <1>3 DEF PoolStep
    <3> QED
      BY <1>1, <2>2, <3>1, ControlKeeps, KeptKeeps DEF Finished
  <2> QED
    BY <1>3, <2>1, <2>2 DEF PoolStep
<1>4. CASE Leave
  <2>1. LeaveGraph /\ UNCHANGED graphVars
    BY <1>4 DEF Leave
  <2> QED
    BY <1>1, <2>1, ControlKeeps, KeptKeeps
<1>5. CASE UNCHANGED pipeVars
  <2>1. UNCHANGED vars /\ UNCHANGED graphVars
    BY <1>5 DEF pipeVars
  <2> QED
    BY <1>1, <2>1, ControlKeeps, KeptKeeps
<1> QED
  BY <1>2, <1>3, <1>4, <1>5 DEF PipelineNext

(* A run begins with empty pools.                                          *)
LEMMA PipeStart == PipelineInit => PipeInv
<1> SUFFICES ASSUME PipelineInit PROVE PipeInv
  OBVIOUS
<1>1. Init
  BY DEF PipelineInit
<1>2. PoolInv
  BY <1>1, OwnInit, AccountingInit, DrainInit DEF PoolInv
<1>3. \A r \in Role : Idle(r)
  BY <1>1 DEF Init, Idle, Outstanding, Queued, Busy, ToSet
<1>4. /\ node = "classify" /\ pendingHosting = {} /\ pendingEmbedded = {}
      /\ landed = FALSE /\ evidence = {} /\ probed = {} /\ attempts = 0
  BY DEF PipelineInit
<1>5. 0 \in 0 .. MaxReplans
  BY PipelineAssumption
<1>6. PipelineTypeOK
  BY <1>4, <1>5 DEF PipelineTypeOK, Node
<1>7. EvidenceProbed /\ NodesFindIdle /\ EmbeddedKnown /\ HostingFirst
  BY <1>3, <1>4, Roles DEF EvidenceProbed, NodesFindIdle, EmbeddedKnown, HostingFirst, AllIdle
<1> QED
  BY <1>2, <1>6, <1>7 DEF PipeInv, GraphInv

(* PipeInv is an invariant of the pipeline.                                *)
LEMMA PipeInvariant == PipelineSpec => []PipeInv
<1>1. PipeInv /\ [PipelineNext]_pipeVars => PipeInv'
  <2> SUFFICES ASSUME PipeInv, [PipelineNext]_pipeVars PROVE PipeInv'
    OBVIOUS
  <2>1. [Next]_vars
    BY StepIsClient
  <2>2. Own'
    BY <2>1, OwnNext DEF PipeInv, PoolInv
  <2>3. Accounting'
    BY <2>1, <2>2, AccountingNext DEF PipeInv, PoolInv
  <2>4. DrainInv'
    BY <2>1, <2>2, <2>3, DrainNext DEF PipeInv, PoolInv
  <2>5. GraphInv'
    BY GraphNext
  <2> QED
    BY <2>2, <2>3, <2>4, <2>5 DEF PipeInv, PoolInv
<1> QED
  BY <1>1, PipeStart, PTL DEF PipelineSpec

(* The graph drains the embedded pool only while the hosting pool is idle  *)
(* (hosting_page, embedded_page and the routers of build_graph): every     *)
(* behaviour of the orchestrator is one of RunPools, so what is proved of  *)
(* the pools with their most general client holds of the orchestrator.     *)
THEOREM GraphKeepsProtocol == PipelineSpec => KeepsPoolProtocol
<1>1. PipelineInit => Init
  BY DEF PipelineInit
<1> QED
  BY <1>1, StepIsClient, PipeInvariant, PTL DEF PipelineSpec, KeepsPoolProtocol, Spec

(* When evidence is judged nothing that was handed to the pools is missing,*)
(* and what reaches the providers was judged (validate_evidence,           *)
(* request_replan).                                                        *)
THEOREM GateIsSound == PipelineSpec => []GateSound
<1>1. PipeInv => GateSound
  BY Roles DEF PipeInv, GraphInv, GateSound, NodesFindIdle, EvidenceComplete, Quiescent, AllIdle, Idle
<1> QED
  BY <1>1, PipeInvariant, PTL
=============================================================================
