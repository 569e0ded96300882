---------------------------- MODULE RunPlanSteps ----------------------------
(***************************************************************************)
(* The plan of a run and the status of its steps.  The orchestrator stores *)
(* the plan when a run begins; a wrapper around each node moves the node's *)
(* step to in_progress, then to done or failed.  Both are best effort, and *)
(* both are told to the console by events; a stream attaches the stored    *)
(* plan to the message that carries such an event.                         *)
(***************************************************************************)
EXTENDS Naturals

CONSTANTS
    ForeignKeys,     \* the database enforces them (PostgreSQL; SQLite does not)
    MaxAttempts,     \* executions of the run's job
    MaxVisits        \* bound on the nodes visited, over all executions

ASSUME PlanAssumption == ForeignKeys \in BOOLEAN /\ MaxAttempts \in Nat /\ MaxVisits \in Nat

\* The steps of the plan; the other nodes are wrapped as well, but no step has
\* their name.
PlanSteps == {"classify", "landing_page", "validate_evidence", "analyze_providers",
              "generate_takedown_emails"}

\* The edges of the graph from one wrapped node to the next.
Edges ==
    {<<"start", "classify">>,
     <<"classify", "landing_page">>, <<"classify", "queue_root_hosting">>,
     <<"classify", "queue_root_embedded">>, <<"classify", "validate_evidence">>,
     <<"classify", "end">>,
     <<"landing_page", "hosting_page">>, <<"landing_page", "embedded_page">>,
     <<"landing_page", "validate_evidence">>,
     <<"queue_root_hosting", "hosting_page">>, <<"queue_root_embedded", "embedded_page">>,
     <<"hosting_page", "hosting_page">>, <<"hosting_page", "embedded_page">>,
     <<"hosting_page", "validate_evidence">>,
     <<"embedded_page", "embedded_page">>, <<"embedded_page", "validate_evidence">>,
     <<"validate_evidence", "analyze_providers">>, <<"validate_evidence", "hosting_page">>,
     <<"analyze_providers", "generate_takedown_emails">>,
     <<"generate_takedown_emails", "end">>}

VARIABLES
    execution,   \* "idle", "running", "saved", "broken": of the latest attempt
    node,        \* the node that runs, or ran last
    inside,      \* the node has been entered and not left
    visits,      \* nodes entered so far
    planTries,   \* attempts
    parent,      \* the run has a row in runs
    steps,       \* plan_steps: the status of each step, or NoPlan
    news,        \* plan events that no message has carried yet
    planShown,   \* the plan the console last received
    shaken       \* a write failed, or an attempt did not come to its end

planVars == <<execution, node, inside, visits, planTries, parent, steps, news, planShown, shaken>>

NoPlan == [s \in PlanSteps |-> "none"]
Fresh  == [s \in PlanSteps |-> "pending"]

PlanInit ==
    /\ execution = "idle" /\ node = "start" /\ inside = FALSE /\ visits = 0 /\ planTries = 0
    /\ parent = FALSE /\ steps = NoPlan
    /\ news = FALSE /\ planShown = NoPlan /\ shaken = FALSE

\* create_plan: a plan that is there stays; without the row of the run a
\* database that enforces foreign keys refuses it.
Created == IF steps # NoPlan THEN steps
           ELSE IF ForeignKeys /\ ~parent THEN NoPlan ELSE Fresh

\* emit_run_plan, at the start of every attempt; the event is emitted whether
\* the plan was stored or not.
BeginAttempt ==
    /\ execution \in {"idle", "broken"} /\ planTries < MaxAttempts
    /\ execution' = "running" /\ node' = "start" /\ inside' = FALSE
    /\ planTries' = planTries + 1
    /\ \/ steps' = Created /\ UNCHANGED shaken
       \/ steps' = steps /\ shaken' = TRUE
    /\ news' = TRUE
    /\ UNCHANGED <<visits, parent, planShown>>

\* transition_step: any status may follow any other.
Moved(s, status) == [steps EXCEPT ![s] = status]

\* _safe_transition: stored, then announced; a step that is not in the store, or
\* a write that fails, is neither.
Transition(s, status) ==
    IF steps # NoPlan /\ s \in PlanSteps
    THEN \/ steps' = Moved(s, status) /\ news' = TRUE /\ UNCHANGED shaken
         \/ shaken' = TRUE /\ UNCHANGED <<steps, news>>
    ELSE UNCHANGED <<steps, news, shaken>>

\* _wrap_plan_step
EnterNode(n) ==
    /\ execution = "running" /\ ~inside /\ <<node, n>> \in Edges /\ n # "end"
    /\ visits < MaxVisits
    /\ node' = n /\ inside' = TRUE /\ visits' = visits + 1
    /\ Transition(n, "in_progress")
    /\ UNCHANGED <<execution, planTries, parent, planShown>>

LeftOpen  == "in_progress"     \* mutant of Left
Left == "done"
LeaveNode ==
    /\ inside /\ inside' = FALSE
    /\ Transition(node, Left)
    /\ UNCHANGED <<execution, node, visits, planTries, parent, planShown>>

\* An error ends the attempt; when it is the budget, what there is gets saved.
NodeRaises(saved) ==
    /\ inside /\ inside' = FALSE
    /\ execution' = (IF saved THEN "saved" ELSE "broken") /\ parent' = (parent \/ saved)
    /\ Transition(node, "failed")
    /\ UNCHANGED <<node, visits, planTries, planShown>>

\* A cancellation, or the workflow's time-out, unwinds the node without a word
\* about its step.  After the time-out what there is gets saved as the result.
Interrupted(saved) ==
    /\ inside /\ inside' = FALSE
    /\ execution' = (IF saved THEN "saved" ELSE "broken") /\ parent' = (parent \/ saved)
    /\ shaken' = TRUE
    /\ UNCHANGED <<node, visits, planTries, steps, news, planShown>>

\* The last node: the result is saved, with the row in runs.
EndAttempt ==
    /\ execution = "running" /\ ~inside /\ <<node, "end">> \in Edges
    /\ execution' = "saved" /\ parent' = TRUE
    /\ UNCHANGED <<node, inside, visits, planTries, steps, news, planShown, shaken>>

\* After a crash between the result and the job row the job runs again.
CrashAfterSave ==
    /\ execution = "saved" /\ planTries < MaxAttempts
    /\ execution' = "broken" /\ shaken' = TRUE
    /\ UNCHANGED <<node, inside, visits, planTries, parent, steps, news, planShown>>

Attached == IF steps # NoPlan THEN steps ELSE planShown

\* A turn of _stream_trace that carries plan events.
Tick ==
    /\ news /\ news' = FALSE
    /\ planShown' = Attached
    /\ UNCHANGED <<execution, node, inside, visits, planTries, parent, steps, shaken>>

PlanNext ==
    \/ BeginAttempt
    \/ \E e \in Edges : EnterNode(e[2])
    \/ LeaveNode
    \/ \E saved \in BOOLEAN : NodeRaises(saved) \/ Interrupted(saved)
    \/ EndAttempt \/ CrashAfterSave \/ Tick

PlanSpec == PlanInit /\ [][PlanNext]_planVars

-----------------------------------------------------------------------------
Statuses == {"none", "pending", "in_progress", "done", "failed"}

PlanTypeOK ==
    /\ execution \in {"idle", "running", "saved", "broken"}
    /\ node \in {e[2] : e \in Edges} \cup {"start"}
    /\ inside \in BOOLEAN /\ visits \in 0..MaxVisits /\ planTries \in 0..MaxAttempts
    /\ parent \in BOOLEAN /\ news \in BOOLEAN /\ shaken \in BOOLEAN
    /\ steps \in [PlanSteps -> Statuses] /\ planShown \in [PlanSteps -> Statuses]

\* As long as every write succeeds and every attempt ends by itself, the stored
\* plan says exactly which node runs, through replans and repeated nodes.
StepsTellNode ==
    steps # NoPlan /\ ~shaken =>
        {s \in PlanSteps : steps[s] = "in_progress"} = {node} \cap (IF inside THEN PlanSteps ELSE {})

\* The console never stays behind: once it has received every event, it shows the
\* stored plan.
ConsoleHasPlan == ~news /\ steps # NoPlan => planShown = steps

\* The stored plan tells where the graph is, and the console shows it.
PlanTrue == PlanTypeOK /\ StepsTellNode /\ ConsoleHasPlan
=============================================================================
