----------------------------- MODULE AgentRollups -----------------------------
(***************************************************************************)
(* What a run's page says of the agents that worked on it: which of them    *)
(* are working, how many worked at the same time, how each stage stands     *)
(* (get_run_detail of storage/ui_repository.py).  All of it is computed     *)
(* from the agent rows, which a snapshot cuts out of the trace's events      *)
(* (_extract_trace_agent_contexts of storage/repositories.py).              *)
(*                                                                         *)
(* A stage is an actor; events carry the time at which they were emitted.   *)
(***************************************************************************)
EXTENDS Naturals, Integers, Sequences, FiniteSets, SequencesExt

CONSTANTS
    RollActor,    \* actors; the workers of a pool share one
    RollEvents,   \* bound on the number of events
    RollAgents    \* bound on the agents of an actor that work at the same time

ASSUME RollAssumption ==
    RollEvents \in Nat /\ RollAgents \in Nat \ {0} /\ IsFiniteSet(RollActor)

VARIABLES
    rollLog,      \* the events of the trace: actor, kind, status, at
    rollWorking,  \* how many agents of an actor are working
    rollPeak,     \* the most agents that ever worked at the same time
    rollShared,   \* two agents of one actor have worked at the same time, or
                  \* one has begun in the instant in which another ended
    rollFailed    \* actors of which an agent raised, and told nobody

rollVars == <<rollLog, rollWorking, rollPeak, rollShared, rollFailed>>

RollInit ==
    /\ rollLog = <<>> /\ rollWorking = [a \in RollActor |-> 0]
    /\ rollPeak = 0 /\ rollShared = FALSE /\ rollFailed = {}

RollNow == IF rollLog = <<>> THEN 0 ELSE Last(rollLog).at

\* Agents at work, of all actors.
RollBusy(working) == Cardinality(UNION {{a} \X (1..working[a]) : a \in RollActor})

RollEmit(a, kind, status) ==
    /\ Len(rollLog) < RollEvents
    /\ \E now \in {RollNow, RollNow + 1} :
         rollLog' = Append(rollLog, [actor |-> a, kind |-> kind, status |-> status, at |-> now])

RollEndedAt(now) == \E i \in DOMAIN rollLog : rollLog[i].kind = "finish" /\ rollLog[i].at = now

RollBegin(a) ==
    /\ rollWorking[a] < RollAgents
    /\ RollEmit(a, "start", "")
    /\ rollWorking' = [rollWorking EXCEPT ![a] = @ + 1]
    /\ rollPeak' = (IF RollBusy(rollWorking') > rollPeak THEN RollBusy(rollWorking') ELSE rollPeak)
    /\ rollShared' = (rollShared \/ rollWorking[a] > 0 \/ RollEndedAt(Last(rollLog').at))
    /\ UNCHANGED rollFailed

\* A tool call or a model call.
RollWork(a) ==
    /\ rollWorking[a] > 0
    /\ RollEmit(a, "work", "")
    /\ UNCHANGED <<rollWorking, rollPeak, rollShared, rollFailed>>

RollEnd(a, status) ==
    /\ rollWorking[a] > 0
    /\ RollEmit(a, "finish", status)
    /\ rollWorking' = [rollWorking EXCEPT ![a] = @ - 1]
    /\ UNCHANGED <<rollPeak, rollShared, rollFailed>>

RollRaise(a) ==
    /\ rollWorking[a] > 0
    /\ rollWorking' = [rollWorking EXCEPT ![a] = @ - 1]
    /\ rollFailed' = rollFailed \cup {a}
    /\ UNCHANGED <<rollLog, rollPeak, rollShared>>

RollNext ==
    \E a \in RollActor :
        \/ RollBegin(a) \/ RollWork(a) \/ RollRaise(a)
        \/ \E status \in {"success", "warning"} : RollEnd(a, status)

RollSpec == RollInit /\ [][RollNext]_rollVars

-----------------------------------------------------------------------------
\* The rows a snapshot cuts out of the events.

RollNone == [actor |-> "none", from |-> 0, to |-> 0, status |-> "none"]

RollOpened(e) == [actor |-> e.actor, from |-> e.at, to |-> e.at, status |-> "running"]

\* _resolve_trace_agent_status of a row that has ended
RollOutcome(status) == IF status = "warning" THEN "partial" ELSE status

\* One event: a start opens the actor's row anew, anything else is added to
\* the open row, or opens one; a finish closes it.
RollUntil(row, to, status) == [actor |-> row.actor, from |-> row.from, to |-> to, status |-> status]

RollTouched(state, e) ==
    IF e.kind = "start" \/ state.open[e.actor] = RollNone THEN RollOpened(e)
    ELSE RollUntil(state.open[e.actor], e.at, state.open[e.actor].status)

RollRead(state, e) ==
    LET row == RollTouched(state, e)
    IN  IF e.kind = "finish"
        THEN [open   |-> [state.open EXCEPT ![e.actor] = RollNone],
              closed |-> Append(state.closed, RollUntil(row, row.to, RollOutcome(e.status)))]
        ELSE [open |-> [state.open EXCEPT ![e.actor] = row], closed |-> state.closed]

RollNoRows == [open |-> [a \in RollActor |-> RollNone], closed |-> <<>>]

RollCut(log) ==
    LET After[i \in 0..Len(log)] == IF i = 0 THEN RollNoRows ELSE RollRead(After[i - 1], log[i])
    IN  After[Len(log)]

RollState == RollCut(rollLog)

\* Rows that are still open end with their last event, and say so.
RollRows ==
    RollState.closed \o
        SetToSeq({RollState.open[a] : a \in {b \in RollActor : RollState.open[b] # RollNone}})

-----------------------------------------------------------------------------
\* The page.

\* Mutant: of two entries of one instant the end comes first.
RollEndsFirst(e, f) == e.at < f.at \/ (e.at = f.at /\ e.step < f.step)
\* The order of the time line: at one instant the beginnings come first.
RollBefore(e, f) == e.at < f.at \/ (e.at = f.at /\ e.step > f.step)

RollBegun(row) == [at |-> row.from, step |-> 1]
RollEnded(row) == [at |-> row.to, step |-> -1]

RollTimeLine(rows) == {RollBegun(rows[i]) : i \in DOMAIN rows} \cup {RollEnded(rows[i]) : i \in DOMAIN rows}

\* How many are active once the entries up to e, and those that tie with it,
\* have been added up.
RollActive(rows, e) ==
    Cardinality({i \in DOMAIN rows : ~RollBefore(e, RollBegun(rows[i]))})
      - Cardinality({i \in DOMAIN rows : ~RollBefore(e, RollEnded(rows[i]))})

\* _max_concurrency: entries that tie are of one sign, so that the greatest of
\* the sums is reached after all of them, or before.
RollMax(rows) == Max({0} \cup {RollActive(rows, e) : e \in RollTimeLine(rows)})

\* _aggregate_agent_status
RollAggregate(statuses) ==
    CASE statuses = {} -> "unknown"
      [] "running" \in statuses -> "running"
      [] "running" \notin statuses /\ "partial" \in statuses -> "partial"
      [] OTHER -> "success"

RollStage(a) ==
    RollAggregate({RollRows[i].status : i \in {j \in DOMAIN RollRows : RollRows[j].actor = a}})

-----------------------------------------------------------------------------
RollTypeOK ==
    /\ rollLog \in Seq([actor : RollActor, kind : {"start", "work", "finish"},
                        status : {"", "success", "warning"}, at : 0 .. RollEvents])
    /\ rollWorking \in [RollActor -> 0 .. RollAgents]
    /\ rollPeak \in 0 .. RollAgents * Cardinality(RollActor)
    /\ rollShared \in BOOLEAN /\ rollFailed \subseteq RollActor

\* Once all agents have reported their end, the peak the page computes from the
\* rows is the number that really worked at the same time.  It is too high for
\* agents that took over from each other in one instant, and too low for those
\* that shared an actor, whose rows run into each other.
PeakTrue ==
    ~rollShared /\ rollFailed = {} /\ RollBusy(rollWorking) = 0 => RollMax(RollRows) = rollPeak

\* A stage of agents that work one after the other goes on exactly while one of
\* them does, and counts as done only if every one of them succeeded.
StageTells ==
    \A a \in RollActor : ~rollShared /\ a \notin rollFailed =>
        /\ RollStage(a) = "running" <=> rollWorking[a] > 0
        /\ RollStage(a) = "success" <=>
             /\ rollWorking[a] = 0 /\ \E i \in DOMAIN rollLog : rollLog[i].actor = a
             /\ \A i \in DOMAIN rollLog :
                  rollLog[i].actor = a /\ rollLog[i].kind = "finish" => rollLog[i].status = "success"

\* The page of a run tells how its agents worked.
RollupsTell == RollTypeOK /\ PeakTrue /\ StageTells
=============================================================================
