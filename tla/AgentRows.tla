------------------------------ MODULE AgentRows ------------------------------
(***************************************************************************)
(* How the events of a run become rows of agent_runs, with their tool      *)
(* calls, model calls and screenshots.  All agents of a run append to one  *)
(* list of events, each under the name of its role; _extract_agent_contexts *)
(* and its twin for snapshots read the list from the start and cut it into *)
(* contexts, one open context per name at a time.  Reading an event only   *)
(* depends on the ones before it, so the model reads as the agents write.  *)
(*                                                                         *)
(* The pools run several agents of one role at a time, under one name.  An *)
(* agent that compacts its context finishes and starts again as a new      *)
(* invocation of the same name.                                            *)
(***************************************************************************)
EXTENDS Naturals, FiniteSets

CONSTANTS
    Items,     \* the pages agents are run on
    AgentRoles, \* "hosting", "embedded"
    RoleOf,    \* RoleOf[i]: the role of the agent of page i
    Workers,   \* workers of a role's pool
    Parts      \* invocations an agent may consist of, 1 + its continuations

ASSUME RowsAssumption ==
    /\ IsFiniteSet(Items) /\ RoleOf \in [Items -> AgentRoles]
    /\ Workers \in Nat \ {0} /\ Parts \in Nat \ {0}

VARIABLES
    phase,     \* of the agent of a page
    part,      \* its current invocation
    open,      \* open_runs: the open context of a role
    closed,    \* contexts that are closed
    counts,    \* invocation_counts
    done,      \* invocations that have emitted agent_finished
    together   \* invocations that ran while another of their role did

rowsVars == <<phase, part, open, closed, counts, done, together>>

\* An event is the invocation that emitted it and its kind.
Event(i, kind) == [item |-> i, part |-> part[i], kind |-> kind]

NoContext == [role |-> "none", index |-> 0, events |-> {}]
Context(role, index, events) == [role |-> role, index |-> index, events |-> events]

RowsInit ==
    /\ phase = [i \in Items |-> "waiting"] /\ part = [i \in Items |-> 1]
    /\ open = [r \in AgentRoles |-> NoContext] /\ closed = {}
    /\ counts = [r \in AgentRoles |-> 0]
    /\ done = {} /\ together = {}

Active(i) == phase[i] \in {"running", "worked"}
Running(role) == {i \in Items : RoleOf[i] = role /\ Active(i)}

\* The other invocations of its role that run now, and itself if there is one.
Overlap(i) ==
    LET others == Running(RoleOf[i]) \ {i}
    IN  {<<j, part[j]>> : j \in others} \cup (IF others = {} THEN {} ELSE {<<i, part'[i]>>})

-----------------------------------------------------------------------------
\* Reading an event.

NextIndex(role) == counts[role] + 1

\* A start: a new context takes the place of whatever is open.
ReadStart(role, event) ==
    /\ counts' = [counts EXCEPT ![role] = NextIndex(role)]
    /\ open' = [open EXCEPT ![role] = Context(role, NextIndex(role), {event})]
    /\ UNCHANGED closed

\* The context an event that is no start belongs to.
Receiving(role) ==
    IF open[role] = NoContext THEN Context(role, NextIndex(role), {}) ELSE open[role]

CountReceiving(role) ==
    counts' = IF open[role] = NoContext THEN [counts EXCEPT ![role] = NextIndex(role)] ELSE counts

With(context, event) == [context EXCEPT !.events = @ \cup {event}]

ReadOther(role, event) ==
    /\ CountReceiving(role)
    /\ open' = [open EXCEPT ![role] = With(Receiving(role), event)]
    /\ UNCHANGED closed

AfterFinish(role) == NoContext

Dropped(context) == closed               \* mutant of Closing
Closing(context) == closed \cup {context}

\* An end: the context is appended, nothing is open under the name.
ReadFinish(role, event) ==
    /\ CountReceiving(role)
    /\ closed' = Closing(With(Receiving(role), event))
    /\ open' = [open EXCEPT ![role] = AfterFinish(role)]

\* The rows written: the closed contexts and the open ones.
Rows == closed \cup {open[r] : r \in {q \in AgentRoles : open[q] # NoContext}}

-----------------------------------------------------------------------------
\* The agents.

\* run() of a page agent emits agent_started.
Begin(i) ==
    /\ phase[i] = "waiting"
    /\ Cardinality(Running(RoleOf[i])) < Workers
    /\ phase' = [phase EXCEPT ![i] = "running"]
    /\ ReadStart(RoleOf[i], Event(i, "agent_started"))
    /\ UNCHANGED <<part, done>>
    /\ together' = together \cup Overlap(i)

\* What the loop reports, a tool call with its screenshot or a model answer: one
\* event for an invocation.
Work(i) ==
    /\ phase[i] = "running"
    /\ phase' = [phase EXCEPT ![i] = "worked"]
    /\ ReadOther(RoleOf[i], Event(i, "tool_call_finished"))
    /\ UNCHANGED <<part, done, together>>

\* compact_context_node: the invocation finishes and the next one starts, with
\* no event of another agent between the two.
Continue(i) ==
    /\ Active(i) /\ part[i] < Parts
    /\ phase' = [phase EXCEPT ![i] = "running"]
    /\ part' = [part EXCEPT ![i] = @ + 1]
    /\ LET role   == RoleOf[i]
           next   == NextIndex(role) + (IF open[role] = NoContext THEN 1 ELSE 0)
           start  == [item |-> i, part |-> part[i] + 1, kind |-> "agent_started"]
       IN  /\ closed' = Closing(With(Receiving(role), Event(i, "agent_finished")))
           /\ counts' = [counts EXCEPT ![role] = next]
           /\ open' = [open EXCEPT ![role] = Context(role, next, {start})]
    /\ done' = done \cup {<<i, part[i]>>}
    /\ together' = together \cup Overlap(i)

Finish(i) ==
    /\ Active(i)
    /\ phase' = [phase EXCEPT ![i] = "ended"]
    /\ ReadFinish(RoleOf[i], Event(i, "agent_finished"))
    /\ done' = done \cup {<<i, part[i]>>}
    /\ UNCHANGED <<part, together>>

\* An error or a time-out becomes the item's result; it is not a finish.
FailAgent(i) ==
    /\ Active(i)
    /\ phase' = [phase EXCEPT ![i] = "ended"]
    /\ UNCHANGED <<part, open, closed, counts, done, together>>

\* _assert_not_cancelled: run_cancelled closes the context in a snapshot.
Cancelled(i) ==
    /\ Active(i)
    /\ phase' = [phase EXCEPT ![i] = "ended"]
    /\ ReadFinish(RoleOf[i], Event(i, "run_cancelled"))
    /\ UNCHANGED <<part, done, together>>

RowsNext == \E i \in Items : Begin(i) \/ Work(i) \/ Continue(i) \/ Finish(i) \/ FailAgent(i) \/ Cancelled(i)

RowsSpec == RowsInit /\ [][RowsNext]_rowsVars

-----------------------------------------------------------------------------
Kinds == {"agent_started", "tool_call_finished", "agent_finished", "run_cancelled"}
Events == [item : Items, part : 1..Parts, kind : Kinds]
Contexts == [role : AgentRoles, index : Nat, events : SUBSET Events]

RowsTypeOK ==
    /\ phase \in [Items -> {"waiting", "running", "worked", "ended"}]
    /\ part \in [Items -> 1..Parts]
    /\ \A r \in AgentRoles : open[r] = NoContext \/ open[r] \in Contexts
    /\ closed \subseteq Contexts /\ counts \in [AgentRoles -> Nat]
    /\ \A row \in Rows : row.index \in 1..counts[row.role]
    /\ done \subseteq Items \X (1..Parts) /\ together \subseteq Items \X (1..Parts)

\* The invocation an event is of.
Invocation(event) == <<event.item, event.part>>

\* An invocation that ran while no other of its role did, and that finished, has
\* a row: one that holds what it reported and nothing else.  What failed or
\* overlapped before it, and continuations, do not change that.
LoneInvocationWhole ==
    \A v \in done \ together :
        \E row \in closed :
            /\ \A event \in row.events : Invocation(event) = v
            /\ {"agent_started", "agent_finished"} \subseteq {event.kind : event \in row.events}

\* An event, and so a tool call or a screenshot, is attributed to one row, and a
\* row can be told from the others by its role and invocation index.
AttributedOnce ==
    \A a, b \in Rows : a # b => /\ a.events \cap b.events = {}
                                /\ <<a.role, a.index>> # <<b.role, b.index>>

\* The rows of the agents of a run tell what each invocation did.
RowsTrue == RowsTypeOK /\ LoneInvocationWhole /\ AttributedOnce
=============================================================================
