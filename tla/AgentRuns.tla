------------------------------ MODULE AgentRuns ------------------------------
(***************************************************************************)
(* What surrounds the loop of a page agent: it connects to the browser     *)
(* tools, runs the loop, closes the connection, judges the answer, keeps   *)
(* in the site memory what is worth it, and answers its caller.            *)
(*                                                                         *)
(* The classification runs first, with a tiebreak when its verdict does    *)
(* not pass the gate; it and the landing agent belong to the node of the   *)
(* graph that awaits them.  Hosting and embedded agents are run by the     *)
(* workers of the pools, each under a timer of its own.                    *)
(*                                                                         *)
(* A step is what happens between two awaits.  The awaits are the ones of  *)
(* connecting, of the loop (AgentLoop) and of closing the connection, and  *)
(* an agent may be cancelled or timed out at each of them.                 *)
(***************************************************************************)
CONSTANTS
    First, Second,   \* the run of the classification agent, and the tiebreak
    Landing, Hosting, Embedded, \* the runs of the page agents
    Words,           \* page types and confidences that a reply may name
    Forms            \* how a reply is written: "json", "text", "garbage"

Attempts == {First, Second}
Pages    == Landing \cup Hosting \cup Embedded
Agents   == Attempts \cup Pages
Pooled   == Hosting \cup Embedded

ASSUME AgentsAssumption ==
    /\ First # Second /\ Attempts \cap Pages = {}
    /\ Landing \cap Pooled = {} /\ Hosting \cap Embedded = {}

VARIABLES
    phase,     \* "idle", "connecting", "looping", "closing", "over"
    connected, \* agents with a connection to the tools server
    fault,     \* the exception on its way out of an agent, or "none"
    returned,  \* what the caller of an agent got
    judged,    \* the verdicts of the classification
    saved,     \* the status under which the site memory keeps a run; "answered" is
               \* kept as a success
    finished,  \* agents that have told agent_finished
    wanted,    \* kinds of pages the run has targets of
    cancelFlag, \* cancel_requested
    ended      \* "no", "halted" (the graph was cancelled), "killed" (the pools too)

arVars == <<phase, connected, fault, returned, judged, saved, finished, wanted, cancelFlag, ended>>

NotYet == [type |-> "none", conf |-> "none", source |-> "none"]

AgentRunsInit ==
    /\ phase = [a \in Agents |-> "idle"] /\ connected = {}
    /\ fault = [a \in Agents |-> "none"] /\ returned = [a \in Agents |-> "none"]
    /\ judged = [a \in Attempts |-> NotYet]
    /\ saved = [a \in Agents |-> "none"] /\ finished = {}
    /\ wanted = {} /\ cancelFlag = FALSE /\ ended = "no"

-----------------------------------------------------------------------------
(* Verdicts.                                                               *)

\* _PAGE_TYPE_MAP and _CONF_MAP: what they do not know counts as the least.
PageType(word) ==
    CASE word = "landing_page" -> "landing"
      [] word \in {"host_page", "hosting_page"} -> "hosting"
      [] word \in {"embed_video_page", "embedded_page"} -> "embedded"
      [] OTHER -> "unknown"
Confidence(word) == IF word \in {"high", "medium"} THEN word ELSE "low"

Unparsed == [type |-> "unknown", conf |-> "low", source |-> "fallback"]

\* _parse_output
Parsed(form, type, conf) ==
    IF form = "garbage" THEN Unparsed
    ELSE [type |-> PageType(type), conf |-> Confidence(conf),
          source |-> IF form = "json" THEN "parsed" ELSE "fallback"]

\* _confidence_gate_blocks, with the default thresholds
GateBlocks(v) == v.conf = "low" \/ (v.type = "unknown" /\ v.source = "fallback")

\* route_after_classification; an embedded page that looks like a site's shell
\* is handed to the hosting agent.
Routed(v) ==
    CASE GateBlocks(v) \/ v.type = "unknown" -> {{}}
      [] ~GateBlocks(v) /\ v.type = "embedded" -> {{"embedded"}, {"hosting"}}
      [] OTHER -> {{v.type}}

-----------------------------------------------------------------------------
(* Beginning.                                                              *)

\* The CancelledError of a halted run reaches the agents of the graph at their
\* next await, the one of a killed run every agent.
Struck(a) == ended = "killed" \/ (ended = "halted" /\ a \notin Pooled)

\* What an exception out of an agent becomes: _invoke_classification_agent,
\* landing_page_node and _process_item each make a result of an Exception and
\* let RunCancelledError and CancelledError pass.
Raise(a, how) ==
    /\ phase' = [phase EXCEPT ![a] = "over"]
    /\ connected' = connected \ {a}
    /\ returned' = [returned EXCEPT ![a] = how]
    /\ judged' = (IF a \in Attempts /\ how \in {"failed", "timeout"}
                  THEN [judged EXCEPT ![a] = Unparsed] ELSE judged)
    /\ UNCHANGED <<saved, finished, wanted>>

\* build_llm may raise; then the site memory is read, which never raises, and
\* the connection to the tools server is begun.
Begin(a) ==
    /\ phase[a] = "idle" /\ ~Struck(a)
    /\ \/ /\ phase' = [phase EXCEPT ![a] = "connecting"]
          /\ connected' = connected \cup {a}
          /\ UNCHANGED <<returned, judged, saved, finished, wanted>>
       \/ Raise(a, "failed")
    /\ UNCHANGED <<fault, cancelFlag, ended>>

\* classify_node: one more attempt, whatever it was that made the verdict vague.
Tiebreak == GateBlocks(judged[First])

ClassificationBegins(a) == Begin(a) /\ (a = First \/ (a = Second /\ Tiebreak))
LandingBegins(a)  == a \in Landing  /\ "landing"  \in wanted /\ Begin(a)
HostingBegins(a)  == a \in Hosting  /\ "hosting"  \in wanted /\ Begin(a)
EmbeddedBegins(a) == a \in Embedded /\ "embedded" \in wanted /\ Begin(a)

Begins(a) ==
    \/ a \in Attempts /\ ClassificationBegins(a)
    \/ LandingBegins(a) \/ HostingBegins(a) \/ EmbeddedBegins(a)

-----------------------------------------------------------------------------
(* Connection and loop.                                                    *)

Go(a, from, to, with) ==
    /\ phase[a] = from
    /\ phase' = [phase EXCEPT ![a] = to]
    /\ fault' = [fault EXCEPT ![a] = with]
    /\ UNCHANGED <<connected, returned, judged, saved, finished, wanted, cancelFlag, ended>>

\* Every await of connecting has a timeout; the message of what it raises makes
\* classify_failure_kind call it one.
Connects(a) ==
    /\ ~Struck(a)
    /\ \/ Go(a, "connecting", "looping", "none")
       \/ \E how \in {"failed", "timeout"} : Go(a, "connecting", "closing", how)

\* Mutant: the memory is written while the connection is still open.
LoopAnswersSaved(a) ==
    /\ ~Struck(a) /\ phase[a] = "looping"
    /\ phase' = [phase EXCEPT ![a] = "closing"]
    /\ saved' = [saved EXCEPT ![a] = "success"]
    /\ UNCHANGED <<connected, fault, returned, judged, finished, wanted, cancelFlag, ended>>

LoopAnswers(a) == ~Struck(a) /\ Go(a, "looping", "closing", "none")

LoopRaises(a) ==
    /\ ~Struck(a)
    /\ \/ Go(a, "looping", "closing", "failed")
       \/ cancelFlag /\ Go(a, "looping", "closing", "cancelled")

-----------------------------------------------------------------------------
(* Closing the connection, and the answer.                                 *)

\* remember_agent_run, without the exceptions it logs: kept.
Tell(a, status, worth) ==
    /\ phase' = [phase EXCEPT ![a] = "over"]
    /\ connected' = connected \ {a}
    /\ returned' = [returned EXCEPT ![a] = status]
    /\ \E kept \in BOOLEAN :
          saved' = [saved EXCEPT ![a] = IF kept /\ worth THEN status ELSE "none"]
    /\ finished' = finished \cup {a}

\* Whatever the verdict is, the run is remembered as a success.
ClassificationReplies(a) ==
    /\ a \in Attempts
    /\ \E form \in Forms, type, conf \in Words :
          LET v == Parsed(form, type, conf) IN
          /\ judged' = [judged EXCEPT ![a] = v]
          /\ \E kinds \in Routed(v) : wanted' = wanted \cup kinds
    /\ Tell(a, "answered", TRUE)

\* A failed landing run with signals, candidates or patterns, is remembered;
\* leads: the node finds targets in the answer.
LandingReplies(a) ==
    /\ a \in Landing
    /\ \E found, signals, leads \in BOOLEAN :
          /\ Tell(a, IF found THEN "success" ELSE "failed", found \/ signals)
          /\ wanted' = (IF leads THEN wanted \cup {"hosting"} ELSE wanted)
    /\ UNCHANGED judged

\* triggers: a decision that wakes the embedded pool.
HostingReplies(a) ==
    /\ a \in Hosting
    /\ \E streams, triggers, leads \in BOOLEAN :
          LET status == CASE streams -> "success" [] ~streams /\ triggers -> "partial"
                          [] OTHER -> "failed"
          IN /\ Tell(a, status, status # "failed")
             /\ wanted' = (IF triggers /\ leads THEN wanted \cup {"embedded"} ELSE wanted)
    /\ UNCHANGED judged

\* works: a server was judged successful.
EmbeddedReplies(a) ==
    /\ a \in Embedded
    /\ \E streams, works \in BOOLEAN :
          LET status == CASE streams -> "success" [] ~streams /\ works -> "partial"
                          [] OTHER -> "failed"
          IN Tell(a, status, status # "failed")
    /\ UNCHANGED <<judged, wanted>>

Replies(a) ==
    ClassificationReplies(a) \/ LandingReplies(a) \/ HostingReplies(a) \/ EmbeddedReplies(a)

\* The finally of agent_tools closes whatever way the agent ends.
Closes(a) ==
    /\ phase[a] = "closing"
    /\ \/ fault[a] = "none" /\ ~Struck(a) /\ Replies(a)
       \/ fault[a] # "none" /\ (Struck(a) => fault[a] = "killed") /\ Raise(a, fault[a])
    /\ UNCHANGED <<fault, cancelFlag, ended>>

\* A CancelledError, thrown in by the timer of wait_for or by task.cancel.  It
\* lets the connection close; thrown into the closing itself it replaces what
\* was on its way: an answer, or another exception.
Throw(a, how) ==
    \/ phase[a] \in {"connecting", "looping"} /\ Go(a, phase[a], "closing", how)
    \/ phase[a] = "closing" /\ Raise(a, how) /\ UNCHANGED <<fault, cancelFlag, ended>>

\* Mutant: the timer covers the connecting alone.
TimesOutEarly(a) ==
    /\ a \in Pooled /\ ~Struck(a) /\ fault[a] # "timeout" /\ phase[a] = "connecting"
    /\ Throw(a, "timeout")

TimesOut(a) ==
    /\ a \in Pooled /\ ~Struck(a) /\ fault[a] # "timeout"
    /\ Throw(a, "timeout")

IsKilled(a) == Struck(a) /\ fault[a] # "killed" /\ Throw(a, "killed")

-----------------------------------------------------------------------------
(* The run around the agents.                                              *)
CancelRequested ==
    /\ ~cancelFlag /\ cancelFlag' = TRUE
    /\ UNCHANGED <<phase, connected, fault, returned, judged, saved, finished, wanted, ended>>

\* The deadline or the budget; the hook of the cancel endpoint.
Ends(how) ==
    /\ \/ ended = "no" /\ how = "halted"
       \/ ended # "killed" /\ how = "killed" /\ cancelFlag
    /\ ended' = how
    /\ UNCHANGED <<phase, connected, fault, returned, judged, saved, finished, wanted, cancelFlag>>

AgentRunStep(a) ==
    \/ Begins(a) \/ Connects(a) \/ LoopAnswers(a) \/ LoopRaises(a)
    \/ Closes(a) \/ TimesOut(a) \/ IsKilled(a)

AgentRunsNext ==
    \/ \E a \in Agents : AgentRunStep(a)
    \/ CancelRequested
    \/ \E how \in {"halted", "killed"} : Ends(how)

\* Timers strike, connections are made or refused, and closed.  Nothing is asked
\* of the loop: a call of a model may hang.
Proceeds(a) == Connects(a) \/ Closes(a) \/ TimesOut(a) \/ IsKilled(a)
AgentRunsFairness ==
    /\ \A a \in Agents : WF_arVars(Proceeds(a))
    /\ WF_arVars(Ends("halted"))

AgentRunsSpec == AgentRunsInit /\ [][AgentRunsNext]_arVars /\ AgentRunsFairness

-----------------------------------------------------------------------------
Phases   == {"idle", "connecting", "looping", "closing", "over"}
Faults   == {"none", "failed", "timeout", "cancelled", "killed"}
Statuses == {"success", "partial", "failed", "timeout"}
Verdicts == [type : {"none", "landing", "hosting", "embedded", "unknown"},
             conf : {"none", "low", "medium", "high"}, source : {"none", "parsed", "fallback"}]

AgentRunsTypeOK ==
    /\ phase \in [Agents -> Phases] /\ fault \in [Agents -> Faults]
    /\ connected \subseteq Agents /\ finished \subseteq Agents
    /\ returned \in [Agents -> Statuses \cup {"none", "answered", "cancelled", "killed"}]
    /\ judged \in [Attempts -> Verdicts]
    /\ saved \in [Agents -> Statuses \cup {"none", "answered"}]
    /\ wanted \subseteq {"landing", "hosting", "embedded"}
    /\ cancelFlag \in BOOLEAN /\ ended \in {"no", "halted", "killed"}

(* No agent leaves its connection to the tools server behind, whatever way  *)
(* it ends: with an answer, an error, a timer, a cancellation.              *)
ConnectionsClosed ==
    connected = {a \in Agents : phase[a] \in {"connecting", "looping", "closing"}}

(* The site memory and the trace tell what the caller was told: a run that  *)
(* is remembered, or is said to have finished, answered with that status,   *)
(* also when the timer strikes while the connection is being closed.        *)
ToldAlike ==
    \A a \in Agents :
        /\ a \in finished =>
              /\ phase[a] = "over"
              /\ returned[a] \in (IF a \in Pages THEN Statuses \ {"timeout"} ELSE {"answered"})
        /\ saved[a] # "none" => a \in finished /\ saved[a] = returned[a]
        /\ returned[a] \in {"success", "partial", "answered"} => a \in finished

(* Pages are worked on only after a verdict that passed the gate, and of    *)
(* a kind it can be trusted in; the tiebreak runs only after one that did   *)
(* not.                                                                     *)
Settled(a) ==
    /\ phase[a] = "over" /\ returned[a] = "answered"
    /\ ~GateBlocks(judged[a]) /\ judged[a].type # "unknown"

WorkAfterVerdict ==
    /\ phase[Second] # "idle" => phase[First] = "over" /\ ~Settled(First)
    /\ \A a \in Pages : phase[a] # "idle" => \E c \in Attempts : Settled(c)

(* A cancelled classification is not made a verdict: nothing begins after   *)
(* one that ended by the cancellation of the run.                           *)
CancelStopsRouting ==
    /\ returned[First] \in {"cancelled", "killed"} => \A a \in Agents \ {First} : phase[a] = "idle"
    /\ returned[Second] \in {"cancelled", "killed"} => \A a \in Pages : phase[a] = "idle"

AgentRunsSafe ==
    /\ AgentRunsTypeOK /\ ConnectionsClosed /\ ToldAlike
    /\ WorkAfterVerdict /\ CancelStopsRouting

(* Every agent that begins comes to its end, and once the run has ended     *)
(* none begins: a hanging model is ended by the agent's timer or by the     *)
(* deadline of the run.                                                     *)
AgentRunsEnd == <>[](\A a \in Agents : phase[a] \in {"idle", "over"})
=============================================================================
