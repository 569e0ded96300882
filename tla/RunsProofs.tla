----------------------------- MODULE RunsProofs -----------------------------
(***************************************************************************)
(* For any agents, nodes, budgets and pages: the safety of what surrounds  *)
(* the work on pages.                                                      *)
(*   AgentsAreSafe     AgentRuns,   by AgentsInv                           *)
(*   WorkflowIsSafe    WorkflowRun, by WorkflowInv                         *)
(*   HandoffsAreTrue   Handoffs,    by HandoffsInv                         *)
(***************************************************************************)
EXTENDS AgentRuns, WorkflowRun, Handoffs, SequenceTheorems, TLAPS

-----------------------------------------------------------------------------
(* The agents.                                                             *)

\* An attempt has a verdict from its answer or its failure only.
NoVerdictYet ==
    /\ \A a \in Agents : phase[a] # "over" => returned[a] = "none"
    /\ \A a \in Attempts :
          returned[a] \in {"none", "cancelled", "killed"} => judged[a] = NotYet

\* Targets come from a verdict that passed the gate, or from a page it led to.
TargetsAfterVerdict == wanted # {} => \E c \in Attempts : Settled(c)

AgentsInv == AgentRunsSafe /\ NoVerdictYet /\ TargetsAfterVerdict

LEMMA AgentKinds ==
    /\ First \in Attempts /\ Second \in Attempts /\ First # Second
    /\ Attempts = {First, Second} /\ Agents = Attempts \cup Pages
    /\ \A a \in Pages : a \notin Attempts
    /\ Landing \subseteq Pages /\ Hosting \subseteq Pages /\ Embedded \subseteq Pages
BY AgentsAssumption DEF Attempts, Pages, Agents

LEMMA AgentsStart == AgentRunsInit => AgentsInv
<1> SUFFICES ASSUME AgentRunsInit PROVE AgentsInv
  OBVIOUS
<1>1. NotYet \in Verdicts
  BY DEF NotYet, Verdicts
<1>2. AgentRunsTypeOK
  BY <1>1 DEF AgentRunsInit, AgentRunsTypeOK, Phases, Faults, Statuses
<1>3. ConnectionsClosed /\ ToldAlike
  BY DEF AgentRunsInit, ConnectionsClosed, ToldAlike
<1>4. WorkAfterVerdict /\ CancelStopsRouting
  BY AgentKinds DEF AgentRunsInit, WorkAfterVerdict, CancelStopsRouting
<1>5. NoVerdictYet /\ TargetsAfterVerdict
  BY AgentKinds DEF AgentRunsInit, NoVerdictYet, TargetsAfterVerdict
<1> QED
  BY <1>2, <1>3, <1>4, <1>5 DEF AgentsInv, AgentRunsSafe

\* What the tiebreak and a page agent begin upon, and what they can rely on.
MayBegin(a) ==
    /\ a = Second => GateBlocks(judged[First])
    /\ a \in Pages => wanted # {}

LEMMA MayRely ==
    ASSUME AgentsInv, NEW a \in Agents, phase[a] = "idle", MayBegin(a)
    PROVE  /\ a = Second => phase[First] = "over" /\ ~Settled(First)
           /\ a \in Pages => \E c \in Attempts : Settled(c)
           /\ a # First => returned[First] \notin {"cancelled", "killed"}
           /\ a \in Pages => returned[Second] \notin {"cancelled", "killed"}
<1>1. ASSUME a = Second
      PROVE  returned[First] \notin {"none", "cancelled", "killed"} /\ ~Settled(First)
  <2>1. GateBlocks(judged[First])
    BY <1>1 DEF MayBegin
  <2>2. judged[First] # NotYet
    BY <2>1 DEF GateBlocks, NotYet
  <2> QED
    BY <2>1, <2>2, AgentKinds DEF AgentsInv, NoVerdictYet, Settled
<1>2. ASSUME a \in Pages
      PROVE  /\ \E c \in Attempts : Settled(c)
             /\ returned[First] \notin {"cancelled", "killed"}
             /\ returned[Second] \notin {"cancelled", "killed"}
  <2>1. PICK c \in Attempts : Settled(c)
    BY <1>2 DEF MayBegin, AgentsInv, TargetsAfterVerdict
  <2>2. CASE c = First
    <3>1. returned[First] = "answered" /\ phase[Second] = "idle"
      BY <2>1, <2>2 DEF Settled, AgentsInv, AgentRunsSafe, WorkAfterVerdict
    <3> QED
      BY <2>1, <3>1, AgentKinds DEF AgentsInv, NoVerdictYet
  <2>3. CASE c = Second
    <3>1. returned[Second] = "answered" /\ phase[Second] # "idle"
      BY <2>1, <2>3 DEF Settled
    <3> QED
      BY <2>1, <3>1, AgentKinds DEF AgentsInv, AgentRunsSafe, CancelStopsRouting
  <2> QED
    BY <2>2, <2>3, AgentKinds
<1> QED
  BY <1>1, <1>2, AgentKinds DEF AgentsInv, NoVerdictYet

\* What no step of one agent does: to change what another has come to.
Alone(a) ==
    \A b \in Agents \ {a} :
        /\ phase'[b] = phase[b] /\ returned'[b] = returned[b] /\ saved'[b] = saved[b]
        /\ b \in finished' <=> b \in finished
        /\ b \in connected' <=> b \in connected
        /\ b \in Attempts => judged'[b] = judged[b]

\* An agent begins or goes on.
GoesOn(a) ==
    /\ phase[a] # "over" /\ phase'[a] \in {"connecting", "looping", "closing"}
    /\ phase[a] = "idle" => MayBegin(a)
    /\ Alone(a) /\ a \in connected'
    /\ returned' = returned /\ saved' = saved /\ finished' = finished /\ judged' = judged
    /\ wanted' = wanted

LEMMA GoesOnKeeps ==
    ASSUME AgentsInv, AgentRunsTypeOK', NEW a \in Agents, GoesOn(a)
    PROVE  AgentsInv'
<1>1. \A c \in Attempts : Settled(c)' <=> Settled(c)
  <2>1. phase[a] # "over" /\ phase'[a] # "over"
    BY DEF GoesOn
  <2>2. \A c \in Agents : phase'[c] = "over" <=> phase[c] = "over"
    BY <2>1 DEF GoesOn, Alone
  <2> QED
    BY <2>2, AgentKinds DEF GoesOn, Settled
<1>2. ConnectionsClosed'
  <2>1. connected' \subseteq Agents
    BY DEF AgentRunsTypeOK
  <2>2. \A b \in Agents : b \in connected' <=> phase'[b] \in {"connecting", "looping", "closing"}
    BY DEF AgentsInv, AgentRunsSafe, ConnectionsClosed, GoesOn, Alone
  <2> QED
    BY <2>1, <2>2 DEF ConnectionsClosed
<1>3. ToldAlike'
  <2>1. a \notin finished
    BY DEF AgentsInv, AgentRunsSafe, ToldAlike, GoesOn
  <2>2. \A b \in Agents : b \in finished => phase'[b] = phase[b]
    BY <2>1 DEF GoesOn, Alone
  <2> QED
    BY <2>2 DEF AgentsInv, AgentRunsSafe, ToldAlike, GoesOn
<1>4. \A b \in Agents : phase'[b] # "idle" => phase[b] # "idle" \/ (b = a /\ MayBegin(a))
  BY DEF GoesOn, Alone
<1>5. WorkAfterVerdict'
  <2>1. phase'[Second] # "idle" => phase'[First] = "over" /\ ~Settled(First)
    <3>1. phase'[Second] # "idle" => phase[First] = "over" /\ ~Settled(First)
      BY <1>4, MayRely, AgentKinds DEF AgentsInv, AgentRunsSafe, WorkAfterVerdict
    <3> QED
      BY <3>1, AgentKinds DEF GoesOn, Alone
  <2>2. \A p \in Pages : phase'[p] # "idle" => \E c \in Attempts : Settled(c)
    BY <1>4, MayRely, AgentKinds DEF AgentsInv, AgentRunsSafe, WorkAfterVerdict
  <2> QED
    BY <1>1, <2>1, <2>2, AgentKinds DEF WorkAfterVerdict
<1>6. CancelStopsRouting'
  BY <1>4, MayRely, AgentKinds DEF AgentsInv, AgentRunsSafe, CancelStopsRouting, GoesOn
<1>7. NoVerdictYet'
  <2>1. \A b \in Agents : phase'[b] # "over" => phase[b] # "over"
    BY DEF GoesOn, Alone
  <2> QED
    BY <2>1 DEF AgentsInv, NoVerdictYet, GoesOn
<1>8. TargetsAfterVerdict'
  BY <1>1 DEF AgentsInv, TargetsAfterVerdict, GoesOn
<1> QED
  BY <1>2, <1>3, <1>5, <1>6, <1>7, <1>8 DEF AgentsInv, AgentRunsSafe

\* An agent comes to its end, and its caller gets end.
ComesTo(a, end) ==
    /\ phase[a] # "over" /\ phase'[a] = "over"
    /\ phase[a] = "idle" => MayBegin(a)
    /\ Alone(a) /\ a \notin connected'
    /\ returned'[a] = end /\ end # "none"
    /\ a \in finished' => end \in (IF a \in Pages THEN Statuses \ {"timeout"} ELSE {"answered"})
    /\ saved'[a] # "none" => a \in finished' /\ saved'[a] = end
    /\ end \in {"success", "partial", "answered"} => a \in finished'
    /\ a \in Attempts /\ end \in {"cancelled", "killed"} => judged'[a] = judged[a]
    /\ wanted' # wanted => (a \in Pages /\ phase[a] # "idle") \/ (a \in Attempts /\ Settled(a)')

LEMMA ComesToKeeps ==
    ASSUME AgentsInv, AgentRunsTypeOK', NEW a \in Agents, NEW end, ComesTo(a, end)
    PROVE  AgentsInv'
<1>1. /\ \A c \in Attempts : Settled(c) => c # a /\ Settled(c)'
      /\ \A c \in Attempts : c # a => (Settled(c)' <=> Settled(c))
  <2>1. \A c \in Attempts : c # a => (Settled(c)' <=> Settled(c))
    BY AgentKinds DEF ComesTo, Alone, Settled
  <2> QED
    BY <2>1 DEF ComesTo, Settled
<1>2. ConnectionsClosed'
  <2>1. connected' \subseteq Agents
    BY DEF AgentRunsTypeOK
  <2>2. \A b \in Agents : b \in connected' <=> phase'[b] \in {"connecting", "looping", "closing"}
    BY DEF AgentsInv, AgentRunsSafe, ConnectionsClosed, ComesTo, Alone
  <2> QED
    BY <2>1, <2>2 DEF ConnectionsClosed
<1>3. ToldAlike'
  BY DEF AgentsInv, AgentRunsSafe, ToldAlike, ComesTo, Alone
<1>4. \A b \in Agents : phase'[b] # "idle" => phase[b] # "idle" \/ (b = a /\ MayBegin(a))
  BY DEF ComesTo, Alone
<1>5. WorkAfterVerdict'
  <2>1. phase'[Second] # "idle" => phase[First] = "over" /\ ~Settled(First)
    BY <1>4, MayRely, AgentKinds DEF AgentsInv, AgentRunsSafe, WorkAfterVerdict
  <2>2. phase'[Second] # "idle" => phase'[First] = "over" /\ ~Settled(First)'
    <3>1. phase'[Second] # "idle" => a # First
      BY <2>1 DEF ComesTo
    <3> QED
      BY <1>1, <2>1, <3>1, AgentKinds DEF ComesTo, Alone
  <2>3. \A p \in Pages : phase'[p] # "idle" => \E c \in Attempts : Settled(c)
    BY <1>4, MayRely, AgentKinds DEF AgentsInv, AgentRunsSafe, WorkAfterVerdict
  <2> QED
    BY <1>1, <2>2, <2>3, AgentKinds DEF WorkAfterVerdict
<1>6. CancelStopsRouting'
  <2>1. ASSUME returned'[First] \in {"cancelled", "killed"}
        PROVE  \A b \in Agents \ {First} : phase'[b] = "idle"
    <3>1. CASE a = First
      <4>1. phase[First] # "over" /\ ~Settled(First)
        BY <3>1 DEF ComesTo, Settled
      <4>2. phase[Second] = "idle" /\ ~Settled(Second)
        BY <4>1 DEF AgentsInv, AgentRunsSafe, WorkAfterVerdict, Settled
      <4>3. \A b \in Agents \ {First} : phase[b] = "idle"
        BY <4>1, <4>2, AgentKinds DEF AgentsInv, AgentRunsSafe, WorkAfterVerdict
      <4> QED
        BY <3>1, <4>3 DEF ComesTo, Alone
    <3>2. CASE a # First
      <4>1. returned[First] \in {"cancelled", "killed"}
        BY <2>1, <3>2, AgentKinds DEF ComesTo, Alone
      <4> QED
        BY <1>4, <3>2, <4>1, MayRely DEF AgentsInv, AgentRunsSafe, CancelStopsRouting
    <3> QED
      BY <3>1, <3>2
  <2>2. ASSUME returned'[Second] \in {"cancelled", "killed"}
        PROVE  \A b \in Pages : phase'[b] = "idle"
    <3>1. CASE a = Second
      <4>1. ~Settled(Second) /\ ~Settled(First)
        <5>1. phase[Second] # "over"
          BY <3>1 DEF ComesTo
        <5>2. CASE phase[Second] # "idle"
          BY <5>1, <5>2 DEF AgentsInv, AgentRunsSafe, WorkAfterVerdict, Settled
        <5>3. CASE phase[Second] = "idle"
          BY <3>1, <5>1, <5>3, MayRely DEF ComesTo, Settled
        <5> QED
          BY <5>2, <5>3
      <4>2. \A b \in Pages : phase[b] = "idle"
        BY <4>1, AgentKinds DEF AgentsInv, AgentRunsSafe, WorkAfterVerdict
      <4> QED
        BY <3>1, <4>2, AgentKinds DEF ComesTo, Alone
    <3>2. CASE a # Second
      <4>1. returned[Second] \in {"cancelled", "killed"}
        BY <2>2, <3>2, AgentKinds DEF ComesTo, Alone
      <4> QED
        BY <1>4, <3>2, <4>1, MayRely, AgentKinds DEF AgentsInv, AgentRunsSafe, CancelStopsRouting
    <3> QED
      BY <3>1, <3>2
  <2> QED
    BY <2>1, <2>2 DEF CancelStopsRouting
<1>7. NoVerdictYet'
  <2>1. \A b \in Agents \ {a} : phase'[b] # "over" => returned'[b] = "none"
    BY DEF AgentsInv, NoVerdictYet, ComesTo, Alone
  <2>2. \A b \in Attempts \ {a} :
            returned'[b] \in {"none", "cancelled", "killed"} => judged'[b] = NotYet
    BY AgentKinds DEF AgentsInv, NoVerdictYet, ComesTo, Alone
  <2>3. a \in Attempts /\ returned'[a] \in {"none", "cancelled", "killed"} => judged'[a] = NotYet
    BY DEF AgentsInv, NoVerdictYet, ComesTo
  <2>4. phase'[a] = "over"
    BY DEF ComesTo
  <2> QED
    BY <2>1, <2>2, <2>3, <2>4 DEF NoVerdictYet
<1>8. TargetsAfterVerdict'
  BY <1>1 DEF AgentsInv, AgentRunsSafe, WorkAfterVerdict, TargetsAfterVerdict, ComesTo
<1> QED
  BY <1>2, <1>3, <1>5, <1>6, <1>7, <1>8 DEF AgentsInv, AgentRunsSafe
-----------------------------------------------------------------------------
\* The three variables that the invariant asks nothing of but their types.
RestTyped ==
    /\ fault \in [Agents -> Faults]
    /\ cancelFlag \in BOOLEAN /\ ended \in {"no", "halted", "killed"}

LEMMA RaiseKeeps ==
    ASSUME AgentsInv, RestTyped', NEW a \in Agents, NEW how \in Faults \ {"none"}, Raise(a, how),
           phase[a] # "over", phase[a] = "idle" => MayBegin(a)
    PROVE  AgentsInv'
<1> USE DEF AgentsInv, AgentRunsSafe, AgentRunsTypeOK
<1>1. /\ phase' = [phase EXCEPT ![a] = "over"] /\ connected' = connected \ {a}
      /\ returned' = [returned EXCEPT ![a] = how]
      /\ saved' = saved /\ finished' = finished /\ wanted' = wanted
      /\ judged' = (IF a \in Attempts /\ how \in {"failed", "timeout"}
                     THEN [judged EXCEPT ![a] = Unparsed] ELSE judged)
  BY DEF Raise
<1>2. AgentRunsTypeOK'
  <2>1. Unparsed \in Verdicts
    BY DEF Unparsed, Verdicts
  <2>2. judged' \in [Attempts -> Verdicts]
    BY <1>1, <2>1
  <2>3. how \in Statuses \cup {"none", "answered", "cancelled", "killed"}
    BY DEF Faults, Statuses
  <2>4. /\ phase' \in [Agents -> Phases]
        /\ returned' \in [Agents -> Statuses \cup {"none", "answered", "cancelled", "killed"}]
    BY <1>1, <2>3 DEF Phases
  <2> QED
    BY <1>1, <2>2, <2>4 DEF RestTyped
<1>3. a \notin finished /\ saved[a] = "none"
  BY DEF ToldAlike
<1>4. ComesTo(a, how)
  <2>1. Alone(a)
    BY <1>1 DEF Alone
  <2>2. how \notin {"success", "partial", "answered", "none"}
    BY DEF Faults
  <2>3. returned'[a] = how /\ phase'[a] = "over"
    BY <1>1
  <2>4. how \in {"cancelled", "killed"} => judged' = judged
    BY <1>1
  <2> QED
    BY <1>1, <1>3, <2>1, <2>2, <2>3, <2>4 DEF ComesTo
<1> QED
  BY <1>2, <1>4, ComesToKeeps

LEMMA BeginKeeps ==
    ASSUME AgentsInv, NEW a \in Agents, Begin(a), MayBegin(a)
    PROVE  AgentsInv'
<1>1. RestTyped'
  BY DEF Begin, RestTyped, AgentsInv, AgentRunsSafe, AgentRunsTypeOK
<1>2. CASE Raise(a, "failed")
  <2>1. "failed" \in Faults \ {"none"} /\ phase[a] # "over"
    BY DEF Faults, Begin
  <2> QED
    BY <1>1, <1>2, <2>1, RaiseKeeps
<1>3. CASE /\ phase' = [phase EXCEPT ![a] = "connecting"] /\ connected' = connected \cup {a}
           /\ UNCHANGED <<returned, judged, saved, finished, wanted>>
  <2>1. AgentRunsTypeOK'
    BY <1>1, <1>3 DEF RestTyped, AgentsInv, AgentRunsSafe, AgentRunsTypeOK, Phases
  <2>2. phase[a] = "idle"
    BY DEF Begin
  <2>3. GoesOn(a)
    BY <1>3, <2>2 DEF GoesOn, Alone, AgentsInv, AgentRunsSafe, AgentRunsTypeOK
  <2> QED
    BY <2>1, <2>3, GoesOnKeeps
<1> QED
  BY <1>2, <1>3 DEF Begin

LEMMA BeginsKeeps ==
    ASSUME AgentsInv, NEW a \in Agents, Begins(a)
    PROVE  AgentsInv'
<1>1. Begin(a) /\ MayBegin(a)
  <2>1. CASE a \in Attempts /\ ClassificationBegins(a)
    BY <2>1, AgentKinds DEF ClassificationBegins, MayBegin, Tiebreak
  <2>2. CASE a \in Pages /\ wanted # {} /\ Begin(a)
    BY <2>2, AgentKinds DEF MayBegin
  <2> QED
    BY <2>1, <2>2, AgentKinds DEF Begins, LandingBegins, HostingBegins, EmbeddedBegins
<1> QED
  BY <1>1, BeginKeeps

LEMMA GoKeeps ==
    ASSUME AgentsInv, NEW a \in Agents,
           NEW from \in {"connecting", "looping"}, NEW to \in {"looping", "closing"},
           NEW with \in Faults, Go(a, from, to, with)
    PROVE  AgentsInv'
<1> USE DEF AgentsInv, AgentRunsSafe, AgentRunsTypeOK
<1>1. AgentRunsTypeOK'
  BY DEF Go, Phases
<1>2. GoesOn(a)
  BY DEF Go, GoesOn, Alone, ConnectionsClosed
<1> QED
  BY <1>1, <1>2, GoesOnKeeps

LEMMA ThrowKeeps ==
    ASSUME AgentsInv, NEW a \in Agents, NEW how \in Faults \ {"none"}, Throw(a, how)
    PROVE  AgentsInv'
<1>1. CASE phase[a] \in {"connecting", "looping"} /\ Go(a, phase[a], "closing", how)
  BY <1>1, GoKeeps
<1>2. CASE phase[a] = "closing" /\ Raise(a, how) /\ UNCHANGED <<fault, cancelFlag, ended>>
  <2>1. RestTyped'
    BY <1>2 DEF RestTyped, AgentsInv, AgentRunsSafe, AgentRunsTypeOK
  <2> QED
    BY <1>2, <2>1, RaiseKeeps
<1> QED
  BY <1>1, <1>2 DEF Throw

\* An agent tells its end.
LEMMA TellKeeps ==
    ASSUME AgentsInv, RestTyped', NEW a \in Agents, phase[a] = "closing",
           NEW status, NEW worth \in BOOLEAN, Tell(a, status, worth),
           status \in (IF a \in Pages THEN Statuses \ {"timeout"} ELSE {"answered"}),
           judged' \in [Attempts -> Verdicts],
           \A c \in Attempts \ {a} : judged'[c] = judged[c],
           wanted' \subseteq {"landing", "hosting", "embedded"},
           wanted' # wanted => a \in Pages \/ (a \in Attempts /\ Settled(a)')
    PROVE  AgentsInv'
<1> USE DEF AgentsInv, AgentRunsSafe, AgentRunsTypeOK
<1>1. /\ phase' = [phase EXCEPT ![a] = "over"] /\ connected' = connected \ {a}
      /\ returned' = [returned EXCEPT ![a] = status] /\ finished' = finished \cup {a}
  BY DEF Tell
<1>2. PICK kept \in BOOLEAN : saved' = [saved EXCEPT ![a] = IF kept /\ worth THEN status ELSE "none"]
  BY DEF Tell
<1>3. status \in Statuses \cup {"answered"} /\ status # "none"
  BY DEF Statuses
<1>4. AgentRunsTypeOK'
  <2>1. saved' \in [Agents -> Statuses \cup {"none", "answered"}]
    BY <1>2, <1>3
  <2>2. phase' \in [Agents -> Phases]
    BY <1>1 DEF Phases
  <2>3. returned' \in [Agents -> Statuses \cup {"none", "answered", "cancelled", "killed"}]
    BY <1>1, <1>3
  <2> QED
    BY <1>1, <2>1, <2>2, <2>3 DEF RestTyped
<1>5. Alone(a)
  BY <1>1, <1>2 DEF Alone
<1>6. /\ phase'[a] = "over" /\ returned'[a] = status /\ a \in finished'
      /\ saved'[a] \in {"none", status} /\ a \notin connected'
  BY <1>1, <1>2
<1>7. status \notin {"cancelled", "killed"}
  BY DEF Statuses
<1>8. ComesTo(a, status)
  BY <1>3, <1>5, <1>6, <1>7 DEF ComesTo
<1> QED
  BY <1>4, <1>8, ComesToKeeps
\* A verdict leads on only when it passed the gate.
LEMMA RoutedPasses ==
    ASSUME NEW v, NEW kinds \in Routed(v)
    PROVE  /\ kinds \subseteq {"landing", "hosting", "embedded"} \cup {v.type}
           /\ kinds # {} => ~GateBlocks(v) /\ v.type # "unknown"
BY DEF Routed

LEMMA RepliesKeeps ==
    ASSUME AgentsInv, RestTyped', NEW a \in Agents, phase[a] = "closing", Replies(a)
    PROVE  AgentsInv'
<1> USE DEF AgentsInv, AgentRunsSafe, AgentRunsTypeOK
<1>1. CASE ClassificationReplies(a)
  <2>1. PICK form \in Forms, type \in Words, conf \in Words :
            /\ judged' = [judged EXCEPT ![a] = Parsed(form, type, conf)]
            /\ \E kinds \in Routed(Parsed(form, type, conf)) : wanted' = wanted \cup kinds
    BY <1>1 DEF ClassificationReplies
  <2> DEFINE v == Parsed(form, type, conf)
  <2>2. PICK kinds \in Routed(v) : wanted' = wanted \cup kinds
    BY <2>1
  <2>3. a \in Attempts /\ a \notin Pages /\ Tell(a, "answered", TRUE)
    BY <1>1, AgentKinds DEF ClassificationReplies
  <2>4. /\ v \in Verdicts /\ v.type \in {"landing", "hosting", "embedded", "unknown"}
        /\ v.conf \in {"low", "medium", "high"}
    BY DEF Parsed, Unparsed, PageType, Confidence, Verdicts
  <2>5. judged' \in [Attempts -> Verdicts] /\ judged'[a] = v
        /\ \A c \in Attempts \ {a} : judged'[c] = judged[c]
    BY <2>1, <2>3, <2>4
  <2>6. kinds # {} => ~GateBlocks(v) /\ v.type # "unknown"
    BY RoutedPasses
  <2>7. kinds \subseteq {"landing", "hosting", "embedded"}
    BY <2>4 DEF Routed
  <2>8. phase'[a] = "over" /\ returned'[a] = "answered"
    BY <2>3 DEF Tell
  <2>9. kinds # {} => Settled(a)'
    BY <2>5, <2>6, <2>8 DEF Settled, GateBlocks
  <2> HIDE DEF v
  <2>10. wanted' # wanted => kinds # {}
    BY <2>2
  <2>11. wanted' \subseteq {"landing", "hosting", "embedded"}
    BY <2>2, <2>7
  <2> QED
    BY <2>3, <2>5, <2>9, <2>10, <2>11, TellKeeps
<1>2. CASE LandingReplies(a)
  <2>1. PICK found \in BOOLEAN, signals \in BOOLEAN, leads \in BOOLEAN :
            /\ Tell(a, IF found THEN "success" ELSE "failed", found \/ signals)
            /\ wanted' = (IF leads THEN wanted \cup {"hosting"} ELSE wanted)
    BY <1>2 DEF LandingReplies
  <2>2. a \in Pages /\ judged' = judged
    BY <1>2, AgentKinds DEF LandingReplies
  <2>3. wanted' \subseteq {"landing", "hosting", "embedded"}
    BY <2>1
  <2>4. (IF found THEN "success" ELSE "failed") \in Statuses \ {"timeout"}
    BY DEF Statuses
  <2> QED
    BY <2>1, <2>2, <2>3, <2>4, TellKeeps
<1>3. CASE HostingReplies(a) \/ EmbeddedReplies(a)
  <2>1. a \in Pages /\ judged' = judged
    BY <1>3, AgentKinds DEF HostingReplies, EmbeddedReplies
  <2>2. PICK status \in {"success", "partial", "failed"} : Tell(a, status, status # "failed")
    BY <1>3 DEF HostingReplies, EmbeddedReplies
  <2>3. wanted' \subseteq {"landing", "hosting", "embedded"}
    BY <1>3 DEF HostingReplies, EmbeddedReplies
  <2>4. status \in Statuses \ {"timeout"} /\ (status # "failed") \in BOOLEAN
    BY DEF Statuses
  <2> QED
    BY <2>1, <2>2, <2>3, <2>4, TellKeeps
<1> QED
  BY <1>1, <1>2, <1>3 DEF Replies

LEMMA ClosesKeeps ==
    ASSUME AgentsInv, NEW a \in Agents, Closes(a)
    PROVE  AgentsInv'
<1>1. RestTyped' /\ phase[a] = "closing" /\ fault[a] \in Faults
  BY DEF Closes, RestTyped, AgentsInv, AgentRunsSafe, AgentRunsTypeOK
<1>2. CASE Replies(a)
  BY <1>1, <1>2, RepliesKeeps
<1>3. CASE fault[a] # "none" /\ Raise(a, fault[a])
  BY <1>1, <1>3, RaiseKeeps
<1> QED
  BY <1>2, <1>3 DEF Closes

LEMMA AgentStepKeeps ==
    ASSUME AgentsInv, NEW a \in Agents, AgentRunStep(a)
    PROVE  AgentsInv'
<1>1. CASE Begins(a)
  BY <1>1, BeginsKeeps
<1>2. CASE Connects(a)
  BY <1>2, GoKeeps DEF Connects, Faults
<1>3. CASE LoopAnswers(a) \/ LoopRaises(a)
  BY <1>3, GoKeeps DEF LoopAnswers, LoopRaises, Faults
<1>4. CASE Closes(a)
  BY <1>4, ClosesKeeps
<1>5. CASE TimesOut(a) \/ IsKilled(a)
  BY <1>5, ThrowKeeps DEF TimesOut, IsKilled, Faults
<1> QED
  BY <1>1, <1>2, <1>3, <1>4, <1>5 DEF AgentRunStep

\* The run around them touches the flag and its end only.
LEMMA AroundKeeps ==
    ASSUME AgentsInv, RestTyped',
           UNCHANGED <<phase, connected, returned, judged, saved, finished, wanted>>
    PROVE  AgentsInv'
<1>1. \A c \in Attempts : Settled(c)' <=> Settled(c)
  BY DEF Settled
<1> QED
  BY <1>1 DEF AgentsInv, AgentRunsSafe, AgentRunsTypeOK, ConnectionsClosed, ToldAlike,
     WorkAfterVerdict, CancelStopsRouting, NoVerdictYet, TargetsAfterVerdict, RestTyped, Settled

(* Agents close their connections whatever way they end, tell the memory,   *)
(* the trace and the caller alike, work on pages only after a verdict that  *)
(* passed the gate, and never after a cancelled classification.             *)
THEOREM AgentsAreSafe == AgentRunsSpec => []AgentRunsSafe
<1>1. AgentsInv /\ [AgentRunsNext]_arVars => AgentsInv'
  <2> SUFFICES ASSUME AgentsInv, [AgentRunsNext]_arVars PROVE AgentsInv'
    OBVIOUS
  <2>1. CASE \E a \in Agents : AgentRunStep(a)
    BY <2>1, AgentStepKeeps
  <2>2. CASE CancelRequested \/ (\E how \in {"halted", "killed"} : Ends(how)) \/ UNCHANGED arVars
    <3>1. RestTyped'
      BY <2>2 DEF CancelRequested, Ends, arVars, RestTyped, AgentsInv, AgentRunsSafe, AgentRunsTypeOK
    <3>2. UNCHANGED <<phase, connected, returned, judged, saved, finished, wanted>>
      BY <2>2 DEF CancelRequested, Ends, arVars
    <3> QED
      BY <3>1, <3>2, AroundKeeps
  <2> QED
    BY <2>1, <2>2 DEF AgentRunsNext
<1>2. AgentsInv => AgentRunsSafe
  BY DEF AgentsInv
<1> QED
  BY <1>1, <1>2, AgentsStart, PTL DEF AgentRunsSpec
-----------------------------------------------------------------------------
(* The run of the graph.                                                   *)

\* What a stage says of the other variables.
Staged ==
    /\ runStage = "new" => visited = 0 /\ ~within
    /\ runStage = "unwinding" => cause # "none"
    /\ runStage \in {"new", "graph"} => cause = "none"
    /\ cause \in {"cancel", "kill"} => cancelAsked
    /\ within => atNode \in Nodes

\* No model was called above the budget before the landing page, the one node
\* that does not ask and is entered after another.
NotYetOver ==
    /\ atNode = "start" => spent = 0
    /\ atNode \in {"start", "classify"} => overStarts = 0

WorkflowInv == WorkflowSafe /\ Staged /\ NotYetOver

Terminal == {"finished", "halted", "failed", "cancelled"}

LEMMA WorkflowStart == WorkflowInit => WorkflowInv
<1> SUFFICES ASSUME WorkflowInit PROVE WorkflowInv
  OBVIOUS
<1>1. <<>> \in Seq(Nodes) /\ <<>> \in Seq(Terminal) /\ Len(<<>>) = 0
  BY EmptySeq
<1>2. WorkflowTypeOK
  <2>1. 0 \in 0..MaxVisits /\ 0 \in 0..MaxSpent
    BY WorkflowAssumption
  <2> QED
    BY <1>1, <2>1 DEF WorkflowInit, WorkflowTypeOK, Terminal
<1>3. PartialIsWhole
  <2>1. live = <<>> /\ result = <<>> /\ answer = "none"
    BY DEF WorkflowInit
  <2>2. visited = 0 /\ (IF within THEN 1 ELSE 0) = 0
    BY DEF WorkflowInit
  <2>3. Len(live) = 0
    BY <1>1, <2>1
  <2>4. 0 = 0 - 0
    OBVIOUS
  <2>5. Len(live) = visited - (IF within THEN 1 ELSE 0)
    BY <2>2, <2>3, <2>4, Zenon
  <2> QED
    BY <2>1, <2>5 DEF PartialIsWhole
<1>4. PoolsLeave /\ BudgetHolds
  <2>1. runStage = "new" /\ overStarts = 0
    BY DEF WorkflowInit
  <2> QED
    BY <2>1 DEF PoolsLeave, BudgetHolds
<1>5. ToldAsAnswered
  <2>1. DOMAIN <<>> = {}
    OBVIOUS
  <2>2. toldEnds = <<>> /\ mode = "open" /\ runStage = "new" /\ answer = "none"
    BY DEF WorkflowInit
  <2>3. DOMAIN toldEnds = {}
    BY <2>1, <2>2
  <2> QED
    BY <2>2, <2>3 DEF ToldAsAnswered
<1>6. Staged /\ NotYetOver
  BY DEF WorkflowInit, Staged, NotYetOver
<1> QED
  BY <1>2, <1>3, <1>4, <1>5, <1>6 DEF WorkflowInv, WorkflowSafe

\* Only the first event of a run and its repetition are told by Once.
LEMMA OnceLast ==
    ASSUME NEW events \in Seq(Terminal), NEW e \in Terminal
    PROVE  LET w == Once(events, e) IN
           /\ w \in Seq(Terminal) /\ w # <<>> /\ w[Len(w)] = e
           /\ Len(events) = 0 => w = <<e>>
           /\ Len(w) \in Len(events)..(Len(events) + 1)
           /\ \A i \in 1..Len(events) : w[i] = events[i]
<1>1. CASE events # <<>> /\ events[Len(events)] = e
  <2>1. Once(events, e) = events /\ Len(events) # 0 /\ Len(events) \in Nat
    BY <1>1, EmptySeq DEF Once
  <2> QED
    BY <1>1, <2>1
<1>2. CASE ~(events # <<>> /\ events[Len(events)] = e)
  <2>1. Once(events, e) = Append(events, e)
    BY <1>2 DEF Once
  <2>2. /\ Len(Append(events, e)) = Len(events) + 1 /\ Append(events, e) \in Seq(Terminal)
        /\ \A i \in 1..Len(events) : Append(events, e)[i] = events[i]
        /\ Append(events, e)[Len(events) + 1] = e /\ Len(events) \in Nat
    OBVIOUS
  <2>3. Len(events) = 0 => Append(events, e) = <<e>>
    BY EmptySeq
  <2> QED
    BY <2>1, <2>2, <2>3, EmptySeq
<1> QED
  BY <1>1, <1>2

\* Costs and what was told keep their types as long as they are left alone.
CostTyped == spent \in 0..MaxSpent /\ limit \in Limits /\ overStarts \in Nat
TellTyped ==
    /\ toldEnds \in Seq(Terminal) /\ result \in Seq(Nodes)
    /\ mode \in {"open", "finished", "failed", "cancelled", "workflow_timeout", "budget_exceeded"}
    /\ kind \in {"", "workflow_timeout", "budget_exceeded"}
    /\ answer \in {"none", "ok", "cancelled", "error"}
GraphTyped ==
    /\ runStage \in {"new", "graph", "unwinding", "over"}
    /\ atNode \in Nodes \cup {"start"} /\ within \in BOOLEAN /\ visited \in 0..MaxVisits
    /\ live \in Seq(Nodes)
    /\ cause \in {"none", "done", "timeout", "budget", "error", "cancel", "kill"} \cup ByShutdown
    /\ registered \in BOOLEAN /\ cancelAsked \in BOOLEAN

LEMMA TypeParts == WorkflowTypeOK <=> GraphTyped /\ CostTyped /\ TellTyped
BY DEF WorkflowTypeOK, GraphTyped, CostTyped, TellTyped, Terminal

LEMMA TypePartsNext == WorkflowTypeOK' <=> GraphTyped' /\ CostTyped' /\ TellTyped'
BY TypeParts, PTL

LEMMA TypeKept ==
    ASSUME WorkflowTypeOK
    PROVE  /\ UNCHANGED costVars => CostTyped'
           /\ UNCHANGED tellVars => TellTyped'
BY TypeParts DEF CostTyped, TellTyped, costVars, tellVars

\* Steps of the graph answer nobody.
LEMMA GraphKeeps ==
    ASSUME WorkflowInv, WorkflowTypeOK', runStage # "over", runStage' \in {"graph", "unwinding"},
           UNCHANGED tellVars,
           Len(live') = visited' - (IF within' THEN 1 ELSE 0),
           Staged', NotYetOver', BudgetHolds'
    PROVE  WorkflowInv'
<1>1. toldEnds' = toldEnds /\ mode' = mode /\ result' = result /\ answer' = answer /\ kind' = kind
  BY DEF tellVars
<1>2. answer = "none" /\ toldEnds = <<>> /\ mode = "open" /\ result = <<>>
  BY DEF WorkflowInv, WorkflowSafe, ToldAsAnswered, PartialIsWhole
<1>3. runStage' # "over"
  OBVIOUS
<1>4. PartialIsWhole'
  BY <1>1, <1>2 DEF PartialIsWhole
<1>5. ToldAsAnswered'
  BY <1>1, <1>2, <1>3 DEF ToldAsAnswered
<1> QED
  BY <1>3, <1>4, <1>5 DEF WorkflowInv, WorkflowSafe, PoolsLeave

LEMMA LeaveKeeps ==
    ASSUME WorkflowInv, runStage = "graph",
           NEW why \in {"done", "timeout", "budget", "error", "cancel"}, Leave(why),
           why = "cancel" => cancelAsked
    PROVE  WorkflowInv'
<1> USE DEF WorkflowInv, WorkflowSafe
<1>2. /\ atNode' = atNode /\ within' = within /\ visited' = visited /\ live' = live
      /\ UNCHANGED <<costVars, tellVars>> /\ cancelAsked' = cancelAsked
      /\ runStage' = "unwinding" /\ cause' = why /\ registered' = registered
  BY DEF Leave
<1>1. WorkflowTypeOK'
  <2>1. GraphTyped'
    BY <1>2, TypeParts DEF GraphTyped
  <2> QED
    BY <1>2, <2>1, TypeKept, TypePartsNext
<1>3. Len(live') = visited' - (IF within' THEN 1 ELSE 0)
  BY <1>2 DEF PartialIsWhole
<1>4. Staged' /\ NotYetOver' /\ BudgetHolds'
  BY <1>2 DEF Staged, NotYetOver, BudgetHolds, costVars
<1> QED
  BY <1>1, <1>2, <1>3, <1>4, GraphKeeps

LEMMA EnterNodeKeeps ==
    ASSUME WorkflowInv, NEW n \in Nodes, EnterNode(n)
    PROVE  WorkflowInv'
<1> USE DEF WorkflowInv, WorkflowSafe
<1>1. /\ runStage = "graph" /\ ~within /\ n \in Successors(atNode) /\ visited < MaxVisits
  BY DEF EnterNode
<1>2. CASE n \in Checked /\ OverBudget
  <2>1. Leave("budget")
    BY <1>2 DEF EnterNode
  <2> QED
    BY <1>1, <2>1, LeaveKeeps
<1>3. CASE ~(n \in Checked /\ OverBudget)
  <2>1. /\ atNode' = n /\ within' = TRUE /\ visited' = visited + 1
        /\ overStarts' = overStarts + (IF n \notin Quiet /\ OverBudget THEN 1 ELSE 0)
        /\ runStage' = runStage /\ live' = live /\ cause' = cause /\ registered' = registered
        /\ spent' = spent /\ limit' = limit /\ cancelAsked' = cancelAsked /\ UNCHANGED tellVars
    BY <1>3 DEF EnterNode
  <2>2. visited \in 0..MaxVisits /\ overStarts \in Nat /\ MaxVisits \in Nat
    BY WorkflowAssumption DEF WorkflowTypeOK
  <2>3. visited' \in 0..MaxVisits /\ overStarts' \in Nat
    BY <1>1, <2>1, <2>2
  <2>4. WorkflowTypeOK'
    <3>1. GraphTyped'
      BY <2>1, <2>3, TypeParts DEF GraphTyped
    <3>2. CostTyped'
      BY <2>1, <2>3, TypeParts DEF CostTyped
    <3> QED
      BY <2>1, <3>1, <3>2, TypeKept, TypePartsNext
  <2>5. Len(live') = visited' - (IF within' THEN 1 ELSE 0)
    <3>1. Len(live) = visited
      BY <1>1, <2>2 DEF PartialIsWhole
    <3> QED
      BY <2>1, <2>2, <3>1
  <2>6. Staged'
    BY <1>1, <2>1 DEF Staged
  <2>7. NotYetOver' /\ BudgetHolds'
    <3>1. CASE n \notin Quiet /\ OverBudget
      <4>1. n \in {"classify", "landing_page"}
        BY <1>3, <3>1 DEF Checked, Drainers, Quiet, Nodes
      <4>2. n = "classify" => atNode = "start"
        BY <1>1 DEF Successors
      <4>3. atNode # "start"
        <5>1. limit \in Nat /\ spent > limit
          BY <3>1, WorkflowAssumption DEF OverBudget, WorkflowTypeOK
        <5>2. spent # 0
          BY <5>1
        <5> QED
          BY <5>2 DEF NotYetOver
      <4>4. n = "landing_page" /\ atNode = "classify"
        BY <1>1, <4>1, <4>2, <4>3 DEF Successors
      <4>5. overStarts = 0
        BY <4>4 DEF NotYetOver
      <4>6. overStarts' = 1
        BY <2>1, <3>1, <4>5
      <4> QED
        BY <2>1, <4>4, <4>6 DEF NotYetOver, BudgetHolds
    <3>2. CASE ~(n \notin Quiet /\ OverBudget)
      <4>1. overStarts' = overStarts
        BY <2>1, <2>2, <3>2
      <4>2. n # "start"
        BY DEF Nodes
      <4>3. n = "classify" => atNode = "start"
        BY <1>1 DEF Successors
      <4> QED
        BY <2>1, <4>1, <4>2, <4>3 DEF NotYetOver, BudgetHolds
    <3> QED
      BY <3>1, <3>2
  <2> QED
    BY <1>1, <2>1, <2>4, <2>5, <2>6, <2>7, GraphKeeps
<1> QED
  BY <1>2, <1>3

LEMMA PassNodeKeeps ==
    ASSUME WorkflowInv, NEW n \in Nodes, PassNode(n)
    PROVE  WorkflowInv'
<1> USE DEF WorkflowInv, WorkflowSafe
<1>1. /\ runStage = "graph" /\ ~within /\ n \in Drainers /\ visited < MaxVisits
      /\ atNode' = n /\ visited' = visited + 1 /\ live' = Append(live, n)
      /\ runStage' = runStage /\ within' = within /\ cause' = cause /\ registered' = registered
      /\ spent' = spent /\ limit' = limit /\ overStarts' = overStarts
      /\ cancelAsked' = cancelAsked /\ UNCHANGED tellVars
  BY DEF PassNode, costVars
<1>2. visited \in 0..MaxVisits /\ MaxVisits \in Nat /\ live \in Seq(Nodes)
  BY WorkflowAssumption DEF WorkflowTypeOK
<1>3. visited' \in 0..MaxVisits /\ live' \in Seq(Nodes) /\ Len(live') = Len(live) + 1
  BY <1>1, <1>2
<1>4. WorkflowTypeOK'
  <2>1. GraphTyped' /\ CostTyped'
    BY <1>1, <1>3, TypeParts DEF GraphTyped, CostTyped
  <2> QED
    BY <1>1, <2>1, TypeKept, TypePartsNext
<1>5. Len(live') = visited' - (IF within' THEN 1 ELSE 0)
  <2>1. Len(live) = visited
    BY <1>1, <1>2 DEF PartialIsWhole
  <2> QED
    BY <1>1, <1>2, <1>3, <2>1
<1>6. Staged' /\ NotYetOver' /\ BudgetHolds'
  BY <1>1 DEF Staged, NotYetOver, BudgetHolds, Drainers
<1> QED
  BY <1>1, <1>4, <1>5, <1>6, GraphKeeps

LEMMA SpendKeeps ==
    ASSUME WorkflowInv, Spend
    PROVE  WorkflowInv'
<1> USE DEF WorkflowInv, WorkflowSafe
<1>1. /\ runStage = "graph" /\ within /\ spent < MaxSpent /\ spent' = spent + 1
      /\ runStage' = runStage /\ atNode' = atNode /\ within' = within /\ visited' = visited /\ live' = live
      /\ cause' = cause /\ registered' = registered /\ limit' = limit /\ overStarts' = overStarts
      /\ cancelAsked' = cancelAsked /\ UNCHANGED tellVars
  BY DEF Spend, graphVars
<1>2. spent \in 0..MaxSpent /\ MaxSpent \in Nat
  BY WorkflowAssumption DEF WorkflowTypeOK
<1>3. spent' \in 0..MaxSpent
  BY <1>1, <1>2
<1>4. WorkflowTypeOK'
  <2>1. GraphTyped' /\ CostTyped'
    BY <1>1, <1>3, TypeParts DEF GraphTyped, CostTyped
  <2> QED
    BY <1>1, <2>1, TypeKept, TypePartsNext
<1>5. Len(live') = visited' - (IF within' THEN 1 ELSE 0)
  BY <1>1 DEF PartialIsWhole
<1>6. atNode # "start"
  BY <1>1 DEF Staged, Nodes
<1>7. Staged' /\ NotYetOver' /\ BudgetHolds'
  BY <1>1, <1>6 DEF Staged, NotYetOver, BudgetHolds
<1> QED
  BY <1>1, <1>4, <1>5, <1>7, GraphKeeps

LEMMA LeaveNodeKeeps ==
    ASSUME WorkflowInv, LeaveNode
    PROVE  WorkflowInv'
<1> USE DEF WorkflowInv, WorkflowSafe
<1>1. /\ runStage = "graph" /\ within /\ within' = FALSE /\ live' = Append(live, atNode)
      /\ runStage' = runStage /\ atNode' = atNode /\ visited' = visited
      /\ cause' = cause /\ registered' = registered /\ UNCHANGED costVars
      /\ cancelAsked' = cancelAsked /\ UNCHANGED tellVars
  BY DEF LeaveNode
<1>2. live \in Seq(Nodes) /\ atNode \in Nodes /\ visited \in 0..MaxVisits
  BY <1>1 DEF WorkflowTypeOK, Staged
<1>3. live' \in Seq(Nodes) /\ Len(live') = Len(live) + 1
  BY <1>1, <1>2
<1>4. WorkflowTypeOK'
  <2>1. GraphTyped'
    BY <1>1, <1>3, TypeParts DEF GraphTyped
  <2> QED
    BY <1>1, <2>1, TypeKept, TypePartsNext
<1>5. Len(live') = visited' - (IF within' THEN 1 ELSE 0)
  <2>1. Len(live) = visited - 1
    BY <1>1, <1>2 DEF PartialIsWhole
  <2> QED
    BY <1>1, <1>2, <1>3, <2>1, WorkflowAssumption
<1>6. Staged' /\ NotYetOver' /\ BudgetHolds'
  BY <1>1 DEF Staged, NotYetOver, BudgetHolds, costVars
<1> QED
  BY <1>1, <1>4, <1>5, <1>6, GraphKeeps
LEMMA OneEvent ==
    ASSUME NEW e \in Terminal
    PROVE  /\ Append(<<>>, e) = <<e>> /\ <<e>> \in Seq(Terminal) /\ Len(<<e>>) = 1 /\ <<e>>[1] = e
           /\ DOMAIN <<e>> = {1} /\ \A i \in 1..Len(<<e>>) : <<e>>[i] = e
           /\ <<>> \in Seq(Terminal) /\ \A i \in 1..Len(<<>>) : <<>>[i] # "failed"
           /\ Once(<<e>>, e) = <<e>> /\ Once(<<>>, e) = <<e>>
<1>1. /\ Append(<<>>, e) = <<e>> /\ <<e>> \in Seq(Terminal) /\ Len(<<e>>) = 1 /\ <<e>>[1] = e
      /\ <<e>> # <<>>
  OBVIOUS
<1>2. DOMAIN <<e>> = 1..1 /\ 1..1 = {1}
  OBVIOUS
<1>3. <<>> \in Seq(Terminal) /\ Len(<<>>) = 0 /\ 1..0 = {}
  OBVIOUS
<1>4. Once(<<e>>, e) = <<e>> /\ Once(<<>>, e) = <<e>>
  BY <1>1 DEF Once
<1>5. \A i \in 1..Len(<<e>>) : <<e>>[i] = e
  BY <1>1, <1>2
<1>6. \A i \in 1..Len(<<>>) : <<>>[i] # "failed"
  BY <1>3
<1> QED
  BY <1>1, <1>2, <1>3, <1>4, <1>5, <1>6

\* The end of a run: one of the ways to answer.
LEMMA AnsweredEnds ==
    ASSUME NEW how \in {"cancelled", "error"}, NEW events \in Seq(Terminal), NEW as,
           as = (IF how = "error" THEN "failed" ELSE "cancelled"),
           \A i \in 1..Len(events) : events[i] # "failed", AnsweredRun(how, events, as)
    PROVE  /\ answer' = how /\ mode' = as /\ result' = <<>> /\ kind' = ""
           /\ toldEnds' \in Seq(Terminal) /\ toldEnds'[Len(toldEnds')] = as
           /\ \A i \in DOMAIN toldEnds' : toldEnds'[i] = "failed" => i = Len(toldEnds')
<1>1. as \in Terminal /\ toldEnds' = Once(events, as)
  BY DEF AnsweredRun, Terminal
<1> DEFINE w == Once(events, as)
<1>2. /\ w \in Seq(Terminal) /\ w[Len(w)] = as /\ Len(w) \in Len(events)..(Len(events) + 1)
      /\ \A i \in 1..Len(events) : w[i] = events[i]
  BY <1>1, OnceLast
<1> HIDE DEF w
<1>3. \A i \in DOMAIN w : w[i] = "failed" => i = Len(w)
  <2> SUFFICES ASSUME NEW i \in DOMAIN w, w[i] = "failed" PROVE i = Len(w)
    OBVIOUS
  <2>1. i \in 1..Len(w) /\ Len(w) \in Nat /\ Len(events) \in Nat
    BY <1>2
  <2>2. i \notin 1..Len(events)
    BY <1>2
  <2> QED
    BY <1>2, <2>1, <2>2
<1>4. toldEnds' = w
  BY <1>1 DEF w
<1>5. toldEnds' \in Seq(Terminal) /\ toldEnds'[Len(toldEnds')] = as
  BY <1>2, <1>4
<1>6. \A i \in DOMAIN toldEnds' : toldEnds'[i] = "failed" => i = Len(toldEnds')
  BY <1>3, <1>4
<1> QED
  BY <1>5, <1>6 DEF AnsweredRun

\* A failed or cancelled run, whoever tells it.
LEMMA UnansweredKeeps ==
    ASSUME WorkflowInv, runStage \in {"new", "unwinding"}, runStage' = "over",
           NEW how \in {"cancelled", "error"},
           NEW events \in Seq(Terminal), \A i \in 1..Len(events) : events[i] # "failed",
           AnsweredRun(how, events, IF how = "error" THEN "failed" ELSE "cancelled"),
           how = "cancelled" => cancelAsked \/ cause \in ByShutdown,
           cause \in ByShutdown => how = "cancelled",
           registered' \in BOOLEAN,
           registered' => (visited = 0 /\ how = "error") \/ cause = "interrupted",
           UNCHANGED <<atNode, within, visited, live, cause, costVars, cancelAsked>>
    PROVE  WorkflowInv'
<1> DEFINE as == IF how = "error" THEN "failed" ELSE "cancelled"
<1>1. /\ answer' = how /\ mode' = as /\ result' = <<>> /\ kind' = ""
      /\ toldEnds' \in Seq(Terminal) /\ toldEnds'[Len(toldEnds')] = as
      /\ \A i \in DOMAIN toldEnds' : toldEnds'[i] = "failed" => i = Len(toldEnds')
  BY AnsweredEnds
<1>2. /\ atNode' = atNode /\ within' = within /\ visited' = visited /\ live' = live /\ cause' = cause
      /\ UNCHANGED costVars /\ cancelAsked' = cancelAsked
  OBVIOUS
<1>3. WorkflowTypeOK'
  <2>1. GraphTyped'
    BY <1>2, TypeParts DEF GraphTyped, WorkflowInv, WorkflowSafe
  <2>2. <<>> \in Seq(Nodes)
    BY EmptySeq
  <2>3. TellTyped'
    BY <1>1, <2>2 DEF TellTyped
  <2> QED
    BY <1>2, <2>1, <2>3, TypeKept, TypePartsNext DEF WorkflowInv, WorkflowSafe
<1>4. PartialIsWhole'
  <2>1. Len(live') = visited' - (IF within' THEN 1 ELSE 0)
    BY <1>2 DEF WorkflowInv, WorkflowSafe, PartialIsWhole
  <2> QED
    BY <1>1, <2>1 DEF PartialIsWhole
<1>5. ToldAsAnswered'
  <2>1. how = "error" => as = "failed"
    OBVIOUS
  <2>2. /\ how = "cancelled" => as = "cancelled" /\ (cancelAsked' \/ cause' \in ByShutdown)
        /\ cause' \in ByShutdown => how = "cancelled"
    BY <1>2
  <2>3. answer' # "none" /\ answer' # "ok" /\ runStage' = "over"
    BY <1>1
  <2> HIDE DEF as
  <2> QED
    BY <1>1, <2>1, <2>2, <2>3 DEF ToldAsAnswered
<1>6. PoolsLeave' /\ BudgetHolds'
  BY <1>1, <1>2 DEF WorkflowInv, WorkflowSafe, PoolsLeave, BudgetHolds, costVars
<1>7. Staged' /\ NotYetOver'
  BY <1>2 DEF WorkflowInv, Staged, NotYetOver, costVars
<1> QED
  BY <1>3, <1>4, <1>5, <1>6, <1>7 DEF WorkflowInv, WorkflowSafe

\* What the end of a run leaves as the graph left it.
LEMMA OverLeaves ==
    ASSUME WorkflowInv, runStage \in {"new", "unwinding"}, runStage' = "over", registered' \in BOOLEAN,
           UNCHANGED <<atNode, within, visited, live, cause, costVars, cancelAsked>>
    PROVE  /\ Len(live') = visited' - (IF within' THEN 1 ELSE 0)
           /\ GraphTyped' /\ BudgetHolds' /\ Staged' /\ NotYetOver'
           /\ live' = live /\ ~cancelAsked => ~cancelAsked'
<1>1. /\ atNode' = atNode /\ within' = within /\ visited' = visited /\ live' = live /\ cause' = cause
      /\ UNCHANGED costVars /\ cancelAsked' = cancelAsked
  OBVIOUS
<1>2. GraphTyped'
  <2>1. GraphTyped
    BY TypeParts DEF WorkflowInv, WorkflowSafe
  <2> QED
    BY <1>1, <2>1 DEF GraphTyped
<1>3. Len(live') = visited' - (IF within' THEN 1 ELSE 0)
  BY <1>1 DEF WorkflowInv, WorkflowSafe, PartialIsWhole
<1>4. BudgetHolds'
  BY <1>1 DEF WorkflowInv, WorkflowSafe, BudgetHolds, costVars
<1>5. Staged' /\ NotYetOver'
  BY <1>1 DEF WorkflowInv, Staged, NotYetOver, costVars
<1> QED
  BY <1>1, <1>2, <1>3, <1>4, <1>5

LEMMA ReturnedKeeps ==
    ASSUME WorkflowInv, runStage = "unwinding", runStage' = "over", registered' \in BOOLEAN, ~registered',
           NEW e \in {"finished", "halted"},
           NEW m \in {"finished", "workflow_timeout", "budget_exceeded"},
           NEW k \in {"", "workflow_timeout", "budget_exceeded"}, Returned(e, m, k),
           \/ e = "finished" /\ m = "finished" /\ k = ""
           \/ e = "halted" /\ m = k /\ k \in {"workflow_timeout", "budget_exceeded"},
           cause \notin ByShutdown,
           UNCHANGED <<atNode, within, visited, live, cause, costVars, cancelAsked>>
    PROVE  WorkflowInv'
<1>1. toldEnds = <<>>
  BY DEF WorkflowInv, WorkflowSafe, ToldAsAnswered
<1>2. /\ Append(toldEnds, e) = <<e>> /\ <<e>> \in Seq(Terminal) /\ Len(<<e>>) = 1
      /\ <<e>>[1] = e /\ DOMAIN <<e>> = {1} /\ \A i \in 1..Len(<<e>>) : <<e>>[i] # "failed"
  BY <1>1, OneEvent DEF Terminal
<1>3. CASE AnsweredRun("cancelled", Append(toldEnds, e), "cancelled") /\ cancelAsked
  BY <1>2, <1>3, UnansweredKeeps
<1>4. CASE AnsweredRun("error", Append(toldEnds, e), "failed")
  BY <1>2, <1>4, UnansweredKeeps
<1>5. CASE /\ ~cancelAsked /\ answer' = "ok" /\ mode' = m /\ toldEnds' = Append(toldEnds, e)
           /\ result' = live /\ kind' = k
  <2>1. /\ Len(live') = visited' - (IF within' THEN 1 ELSE 0)
        /\ GraphTyped' /\ BudgetHolds' /\ Staged' /\ NotYetOver' /\ live' = live /\ ~cancelAsked'
        /\ cause' \notin ByShutdown
    BY <1>5, OverLeaves
  <2>2. WorkflowTypeOK'
    <3>1. live \in Seq(Nodes)
      BY DEF WorkflowInv, WorkflowSafe, WorkflowTypeOK
    <3>2. TellTyped'
      BY <1>2, <1>5, <3>1 DEF TellTyped
    <3> QED
      BY <2>1, <3>2, TypeKept, TypePartsNext DEF WorkflowInv, WorkflowSafe
  <2>3. PartialIsWhole'
    BY <1>5, <2>1 DEF PartialIsWhole
  <2>4. Len(toldEnds') = 1 /\ toldEnds'[1] = e /\ DOMAIN toldEnds' = {1}
    BY <1>2, <1>5
  <2>5. ToldAsAnswered'
    <3>1. \A i \in DOMAIN toldEnds' : toldEnds'[i] = "failed" => i = Len(toldEnds')
      BY <2>4
    <3>2. answer' = "ok" /\ kind' = k /\ mode' = m
      BY <1>5
    <3> QED
      BY <2>1, <2>4, <3>1, <3>2 DEF ToldAsAnswered
  <2>6. PoolsLeave'
    BY DEF PoolsLeave
  <2> QED
    BY <2>1, <2>2, <2>3, <2>5, <2>6 DEF WorkflowInv, WorkflowSafe
<1> QED
  BY <1>3, <1>4, <1>5 DEF Returned

LEMMA SettleKeeps == ASSUME WorkflowInv, Settle PROVE WorkflowInv'
<1>1. /\ runStage = "unwinding" /\ runStage' = "over"
      /\ registered' = (registered /\ cause = "interrupted") /\ registered' \in BOOLEAN
      /\ registered' => cause = "interrupted"
      /\ UNCHANGED <<atNode, within, visited, live, cause, costVars, cancelAsked>>
  BY DEF Settle, WorkflowInv, WorkflowSafe, WorkflowTypeOK
<1>2. /\ toldEnds = <<>>
      /\ cause \in {"done", "timeout", "budget", "error", "cancel", "kill"} \cup ByShutdown
  BY <1>1 DEF WorkflowInv, WorkflowSafe, WorkflowTypeOK, Staged, ToldAsAnswered
<1>3. CASE cause \in {"done", "timeout", "budget"}
  <2>1. ~registered' /\ cause \notin ByShutdown
    BY <1>1, <1>3 DEF ByShutdown
  <2> QED
    BY <1>1, <1>3, <2>1, ReturnedKeeps DEF Settle
<1>4. CASE cause = "error"
  <2>1. "failed" \in Terminal /\ AnsweredRun("error", Append(<<>>, "failed"), "failed")
    BY <1>2, <1>4 DEF Settle, Terminal
  <2>2. AnsweredRun("error", <<>>, "failed")
    BY <2>1, OneEvent DEF AnsweredRun
  <2>3. <<>> \in Seq(Terminal) /\ \A i \in 1..Len(<<>>) : <<>>[i] # "failed"
    BY <2>1, OneEvent
  <2>4. ~registered' /\ cause \notin ByShutdown
    BY <1>1, <1>4 DEF ByShutdown
  <2> QED
    BY <1>1, <2>2, <2>3, <2>4, UnansweredKeeps
<1>5. CASE cause \in {"cancel", "kill"} \cup ByShutdown
  <2>1. AnsweredRun("cancelled", <<>>, "cancelled") /\ (cancelAsked \/ cause \in ByShutdown)
    BY <1>2, <1>5 DEF Settle, WorkflowInv, Staged, ByShutdown
  <2>2. <<>> \in Seq(Terminal) /\ \A i \in 1..Len(<<>>) : <<>>[i] # "failed"
    BY OneEvent DEF Terminal
  <2> QED
    BY <1>1, <2>1, <2>2, UnansweredKeeps
<1> QED
  BY <1>2, <1>3, <1>4, <1>5

LEMMA StartRunKeeps == ASSUME WorkflowInv, StartRun PROVE WorkflowInv'
<1>1. /\ runStage = "new" /\ registered' = TRUE /\ visited = 0
      /\ atNode' = atNode /\ within' = within /\ visited' = visited /\ live' = live
      /\ cause' = cause /\ UNCHANGED costVars /\ cancelAsked' = cancelAsked
  BY DEF StartRun, WorkflowInv, Staged
<1>2. CASE runStage' = "graph" /\ UNCHANGED tellVars
  <2>1. GraphTyped'
    BY <1>1, <1>2, TypeParts DEF GraphTyped, WorkflowInv, WorkflowSafe
  <2>2. WorkflowTypeOK'
    BY <1>1, <1>2, <2>1, TypeKept, TypePartsNext DEF WorkflowInv, WorkflowSafe
  <2>3. Len(live') = visited' - (IF within' THEN 1 ELSE 0)
    BY <1>1 DEF WorkflowInv, WorkflowSafe, PartialIsWhole
  <2>4. Staged' /\ NotYetOver' /\ BudgetHolds'
    BY <1>1, <1>2 DEF WorkflowInv, WorkflowSafe, Staged, NotYetOver, BudgetHolds, costVars
  <2> QED
    BY <1>1, <1>2, <2>2, <2>3, <2>4, GraphKeeps
<1>3. CASE runStage' = "over" /\ AnsweredRun("error", <<"failed">>, "failed")
  <2>1. <<>> \in Seq(Terminal) /\ \A i \in 1..Len(<<>>) : <<>>[i] # "failed"
    BY OneEvent DEF Terminal
  <2>2. AnsweredRun("error", <<>>, "failed")
    BY <1>3, OneEvent DEF AnsweredRun, Terminal
  <2>3. cause \notin ByShutdown
    BY <1>1 DEF WorkflowInv, Staged, ByShutdown
  <2> QED
    BY <1>1, <1>3, <2>1, <2>2, <2>3, UnansweredKeeps
<1> QED
  BY <1>2, <1>3 DEF StartRun

\* Requests and new budgets come from elsewhere.
LEMMA OutsideKeeps ==
    ASSUME WorkflowInv, CancelAsked \/ KillRun \/ ShutDownRun \/ (\E l \in Limits : SetLimit(l))
    PROVE  WorkflowInv'
<1> USE DEF WorkflowInv, WorkflowSafe
<1>1. /\ atNode' = atNode /\ within' = within /\ visited' = visited /\ live' = live /\ spent' = spent
      /\ UNCHANGED tellVars /\ cancelAsked' \in BOOLEAN /\ (cancelAsked => cancelAsked')
      /\ limit' \in Limits /\ overStarts' \in {0, overStarts} /\ registered' \in {FALSE, registered}
  BY DEF CancelAsked, KillRun, ShutDownRun, SetLimit, graphVars, costVars, WorkflowTypeOK
<1>2. \/ runStage' = runStage /\ cause' = cause
      \/ runStage' = "unwinding" /\ cause' = "kill" /\ cancelAsked'
      \/ runStage' = "unwinding" /\ cause' \in ByShutdown
  <2>1. CASE CancelAsked \/ (\E l \in Limits : SetLimit(l))
    BY <2>1 DEF CancelAsked, SetLimit, graphVars
  <2>2. CASE KillRun
    BY <2>2 DEF KillRun
  <2>3. CASE ShutDownRun
    <3>1. runStage' = "unwinding" /\ cause' = IF runStage = "graph" THEN "shutdown" ELSE "interrupted"
      BY <2>3 DEF ShutDownRun
    <3> QED
      BY <3>1 DEF ByShutdown
  <2> QED
    BY <2>1, <2>2, <2>3
<1>3. runStage # "over"
  BY DEF CancelAsked, KillRun, ShutDownRun, SetLimit
<1>4. WorkflowTypeOK'
  <2>1. GraphTyped'
    BY <1>1, <1>2, TypeParts DEF GraphTyped
  <2>2. CostTyped'
    BY <1>1, TypeParts DEF CostTyped
  <2> QED
    BY <1>1, <2>1, <2>2, TypeKept, TypePartsNext
<1>5. PartialIsWhole'
  <2>1. Len(live') = visited' - (IF within' THEN 1 ELSE 0)
    BY <1>1 DEF PartialIsWhole
  <2> QED
    BY <1>1, <2>1 DEF PartialIsWhole, tellVars
<1>6. ToldAsAnswered'
  BY <1>1, <1>2, <1>3 DEF ToldAsAnswered, tellVars
<1>7. PoolsLeave'
  BY <1>2, <1>3 DEF PoolsLeave
<1>8. Staged'
  BY <1>1, <1>2 DEF Staged, ByShutdown
<1>9. NotYetOver' /\ BudgetHolds'
  <2>1. overStarts' <= 1
    BY <1>1 DEF BudgetHolds
  <2> QED
    BY <1>1, <2>1 DEF NotYetOver, BudgetHolds
<1> QED
  BY <1>4, <1>5, <1>6, <1>7, <1>8, <1>9

(* A result that is answered is what the nodes that ended have left, the    *)
(* trace and the caller are told alike, "cancelled" of a run only if that   *)
(* was asked for or the process shuts down, no pools stay behind a run that *)
(* began its graph unless a shutdown interrupts their closing, and a spent  *)
(* budget lets one node more call a model.                                  *)
THEOREM WorkflowIsSafe == WorkflowSpec => []WorkflowSafe
<1>1. WorkflowInv /\ [WorkflowNext]_wfVars => WorkflowInv'
  <2> SUFFICES ASSUME WorkflowInv, [WorkflowNext]_wfVars PROVE WorkflowInv'
    OBVIOUS
  <2>1. CASE StartRun
    BY <2>1, StartRunKeeps
  <2>2. CASE \E n \in Nodes : EnterNode(n) \/ PassNode(n)
    BY <2>2, EnterNodeKeeps, PassNodeKeeps
  <2>3. CASE Spend \/ LeaveNode
    BY <2>3, SpendKeeps, LeaveNodeKeeps
  <2>4. CASE NodeRaises \/ GraphEnds \/ Deadline
    BY <2>4, LeaveKeeps DEF NodeRaises, GraphEnds, Deadline
  <2>5. CASE Settle
    BY <2>5, SettleKeeps
  <2>6. CASE CancelAsked \/ KillRun \/ ShutDownRun \/ (\E l \in Limits : SetLimit(l))
    BY <2>6, OutsideKeeps
  <2>7. CASE UNCHANGED wfVars
    <3>1. /\ runStage' = runStage /\ atNode' = atNode /\ within' = within /\ visited' = visited
          /\ live' = live /\ cause' = cause /\ registered' = registered
          /\ cancelAsked' = cancelAsked /\ spent' = spent /\ limit' = limit
          /\ overStarts' = overStarts /\ toldEnds' = toldEnds /\ mode' = mode /\ result' = result
          /\ kind' = kind /\ answer' = answer
      BY <2>7 DEF wfVars, graphVars, costVars, tellVars
    <3>2. WorkflowTypeOK'
      <4>1. WorkflowTypeOK
        BY DEF WorkflowInv, WorkflowSafe
      <4>2. GraphTyped'
        BY <3>1, <4>1, TypeParts DEF GraphTyped
      <4>3. CostTyped' /\ TellTyped'
        BY <3>1, <4>1, TypeKept DEF costVars, tellVars
      <4> QED
        BY <4>2, <4>3, TypePartsNext
    <3>3. PartialIsWhole' /\ PoolsLeave' /\ BudgetHolds'
      BY <3>1 DEF WorkflowInv, WorkflowSafe, PartialIsWhole, PoolsLeave, BudgetHolds
    <3>4. ToldAsAnswered'
      BY <3>1 DEF WorkflowInv, WorkflowSafe, ToldAsAnswered
    <3>5. Staged' /\ NotYetOver'
      BY <3>1 DEF WorkflowInv, Staged, NotYetOver
    <3> QED
      BY <3>2, <3>3, <3>4, <3>5 DEF WorkflowInv, WorkflowSafe
  <2> QED
    BY <2>1, <2>2, <2>3, <2>4, <2>5, <2>6, <2>7 DEF WorkflowNext, RunSteps
<1>2. WorkflowInv => WorkflowSafe
  BY DEF WorkflowInv
<1> QED
  BY <1>1, <1>2, WorkflowStart, PTL DEF WorkflowSpec

-----------------------------------------------------------------------------
(* What page agents are told.  The invariant says of a queued target what  *)
(* the properties say of an agent at work, and that a target is queued     *)
(* once: nothing of it is given before a worker takes it.                   *)

\* Nothing is queued before the landing page, if there is one, is told.
Early ==
    /\ where = "classify" => class = "none"
    /\ where \in {"landing", "exploring"} => class = "landing"
    /\ where \in {"classify", "landing", "exploring"} =>
          /\ queue = {} /\ seen = {} /\ woken = {} /\ matches = {}
          /\ \A u \in Urls : given[u] = Untold /\ announced[u] = Untold

Known ==
    /\ known.matches = matches
    /\ known.root \in Urls \cup {"none"} /\ known.class \in PageTypes \cup {"none"}
    /\ class = "landing" /\ where # "landing" => known.root = Root /\ known.class = class

\* What may be told of a target.
TrueOf(u, handoff) ==
    /\ handoff.match = InMatch(matches, u)
    /\ class = "landing" => handoff.root = Root /\ (u \notin Players => handoff.verdict = class)

ItemTrue(i) ==
    /\ i.role \in {"hosting", "embedded"}
    /\ i.handoff = Untold \/ TrueOf(i.url, i.handoff)
    /\ i.role = "embedded" /\ class = "landing" => i.url \in Players
Queued ==
    /\ \A i \in queue : ItemTrue(i) /\ given[i.url] = Untold
    /\ \A i, j \in queue : i.url = j.url => i = j
    /\ \A u \in Urls \ seen : given[u] = Untold /\ announced[u] = Untold

Named == \A r \in extracted \cup buffered : r.players \subseteq Players /\ r.url \in Urls

HandoffsInv == HandoffsTrue /\ Early /\ Known /\ Queued /\ Named

LEMMA Handing ==
    /\ Root \in Urls /\ "none" \notin Urls /\ Watch \subseteq Urls /\ Players \subseteq Urls
    /\ Root \notin Players /\ \A u \in Watch : u \notin Players
    /\ Untold \in Handoff
    /\ \A m \in Matches : m.url \in Watch /\ m.players \subseteq Players
BY HandoffsAssumption DEF Urls, Untold, Told, Handoff, PageTypes, Matches

LEMMA Telling ==
    ASSUME NEW root \in Urls, NEW said \in PageTypes \cup {"none"}, NEW match \in BOOLEAN,
           NEW source \in BOOLEAN
    PROVE  /\ Told(root, said, match, source) \in Handoff
           /\ Told(root, said, match, source) # Untold
           /\ Told(root, said, match, source).root = root
           /\ Told(root, said, match, source).verdict = said
           /\ Told(root, said, match, source).match = match
<1>1. root # "none"
  BY Handing
<1>2. Untold.root = "none" /\ Told(root, said, match, source).root = root
  BY DEF Untold, Told
<1> QED
  BY <1>1, <1>2 DEF Told, Handoff

LEMMA HostingTells ==
    ASSUME NEW root \in Urls, NEW said \in PageTypes \cup {"none"}, NEW ms, NEW u
    PROVE  /\ HostingHandoff(root, said, ms, u) \in Handoff
           /\ HostingHandoff(root, said, ms, u) # Untold
           /\ HostingHandoff(root, said, ms, u).root = root
           /\ HostingHandoff(root, said, ms, u).verdict = said
           /\ HostingHandoff(root, said, ms, u).match = InMatch(ms, u)
<1>1. PICK match \in BOOLEAN : match = InMatch(ms, u)
  BY DEF InMatch
<1>2. PICK source \in BOOLEAN : source = FALSE
  OBVIOUS
<1>3. HostingHandoff(root, said, ms, u) = Told(root, said, match, source)
  BY <1>1, <1>2 DEF HostingHandoff
<1> QED
  BY <1>1, <1>3, Telling

LEMMA HandoffsStart == HandoffsInit => HandoffsInv
<1> SUFFICES ASSUME HandoffsInit PROVE HandoffsInv
  OBVIOUS
<1>1. \A u \in Urls : given[u] = Untold /\ announced[u] = Untold
  BY DEF HandoffsInit
<1>2. given \in [Urls -> Handoff] /\ announced \in [Urls -> Handoff]
  BY Handing DEF HandoffsInit
<1>3. /\ queue = {} /\ working = {} /\ seen = {} /\ woken = {} /\ matches = {} /\ buffered = {}
      /\ extracted = {} /\ pending = {} /\ players = {} /\ where = "classify" /\ class = "none"
      /\ known.root = "none" /\ known.class = "none" /\ known.matches = {}
  BY DEF HandoffsInit
<1>4. HandoffsTypeOK
  BY <1>2, <1>3 DEF HandoffsTypeOK
<1>5. MatchTold /\ RunTold /\ AnnouncedGiven
  BY <1>1, <1>3 DEF MatchTold, RunTold, AnnouncedGiven
<1>6. Early /\ Queued /\ Named
  BY <1>1, <1>3 DEF Early, Queued, Named
<1>7. Known
  BY <1>3 DEF Known
<1> QED
  BY <1>4, <1>5, <1>6, <1>7 DEF HandoffsInv, HandoffsTrue

\* New items, for targets that were never queued.
LEMMA QueueGrows ==
    ASSUME HandoffsInv, class' = class, matches' = matches, given' = given,
           NEW new, queue' = queue \cup new, working' \subseteq working,
           \A i \in new : ItemTrue(i) /\ i.url \in Urls \ seen /\ i.handoff \in Handoff,
           \A i, j \in new : i.url = j.url => i = j,
           seen \subseteq seen', \A i \in new : i.url \in seen',
           \A u \in Urls : \/ announced'[u] = announced[u]
                           \/ \E i \in new : i.url = u /\ i.handoff = announced'[u]
    PROVE  /\ Queued' /\ MatchTold' /\ RunTold' /\ AnnouncedGiven'
           /\ \A i \in queue' \cup working' : i.url \in seen' /\ i.handoff \in Handoff
<1>1. /\ \A i \in queue : ItemTrue(i) /\ given[i.url] = Untold /\ i.url \in seen /\ i.handoff \in Handoff
      /\ \A i \in working : i.url \in seen /\ i.handoff \in Handoff
      /\ \A u \in Urls \ seen : given[u] = Untold /\ announced[u] = Untold
      /\ \A i, j \in queue : i.url = j.url => i = j
  BY DEF HandoffsInv, HandoffsTrue, HandoffsTypeOK, Queued
<1>2. \A i : ItemTrue(i) => ItemTrue(i)'
  BY DEF ItemTrue, TrueOf, InMatch
<1>3. Queued'
  <2>1. \A i \in queue' : ItemTrue(i)' /\ given'[i.url] = Untold
    BY <1>1, <1>2
  <2>2. \A i, j \in queue' : i.url = j.url => i = j
    BY <1>1
  <2>3. \A u \in Urls \ seen' : given'[u] = Untold /\ announced'[u] = Untold
    BY <1>1
  <2> QED
    BY <2>1, <2>2, <2>3 DEF Queued
<1>4. MatchTold'
  BY DEF HandoffsInv, HandoffsTrue, MatchTold, InMatch
<1>5. RunTold'
  BY DEF HandoffsInv, HandoffsTrue, RunTold
<1>6. AnnouncedGiven'
  <2> SUFFICES ASSUME NEW u \in Urls, announced'[u] # Untold
               PROVE  /\ given'[u] \in {Untold, announced'[u]}
                      /\ given'[u] = Untold => \E i \in queue' : i.url = u /\ i.handoff = announced'[u]
    BY DEF AnnouncedGiven
  <2>1. CASE announced'[u] = announced[u]
    BY <2>1 DEF HandoffsInv, HandoffsTrue, AnnouncedGiven
  <2>2. CASE \E i \in new : i.url = u /\ i.handoff = announced'[u]
    BY <1>1, <2>2
  <2> QED
    BY <2>1, <2>2
<1>7. \A i \in queue' \cup working' : i.url \in seen' /\ i.handoff \in Handoff
  BY <1>1
<1> QED
  BY <1>3, <1>4, <1>5, <1>6, <1>7

LEMMA ClassifyKeeps ==
    ASSUME HandoffsInv, NEW type \in PageTypes, NEW next \in {"landing", "hosting", "embedded", "gate"},
           Classify(type, next)
    PROVE  HandoffsInv'
<1>1. /\ where = "classify" /\ class' = type /\ where' = next /\ pending' \subseteq {Root}
      /\ players' \subseteq {Root} /\ (type = "landing" <=> next = "landing")
  BY DEF Classify, Routes, PageTypes
<1>2. /\ matches' = matches /\ extracted' = extracted /\ known' = known /\ seen' = seen
      /\ queue' = queue /\ working' = working /\ buffered' = buffered /\ woken' = woken
      /\ given' = given /\ announced' = announced
  BY DEF Classify, poolSide
<1>3. /\ queue = {} /\ \A u \in Urls : given[u] = Untold /\ announced[u] = Untold
  BY <1>1 DEF HandoffsInv, Early
<1>4. HandoffsTypeOK'
  BY <1>1, <1>2, Handing DEF HandoffsInv, HandoffsTrue, HandoffsTypeOK
<1>5. MatchTold' /\ RunTold' /\ AnnouncedGiven'
  BY <1>2, <1>3 DEF MatchTold, RunTold, AnnouncedGiven
<1>6. Early'
  BY <1>1, <1>2 DEF HandoffsInv, Early
<1>7. Known'
  BY <1>1, <1>2 DEF HandoffsInv, Known
<1>8. Queued' /\ Named'
  BY <1>2, <1>3 DEF HandoffsInv, Queued, Named
<1> QED
  BY <1>4, <1>5, <1>6, <1>7, <1>8 DEF HandoffsInv, HandoffsTrue

LEMMA LandingPageKeeps == ASSUME HandoffsInv, LandingPage PROVE HandoffsInv'
<1>1. /\ where = "landing" /\ where' = "exploring" /\ class' = class /\ matches' = matches
      /\ extracted' = extracted /\ pending' = pending /\ players' = players /\ seen' = seen
      /\ queue' = queue /\ working' = working /\ buffered' = buffered /\ woken' = woken
      /\ given' = given /\ announced' = announced
      /\ known' = [root |-> Root, class |-> class, matches |-> matches]
  BY DEF LandingPage
<1>2. known'.root = Root /\ known'.class = class /\ known'.matches = matches
  BY <1>1
<1>3. queue = {} /\ class = "landing" /\ \A u \in Urls : given[u] = Untold /\ announced[u] = Untold
  BY <1>1 DEF HandoffsInv, Early
<1>4. HandoffsTypeOK'
  BY <1>1, <1>2 DEF HandoffsInv, HandoffsTrue, HandoffsTypeOK
<1>5. MatchTold' /\ RunTold' /\ AnnouncedGiven'
  BY <1>1, <1>3 DEF MatchTold, RunTold, AnnouncedGiven
<1>6. Early' /\ Queued' /\ Named'
  BY <1>1, <1>3 DEF HandoffsInv, Early, Queued, Named
<1>7. Known'
  BY <1>1, <1>2, <1>3, Handing DEF Known, PageTypes
<1> QED
  BY <1>4, <1>5, <1>6, <1>7 DEF HandoffsInv, HandoffsTrue

LEMMA LandingResultsKeeps ==
    ASSUME HandoffsInv, NEW found \in SUBSET Matches, LandingResults(found)
    PROVE  HandoffsInv'
<1>1. /\ where = "exploring" /\ where' \in {"gate", "hosting"} /\ matches' = found
      /\ pending' = {m.url : m \in found} /\ class' = class /\ players' = players
      /\ extracted' = extracted /\ working' = working /\ buffered' = buffered /\ woken' = woken
      /\ given' = given /\ announced' = announced
      /\ known' = [known EXCEPT !.matches = known.matches \cup found]
  BY DEF LandingResults, Registered
<1>2. /\ seen' = seen \cup {m.url : m \in found}
      /\ queue' = queue \cup {Item("hosting", u, Untold) : u \in {m.url : m \in found} \ seen}
  BY DEF LandingResults, Enqueue, Fresh, NoHandoff
<1>3. /\ queue = {} /\ seen = {} /\ woken = {} /\ matches = {} /\ class = "landing"
      /\ \A u \in Urls : given[u] = Untold /\ announced[u] = Untold
  BY <1>1 DEF HandoffsInv, Early
<1>4. {m.url : m \in found} \subseteq Urls
  BY Handing
<1>5. \A i \in queue' : /\ i.role = "hosting" /\ i.handoff = Untold
                        /\ i.url \in seen' /\ i.url \in Urls
                        /\ i = Item("hosting", i.url, Untold)
  BY <1>2, <1>3, <1>4 DEF Item
<1>6. working = {}
  BY <1>3 DEF HandoffsInv, HandoffsTrue, HandoffsTypeOK
<1>7. HandoffsTypeOK'
  <2>1. known'.matches = known.matches \cup found
    BY <1>1 DEF HandoffsInv, HandoffsTrue, HandoffsTypeOK
  <2> QED
    BY <1>1, <1>2, <1>3, <1>4, <1>5, <1>6, <2>1, Handing
    DEF HandoffsInv, HandoffsTrue, HandoffsTypeOK
<1>8. MatchTold' /\ RunTold' /\ AnnouncedGiven'
  BY <1>1, <1>3 DEF MatchTold, RunTold, AnnouncedGiven
<1>9. Early' /\ Named'
  BY <1>1 DEF HandoffsInv, Early, Named
<1>10. Known'
  BY <1>1, <1>3 DEF HandoffsInv, Known
<1>11. Queued'
  <2>1. \A i \in queue' : ItemTrue(i)' /\ given'[i.url] = Untold
    BY <1>1, <1>3, <1>5 DEF ItemTrue
  <2>2. \A i, j \in queue' : i.url = j.url => i = j
    BY <1>5
  <2> QED
    BY <1>1, <1>3, <2>1, <2>2 DEF Queued
<1> QED
  BY <1>7, <1>8, <1>9, <1>10, <1>11 DEF HandoffsInv, HandoffsTrue

\* Past the landing page: what no step of the queues and the nodes changes.
LEMMA LaterKeeps ==
    ASSUME HandoffsInv, class' = class, matches' = matches, known' = known,
           where \notin {"classify", "landing", "exploring"},
           where' \notin {"classify", "landing", "exploring"}
    PROVE  Early' /\ Known'
<1>1. Early'
  BY DEF Early
<1>2. Known'
  BY DEF HandoffsInv, Known
<1> QED
  BY <1>1, <1>2

LEMMA HostingPageKeeps == ASSUME HandoffsInv, HostingPage PROVE HandoffsInv'
<1> DEFINE H(u) == HostingHandoff(Root, class, matches, u)
           new == {Item("hosting", u, H(u)) : u \in pending \ seen}
<1>1. /\ where = "hosting" /\ where' = "hosting drain" /\ class' = class /\ matches' = matches
      /\ extracted' = extracted /\ pending' = pending /\ players' = players /\ known' = known
      /\ working' = working /\ buffered' = buffered /\ woken' = woken /\ given' = given
  BY DEF HostingPage, Prepare
<1>2. /\ seen' = seen \cup pending /\ queue' = queue \cup new
      /\ announced' = [u \in Urls |-> IF u \in pending \ seen THEN H(u) ELSE announced[u]]
  BY DEF HostingPage, Prepare, Enqueue, Fresh
<1>3. pending \subseteq Urls /\ class \in PageTypes \cup {"none"}
      /\ announced \in [Urls -> Handoff] /\ seen \subseteq Urls
  BY DEF HandoffsInv, HandoffsTrue, HandoffsTypeOK
<1>4. \A u \in Urls : H(u) \in Handoff /\ TrueOf(u, H(u))
  <2> SUFFICES ASSUME NEW u \in Urls PROVE H(u) \in Handoff /\ TrueOf(u, H(u))
    OBVIOUS
  <2>1. InMatch(matches, u) \in BOOLEAN /\ H(u) = HostingHandoff(Root, class, matches, u)
    BY DEF InMatch
  <2> HIDE DEF H
  <2>2. /\ H(u) \in Handoff /\ H(u).root = Root /\ H(u).verdict = class
        /\ H(u).match = InMatch(matches, u)
    BY <1>3, <2>1, Handing, HostingTells
  <2> QED
    BY <2>2 DEF TrueOf
<1>5. \A i \in new : \E u \in pending \ seen : i.role = "hosting" /\ i.url = u /\ i.handoff = H(u)
  BY DEF Item
<1>6. \A u \in pending \ seen : Item("hosting", u, H(u)) \in new /\ Item("hosting", u, H(u)).url = u
                                /\ Item("hosting", u, H(u)).handoff = H(u)
  BY DEF Item
<1>7. \A i, j \in new : i.url = j.url => i = j
  BY DEF Item
<1> HIDE DEF new, H
<1>8. \A i \in new : ItemTrue(i) /\ i.url \in Urls \ seen /\ i.handoff \in Handoff /\ i.url \in seen'
  BY <1>2, <1>3, <1>4, <1>5 DEF ItemTrue
<1>9. \A u \in Urls : \/ announced'[u] = announced[u]
                      \/ \E i \in new : i.url = u /\ i.handoff = announced'[u]
  BY <1>2, <1>6
<1>10. /\ Queued' /\ MatchTold' /\ RunTold' /\ AnnouncedGiven'
       /\ \A i \in queue' \cup working' : i.url \in seen' /\ i.handoff \in Handoff
  <2>1. seen \subseteq seen' /\ working' \subseteq working /\ queue' = queue \cup new
    BY <1>1, <1>2
  <2> QED
    BY <1>1, <1>7, <1>8, <1>9, <2>1, QueueGrows
<1>11. HandoffsTypeOK'
  <2>1. announced' \in [Urls -> Handoff]
    BY <1>2, <1>3, <1>4
  <2>2. seen' \subseteq Urls
    BY <1>2, <1>3
  <2> QED
    BY <1>1, <1>10, <2>1, <2>2 DEF HandoffsInv, HandoffsTrue, HandoffsTypeOK
<1>12. Early' /\ Known' /\ Named'
  BY <1>1, LaterKeeps DEF HandoffsInv, Named
<1> QED
  BY <1>10, <1>11, <1>12 DEF HandoffsInv, HandoffsTrue

LEMMA EmbeddedPageKeeps == ASSUME HandoffsInv, EmbeddedPage PROVE HandoffsInv'
<1> DEFINE H(u) == EmbeddedHandoff(Root, matches, extracted, u)
           targets == {u \in players : Allowed(u)}
           new == {Item("embedded", u, H(u)) : u \in targets \ seen}
<1>1. /\ where = "embedded" /\ where' = "embedded drain" /\ class' = class /\ matches' = matches
      /\ extracted' = extracted /\ pending' = pending /\ players' = players /\ known' = known
      /\ working' = working /\ buffered' = buffered /\ woken' = woken /\ given' = given
  BY DEF EmbeddedPage, Prepare
<1>2. /\ seen' = seen \cup targets /\ queue' = queue \cup new
      /\ announced' = [u \in Urls |-> IF u \in targets \ seen THEN H(u) ELSE announced[u]]
  BY DEF EmbeddedPage, Prepare, Enqueue, Fresh
<1>3. players \subseteq Urls /\ announced \in [Urls -> Handoff] /\ seen \subseteq Urls
  BY DEF HandoffsInv, HandoffsTrue, HandoffsTypeOK
<1>4. \A u \in targets : class = "landing" => u \in Players
  BY DEF HandoffsInv, Named, Allowed, Sourced
<1>5. \A u \in targets : H(u) \in Handoff /\ TrueOf(u, H(u))
  <2> SUFFICES ASSUME NEW u \in targets PROVE H(u) \in Handoff /\ TrueOf(u, H(u))
    OBVIOUS
  <2>1. /\ InMatch(matches, u) \in BOOLEAN /\ Sourced(extracted, u) \in BOOLEAN
        /\ H(u) = Told(Root, "none", InMatch(matches, u), Sourced(extracted, u))
    BY DEF InMatch, Sourced, EmbeddedHandoff
  <2> HIDE DEF H
  <2>2. H(u) \in Handoff /\ H(u).root = Root /\ H(u).match = InMatch(matches, u)
    BY <2>1, Handing, Telling
  <2> QED
    BY <1>4, <2>2 DEF TrueOf
<1>6. \A i \in new : \E u \in targets \ seen : i.role = "embedded" /\ i.url = u /\ i.handoff = H(u)
  BY DEF Item
<1>7. \A u \in targets \ seen : Item("embedded", u, H(u)) \in new /\ Item("embedded", u, H(u)).url = u
                                /\ Item("embedded", u, H(u)).handoff = H(u)
  BY DEF Item
<1>8. \A i, j \in new : i.url = j.url => i = j
  BY DEF Item
<1>9. targets \subseteq Urls
  BY <1>3
<1> HIDE DEF new, H, targets
<1>10. \A i \in new : ItemTrue(i) /\ i.url \in Urls \ seen /\ i.handoff \in Handoff /\ i.url \in seen'
  BY <1>2, <1>4, <1>5, <1>6, <1>9 DEF ItemTrue
<1>11. \A u \in Urls : \/ announced'[u] = announced[u]
                       \/ \E i \in new : i.url = u /\ i.handoff = announced'[u]
  BY <1>2, <1>7
<1>12. /\ Queued' /\ MatchTold' /\ RunTold' /\ AnnouncedGiven'
       /\ \A i \in queue' \cup working' : i.url \in seen' /\ i.handoff \in Handoff
  <2>1. seen \subseteq seen' /\ working' \subseteq working /\ queue' = queue \cup new
    BY <1>1, <1>2
  <2> QED
    BY <1>1, <1>8, <1>10, <1>11, <2>1, QueueGrows
<1>13. HandoffsTypeOK'
  <2>1. announced' \in [Urls -> Handoff]
    BY <1>2, <1>3, <1>5
  <2>2. seen' \subseteq Urls
    BY <1>2, <1>3, <1>9
  <2> QED
    BY <1>1, <1>12, <2>1, <2>2 DEF HandoffsInv, HandoffsTrue, HandoffsTypeOK
<1>14. Early' /\ Known' /\ Named'
  BY <1>1, LaterKeeps DEF HandoffsInv, Named
<1> QED
  BY <1>12, <1>13, <1>14 DEF HandoffsInv, HandoffsTrue

\* Nothing is queued and nothing given.
LEMMA QueueStays ==
    ASSUME HandoffsInv, class' = class, matches' = matches, known' = known, seen' = seen,
           queue' = queue, working' \subseteq working, woken' = woken,
           given' = given, announced' = announced,
           pending' \subseteq Urls, players' \subseteq Urls, Named',
           where \notin {"classify", "landing", "exploring"},
           where' \notin {"classify", "landing", "exploring"}
    PROVE  HandoffsInv'
<1>1. /\ Queued' /\ MatchTold' /\ RunTold' /\ AnnouncedGiven'
      /\ \A i \in queue' \cup working' : i.url \in seen' /\ i.handoff \in Handoff
  <2>1. PICK new : new = {}
    OBVIOUS
  <2>2. /\ \A i \in new : ItemTrue(i) /\ i.url \in Urls \ seen /\ i.handoff \in Handoff /\ i.url \in seen'
        /\ \A i, j \in new : i.url = j.url => i = j
        /\ queue' = queue \cup new /\ seen \subseteq seen'
        /\ \A u \in Urls : announced'[u] = announced[u]
    BY <2>1
  <2> HIDE <2>1
  <2> QED
    BY <2>2, QueueGrows
<1>2. HandoffsTypeOK'
  BY <1>1 DEF HandoffsInv, HandoffsTrue, HandoffsTypeOK
<1> QED
  BY <1>1, <1>2, LaterKeeps DEF HandoffsInv, HandoffsTrue

LEMMA NodeKeeps ==
    ASSUME HandoffsInv,
           \/ HostingDrained \/ EmbeddedDrained
           \/ \E pages \in SUBSET (Watch \cup {Root}) : Replan(pages)
    PROVE  HandoffsInv'
<1>1. CASE HostingDrained
  <2>1. /\ where = "hosting drain" /\ where' \in {"embedded", "gate"}
        /\ extracted' = extracted \cup buffered /\ buffered' = {}
        /\ pending' = {} /\ players' = players \cup woken
        /\ class' = class /\ matches' = matches /\ known' = known /\ seen' = seen /\ queue' = queue
        /\ working' = working /\ woken' = woken /\ given' = given /\ announced' = announced
    BY <1>1 DEF HostingDrained
  <2>2. Named' /\ pending' \subseteq Urls /\ players' \subseteq Urls
    BY <2>1 DEF HandoffsInv, Named, HandoffsTrue, HandoffsTypeOK
  <2> QED
    BY <2>1, <2>2, QueueStays
<1>2. CASE EmbeddedDrained
  <2>1. /\ where = "embedded drain" /\ where' = "gate"
        /\ extracted' = extracted /\ buffered' = buffered /\ pending' = pending /\ players' = {}
        /\ class' = class /\ matches' = matches /\ known' = known /\ seen' = seen /\ queue' = queue
        /\ working' = working /\ woken' = woken /\ given' = given /\ announced' = announced
    BY <1>2 DEF EmbeddedDrained, poolSide
  <2>2. Named' /\ pending' \subseteq Urls /\ players' \subseteq Urls
    BY <2>1 DEF HandoffsInv, Named, HandoffsTrue, HandoffsTypeOK
  <2> QED
    BY <2>1, <2>2, QueueStays
<1>3. CASE \E pages \in SUBSET (Watch \cup {Root}) : Replan(pages)
  <2>1. PICK pages \in SUBSET (Watch \cup {Root}) : Replan(pages)
    BY <1>3
  <2>2. /\ where = "gate" /\ where' = "hosting"
        /\ extracted' = extracted /\ buffered' = buffered /\ pending' = pages /\ players' = players
        /\ class' = class /\ matches' = matches /\ known' = known /\ seen' = seen /\ queue' = queue
        /\ working' = working /\ woken' = woken /\ given' = given /\ announced' = announced
    BY <2>1 DEF Replan, poolSide
  <2>3. Named' /\ pending' \subseteq Urls /\ players' \subseteq Urls
    BY <2>2, Handing DEF HandoffsInv, Named, HandoffsTrue, HandoffsTypeOK
  <2> QED
    BY <2>2, <2>3, QueueStays
<1> QED
  BY <1>1, <1>2, <1>3

\* A worker tells what the item says, or what the landing page left.
LEMMA TakesKeeps == ASSUME HandoffsInv, NEW i \in queue, WorkerTakes(i) PROVE HandoffsInv'
<1> DEFINE u == i.url
<1>1. PICK told1 : told1 = IF i.handoff = Untold THEN BuiltHere(i.role, u) ELSE i.handoff
  OBVIOUS
<1>2. /\ queue' = queue \ {i} /\ working' = working \cup {i}
      /\ given' = [given EXCEPT ![u] = told1]
      /\ where' = where /\ class' = class /\ matches' = matches /\ extracted' = extracted
      /\ pending' = pending /\ players' = players /\ known' = known /\ seen' = seen
      /\ buffered' = buffered /\ woken' = woken /\ announced' = announced
  BY <1>1 DEF WorkerTakes, graphSide
<1>3. /\ u \in seen /\ i.handoff \in Handoff /\ seen \subseteq Urls /\ ItemTrue(i) /\ given[u] = Untold
      /\ given \in [Urls -> Handoff] /\ announced \in [Urls -> Handoff]
      /\ \A j \in queue : j.url = u => j = i
  BY DEF HandoffsInv, HandoffsTrue, HandoffsTypeOK, Queued
<1>4. where \notin {"classify", "landing", "exploring"}
  BY DEF HandoffsInv, Early
<1>5. told1 \in Handoff /\ TrueOf(u, told1)
  <2>1. CASE i.handoff # Untold
    BY <1>1, <1>3, <2>1 DEF ItemTrue
  <2>2. CASE i.handoff = Untold
    <3>1. PICK root : root = IF known.root = "none" THEN u ELSE known.root
      OBVIOUS
    <3>2. /\ root \in Urls /\ known.class \in PageTypes \cup {"none"} /\ known.matches = matches
          /\ class = "landing" => root = Root /\ known.class = class
      BY <1>3, <1>4, <3>1, Handing DEF HandoffsInv, Known
    <3>3. InMatch(matches, u) \in BOOLEAN /\ Sourced({}, u) \in BOOLEAN
      BY DEF InMatch, Sourced
    <3>4. CASE i.role = "hosting"
      <4>1. told1 = HostingHandoff(root, known.class, matches, u)
        BY <1>1, <2>2, <3>1, <3>2, <3>4 DEF BuiltHere
      <4>2. /\ told1 \in Handoff /\ told1.root = root /\ told1.verdict = known.class
            /\ told1.match = InMatch(matches, u) /\ told1 # Untold
        BY <3>2, <4>1, HostingTells
      <4> QED
        BY <3>2, <4>2 DEF TrueOf
    <3>5. CASE i.role = "embedded"
      <4>1. told1 = Told(root, "none", InMatch(matches, u), Sourced({}, u))
        BY <1>1, <2>2, <3>1, <3>2, <3>5 DEF BuiltHere, EmbeddedHandoff
      <4>2. /\ told1 \in Handoff /\ told1.root = root
            /\ told1.match = InMatch(matches, u) /\ told1 # Untold
        BY <3>2, <3>3, <4>1, Telling
      <4> QED
        BY <1>3, <3>2, <3>5, <4>2 DEF TrueOf, ItemTrue
    <3> QED
      BY <1>3, <3>4, <3>5 DEF ItemTrue
  <2> QED
    BY <2>1, <2>2
<1> HIDE DEF u
<1>6. /\ given' \in [Urls -> Handoff] /\ given'[u] = told1
      /\ \A v \in Urls : v # u => given'[v] = given[v]
  BY <1>2, <1>3, <1>5
<1>7. HandoffsTypeOK'
  BY <1>2, <1>3, <1>6 DEF HandoffsInv, HandoffsTrue, HandoffsTypeOK
<1>8. MatchTold' /\ RunTold'
  <2> SUFFICES ASSUME NEW v \in Urls, given'[v] # Untold PROVE TrueOf(v, given'[v])
    BY <1>2 DEF MatchTold, RunTold, TrueOf, InMatch
  <2>1. CASE v = u
    BY <1>5, <1>6, <2>1
  <2>2. CASE v # u
    BY <1>6, <2>2 DEF HandoffsInv, HandoffsTrue, MatchTold, RunTold, TrueOf
  <2> QED
    BY <2>1, <2>2
<1>9. AnnouncedGiven'
  <2> SUFFICES ASSUME NEW v \in Urls, announced[v] # Untold
               PROVE  /\ given'[v] \in {Untold, announced[v]}
                      /\ given'[v] = Untold => \E j \in queue' : j.url = v /\ j.handoff = announced[v]
    BY <1>2 DEF AnnouncedGiven
  <2>1. /\ given[v] \in {Untold, announced[v]}
        /\ given[v] = Untold => \E j \in queue : j.url = v /\ j.handoff = announced[v]
    BY DEF HandoffsInv, HandoffsTrue, AnnouncedGiven
  <2>2. CASE v = u
    <3>1. i.handoff = announced[u] /\ i.handoff # Untold
      BY <1>3, <2>1, <2>2
    <3>2. told1 = announced[u]
      BY <1>1, <3>1
    <3> QED
      BY <1>6, <2>2, <3>1, <3>2
  <2>3. CASE v # u
    <3>1. \A j \in queue : j.url = v => j \in queue'
      BY <1>2, <1>3, <2>3 DEF u
    <3> QED
      BY <1>6, <2>1, <2>3, <3>1
  <2> QED
    BY <2>2, <2>3
<1>10. Early' /\ Known' /\ Named'
  BY <1>2, <1>4, LaterKeeps DEF HandoffsInv, Named
<1>11. Queued'
  <2>1. \A j \in queue' : ItemTrue(j)' /\ given'[j.url] = Untold
    <3> SUFFICES ASSUME NEW j \in queue' PROVE ItemTrue(j)' /\ given'[j.url] = Untold
      OBVIOUS
    <3>1. j \in queue /\ j # i /\ j.url # u
      BY <1>2, <1>3
    <3>2. ItemTrue(j) /\ given[j.url] = Untold /\ j.url \in Urls
      BY <1>3, <3>1 DEF HandoffsInv, HandoffsTrue, HandoffsTypeOK, Queued
    <3> QED
      BY <1>2, <1>6, <3>1, <3>2 DEF ItemTrue, TrueOf, InMatch
  <2>2. \A j, k \in queue' : j.url = k.url => j = k
    BY <1>2 DEF HandoffsInv, Queued
  <2>3. \A v \in Urls \ seen' : given'[v] = Untold /\ announced'[v] = Untold
    BY <1>2, <1>3, <1>6 DEF HandoffsInv, Queued
  <2> QED
    BY <2>1, <2>2, <2>3 DEF Queued
<1> QED
  BY <1>7, <1>8, <1>9, <1>10, <1>11 DEF HandoffsInv, HandoffsTrue

LEMMA HostingAnswersKeeps ==
    ASSUME HandoffsInv, NEW i \in working, NEW pages \in SUBSET (Watch \cup {Root}),
           NEW named \in SUBSET Players, NEW asks \in BOOLEAN, HostingAnswers(i, pages, named, asks)
    PROVE  HandoffsInv'
<1>1. PICK wakes : wakes = IF asks THEN named \ (seen \cup pages) ELSE {}
  OBVIOUS
<1>2. PICK more : more = pages \ seen
  OBVIOUS
<1>3. PICK new : new = {Item("hosting", u, Untold) : u \in more}
                       \cup {Item("embedded", u, Untold) : u \in wakes}
  OBVIOUS
<1>4. /\ working' = working \ {i} /\ buffered' = buffered \cup {[url |-> i.url, players |-> named]}
      /\ where' = where /\ class' = class /\ matches' = matches /\ extracted' = extracted
      /\ pending' = pending /\ players' = players /\ known' = known
      /\ given' = given /\ announced' = announced
  BY DEF HostingAnswers, graphSide
<1>5. /\ seen' = seen \cup more \cup wakes
      /\ queue' = queue \cup {Item("hosting", u, Untold) : u \in more}
                        \cup {Item("embedded", u, Untold) : u \in wakes}
      /\ woken' = woken \cup wakes
  BY <1>1, <1>2 DEF HostingAnswers, Fresh
<1>6. /\ more \subseteq Urls \ seen /\ wakes \subseteq Players \ seen /\ wakes \subseteq Urls
      /\ more \cap wakes = {}
  BY <1>1, <1>2, Handing
<1>7. \A j \in new : /\ j.handoff = Untold
                     /\ \/ j.role = "hosting" /\ j.url \in more /\ j = Item("hosting", j.url, Untold)
                        \/ j.role = "embedded" /\ j.url \in wakes /\ j = Item("embedded", j.url, Untold)
  BY <1>3 DEF Item
<1>8. queue' = queue \cup new
  BY <1>3, <1>5
<1>9. where \notin {"classify", "landing", "exploring"}
  BY DEF HandoffsInv, HandoffsTrue, HandoffsTypeOK, Early
<1>10. /\ Queued' /\ MatchTold' /\ RunTold' /\ AnnouncedGiven'
       /\ \A j \in queue' \cup working' : j.url \in seen' /\ j.handoff \in Handoff
  <2>1. \A j \in new : /\ ItemTrue(j) /\ j.url \in Urls \ seen /\ j.handoff \in Handoff
                       /\ j.url \in seen'
    BY <1>5, <1>6, <1>7, Handing DEF ItemTrue
  <2>2. \A j, k \in new : j.url = k.url => j = k
    BY <1>6, <1>7
  <2>3. seen \subseteq seen' /\ working' \subseteq working
    BY <1>4, <1>5
  <2> QED
    BY <1>4, <1>8, <2>1, <2>2, <2>3, QueueGrows
<1>11. HandoffsTypeOK'
  <2>1. seen' \subseteq Urls /\ woken' \subseteq Urls
    BY <1>5, <1>6 DEF HandoffsInv, HandoffsTrue, HandoffsTypeOK
  <2> QED
    BY <1>4, <1>10, <2>1 DEF HandoffsInv, HandoffsTrue, HandoffsTypeOK
<1>12. Named'
  <2>1. i.url \in Urls
    BY DEF HandoffsInv, HandoffsTrue, HandoffsTypeOK
  <2> QED
    BY <1>4, <2>1 DEF HandoffsInv, Named
<1> QED
  BY <1>4, <1>9, <1>10, <1>11, <1>12, LaterKeeps DEF HandoffsInv, HandoffsTrue

\* However agents answer and pages are found, an agent is told what the landing
\* page said of its target, of the run, and what the trace shows as prepared
\* (handoffs.py, RunPools._run_agent, the nodes of orchestrator.py).
THEOREM HandoffsAreTrue == HandoffsSpec => []HandoffsTrue
<1>1. HandoffsInv /\ [HandoffsNext]_hoVars => HandoffsInv'
  <2> SUFFICES ASSUME HandoffsInv, [HandoffsNext]_hoVars PROVE HandoffsInv'
    OBVIOUS
  <2>1. CASE \E type \in PageTypes, next \in {"landing", "hosting", "embedded", "gate"} :
               Classify(type, next)
    BY <2>1, ClassifyKeeps
  <2>2. CASE LandingPage
    BY <2>2, LandingPageKeeps
  <2>3. CASE \E found \in SUBSET Matches : LandingResults(found)
    BY <2>3, LandingResultsKeeps
  <2>4. CASE HostingPage \/ EmbeddedPage
    BY <2>4, HostingPageKeeps, EmbeddedPageKeeps
  <2>5. CASE \/ HostingDrained \/ EmbeddedDrained
             \/ \E pages \in SUBSET (Watch \cup {Root}) : Replan(pages)
    BY <2>5, NodeKeeps
  <2>6. CASE \E i \in queue : WorkerTakes(i)
    BY <2>6, TakesKeeps
  <2>7. CASE \E i \in working : EmbeddedAnswers(i)
    <3>1. PICK i \in working : EmbeddedAnswers(i)
      BY <2>7
    <3>2. /\ working' = working \ {i} /\ where' = where /\ extracted' = extracted
          /\ buffered' = buffered /\ pending' = pending /\ players' = players
          /\ class' = class /\ matches' = matches /\ known' = known /\ seen' = seen
          /\ queue' = queue /\ woken' = woken /\ given' = given /\ announced' = announced
      BY <3>1 DEF EmbeddedAnswers, graphSide
    <3>3. /\ where \notin {"classify", "landing", "exploring"} /\ Named'
          /\ pending' \subseteq Urls /\ players' \subseteq Urls
      BY <3>2 DEF HandoffsInv, HandoffsTrue, HandoffsTypeOK, Early, Named
    <3> QED
      BY <3>2, <3>3, QueueStays
  <2>8. CASE \E i \in working, pages \in SUBSET (Watch \cup {Root}), named \in SUBSET Players,
                asks \in BOOLEAN : HostingAnswers(i, pages, named, asks)
    BY <2>8, HostingAnswersKeeps
  <2>9. CASE UNCHANGED hoVars
    <3>1. /\ where' = where /\ class' = class /\ matches' = matches /\ extracted' = extracted
          /\ pending' = pending /\ players' = players /\ known' = known /\ seen' = seen
          /\ queue' = queue /\ working' = working /\ buffered' = buffered /\ woken' = woken
          /\ announced' = announced /\ given' = given
      BY <2>9 DEF hoVars, graphSide, poolSide
    <3>2. HandoffsTypeOK' /\ MatchTold' /\ RunTold' /\ AnnouncedGiven'
      BY <3>1 DEF HandoffsInv, HandoffsTrue, HandoffsTypeOK, MatchTold, RunTold, AnnouncedGiven, InMatch
    <3>3. Early' /\ Known' /\ Named'
      BY <3>1 DEF HandoffsInv, Early, Known, Named
    <3>4. Queued'
      BY <3>1 DEF HandoffsInv, Queued, ItemTrue, TrueOf, InMatch
    <3> QED
      BY <3>2, <3>3, <3>4 DEF HandoffsInv, HandoffsTrue
  <2> QED
    BY <2>1, <2>2, <2>3, <2>4, <2>5, <2>6, <2>7, <2>8, <2>9 DEF HandoffsNext
<1>2. HandoffsInv => HandoffsTrue
  BY DEF HandoffsInv
<1> QED
  BY <1>1, <1>2, HandoffsStart, PTL DEF HandoffsSpec
=============================================================================
