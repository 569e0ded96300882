------------------------------ MODULE PageTools ------------------------------
(***************************************************************************)
(* The tools that act on a page: navigate, inspect, interact and wait of   *)
(* src/tools/playwright/tools, with the modules they share: the epoch of   *)
(* the DOM (runtime/page-state.js), the chain of locators                  *)
(* (runtime/locator-engine.js) and the ledger of requests                  *)
(* (runtime/network-ledger.js).  The page goes on by itself meanwhile.     *)
(*                                                                         *)
(* The tools are called with a session, as their tests call them; what     *)
(* tool-registry.js hands over instead is in `Wired`.  A document is       *)
(* the order of its elements and those that are shown.  Elements of other  *)
(* frames, screenshots and the contents of summaries are left out.         *)
(***************************************************************************)
EXTENDS Integers, Sequences, SequencesExt, FiniteSets

CONSTANTS
  Tabs, TabProfile,  \* sessions and the profile of each
  EarlierProfiles,   \* profiles of the sessions that this process served before
  Addresses,         \* addresses that may be loaded
  Elements,          \* elements of documents
  Layouts,           \* documents: [order, shown]
  Selections,        \* what an inspection may ask for: sets of elements
  PageUrls,          \* what a page may request
  EntryCap,          \* MAX_ENTRIES of the ledger
  InspectCap,        \* answers in the cache of inspect
  WaitLimit,         \* repeated_tool_call_limit
  Wired,             \* the tools are handed their session
  MaxEpoch, MaxLoads, MaxRequests  \* bounds of the counters, per tab

VARIABLES
  tabUrl, tabLoad,   \* address of each tab; number of documents loaded so far
  layout,            \* its document
  ids,               \* data-owc-id of its elements, 0 for none
  observed,          \* the observer of mutations is there
  epoch, timer,      \* dom_epoch; a notification is due in 200 ms
  answers,           \* inspectCache, oldest first
  held,              \* the last two answers of each agent
  call,              \* the interaction in progress
  ledger, unanswered, \* entries; requests that are not answered
  requests,          \* number of requests so far of each page
  waits,             \* consecutiveWaitCalls
  unserved,          \* waits that were served since the last refusal (history)
  numbering          \* whether the document was inspected: "no", "once", "again" (history)

tabVars == <<tabUrl, tabLoad, layout, ids, observed, epoch, timer, answers, held, call, ledger, unanswered,
             requests, waits, unserved, numbering>>
pageVars == <<tabUrl, tabLoad, layout, ids, observed, numbering>>
netVars == <<ledger, unanswered, requests>>

ASSUME PageAssumption ==
  /\ EntryCap \in Nat \ {0} /\ InspectCap \in Nat \ {0} /\ WaitLimit \in Nat
  /\ Wired \in BOOLEAN /\ IsFiniteSet(Elements) /\ \A view \in Selections : view \subseteq Elements
  /\ \A d \in Layouts :
       d.order \in Seq(Elements) /\ IsInjective(d.order) /\ d.shown \subseteq ToSet(d.order)
  /\ MaxEpoch \in [Tabs -> Nat] /\ MaxLoads \in [Tabs -> Nat] /\ MaxRequests \in [Tabs -> Nat]

NoCall == [phase |-> "idle"]
InProgress == {"begun", "checked", "located", "acted"}
Answered(said) == [phase |-> "answered", said |-> said]
Unstamped == [e \in Elements |-> 0]

-----------------------------------------------------------------------------
(* Answers of inspect.                                                     *)

\* computeStateId: the digest of address and epoch
StateOf(t) == <<tabUrl[t], epoch[t]>>
InspectKey(profile, view, state) == <<profile, view, state>>

\* extractElementsView counts what the selector finds, in the document's order,
\* and stamps what is shown with its number.
Rank(d, view, e) ==
  Cardinality({f \in view : \E i, j \in DOMAIN d.order : i <= j /\ d.order[i] = f /\ d.order[j] = e})
Candidates(d, view) == {[id |-> Rank(d, view, e), meant |-> e] : e \in view \cap d.shown}
AnswerOf(state, d, view, doc, seen) ==
  [state |-> state, candidates |-> Candidates(d, view), doc |-> doc, order |-> d.order, seen |-> seen]
RankShown(d, view, e) == Rank(d, view \cap d.shown, e)
StampedByShown(t, view) ==                          \* mutant of Stamped
  [e \in Elements |->
     IF e \in view \cap layout[t].shown THEN RankShown(layout[t], view, e) ELSE ids[t][e]]
Stamped(t, view) ==
  [e \in Elements |-> IF e \in view \cap layout[t].shown THEN Rank(layout[t], view, e) ELSE ids[t][e]]

\* The document in a tab.
Doc(t) == <<t, tabLoad[t]>>

\* The cache is one for the process; a session may have filled it before.
EarlierAnswers ==
  {<<[key |-> InspectKey(p, view, <<u, 0>>), answer |-> AnswerOf(<<u, 0>>, d, view, <<>>, TRUE)]>> :
     p \in EarlierProfiles, view \in Selections, u \in Addresses, d \in Layouts}

TabInit ==
  /\ tabUrl \in [Tabs -> Addresses] /\ tabLoad = [t \in Tabs |-> 0]
  /\ layout \in [Tabs -> Layouts] /\ ids = [t \in Tabs |-> Unstamped] /\ observed \in [Tabs -> BOOLEAN]
  /\ epoch = [t \in Tabs |-> 0] /\ timer = [t \in Tabs |-> FALSE]
  /\ answers \in {<<>>} \cup EarlierAnswers /\ held = [t \in Tabs |-> <<>>]
  /\ call = [t \in Tabs |-> NoCall]
  /\ ledger = [t \in Tabs |-> <<>>] /\ unanswered = [t \in Tabs |-> {}] /\ requests = [t \in Tabs |-> 0]
  /\ waits = [t \in Tabs |-> 0]
  /\ unserved = [t \in Tabs |-> 0] /\ numbering = [t \in Tabs |-> "no"]

\* Without its session a tool has no page: getPage refers to a `context` that
\* is not declared, and every tool answers with an error.
Reached(t) == Wired /\ call[t] = NoCall

-----------------------------------------------------------------------------
(* The page by itself.                                                     *)

\* A new document has no stamps and no observer, and the timer of the old one
\* dies with it.
Loaded(t, u, d) ==
  /\ tabLoad[t] < MaxLoads[t]
  /\ tabUrl' = [tabUrl EXCEPT ![t] = u] /\ tabLoad' = [tabLoad EXCEPT ![t] = @ + 1]
  /\ layout' = [layout EXCEPT ![t] = d] /\ ids' = [ids EXCEPT ![t] = Unstamped]
  /\ observed' = [observed EXCEPT ![t] = FALSE] /\ timer' = [timer EXCEPT ![t] = FALSE]
  /\ numbering' = [numbering EXCEPT ![t] = "no"]

PageMoves(t, u, d) ==
  /\ Loaded(t, u, d)
  /\ UNCHANGED <<epoch, answers, held, call, netVars, waits, unserved>>

\* DOMContentLoaded: the observer starts.  A navigation may have returned before, with
\* wait_until "commit" or on a timeout.
Observe(t) ==
  /\ ~observed[t] /\ observed' = [observed EXCEPT ![t] = TRUE]
  /\ UNCHANGED <<tabUrl, tabLoad, layout, ids, numbering, epoch, timer, answers, held, call, netVars, waits,
                unserved>>

\* Elements come and go; those that stay keep their stamps.
PageChanges(t, d) ==
  /\ d.order # layout[t].order /\ (observed[t] => epoch[t] < MaxEpoch[t])
  /\ layout' = [layout EXCEPT ![t] = d]
  /\ ids' = [ids EXCEPT ![t] =
       [e \in Elements |-> IF {e} \subseteq ToSet(d.order) \cap ToSet(layout[t].order) THEN @[e] ELSE 0]]
  /\ timer' = [timer EXCEPT ![t] = @ \/ observed[t]]
  /\ UNCHANGED <<tabUrl, tabLoad, observed, numbering, epoch, answers, held, call, netVars, waits, unserved>>

\* A change of style or class shows and hides elements and is not a mutation.
PageHides(t, d) ==
  /\ d.order = layout[t].order /\ d # layout[t]
  /\ layout' = [layout EXCEPT ![t] = d]
  /\ UNCHANGED <<tabUrl, tabLoad, ids, observed, numbering, epoch, timer, answers, held, call, netVars, waits,
                unserved>>

Notify(t) ==
  /\ timer[t]
  /\ timer' = [timer EXCEPT ![t] = FALSE] /\ epoch' = [epoch EXCEPT ![t] = @ + 1]
  /\ UNCHANGED <<pageVars, answers, held, call, netVars, waits, unserved>>

-----------------------------------------------------------------------------
(* The ledger of requests.                                                 *)

AddEntry(entries, entry) ==
  IF Len(entries) + 1 > EntryCap THEN Tail(Append(entries, entry)) ELSE Append(entries, entry)

Matching(entries, u) == {i \in DOMAIN entries : entries[i].url = u}
LastOne(S) == CHOOSE i \in S : \A j \in S : j <= i

Request(t, u) ==
  /\ requests[t] < MaxRequests[t] /\ requests' = [requests EXCEPT ![t] = @ + 1]
  /\ unanswered' = [unanswered EXCEPT ![t] = @ \cup {<<requests[t], u>>}]
  /\ ledger' = [ledger EXCEPT ![t] = AddEntry(@, [url |-> u, status |-> "none"])]
  /\ call' = [call EXCEPT ![t] = IF @.phase \in InProgress THEN [@ EXCEPT !.requested = TRUE] ELSE @]
  /\ UNCHANGED <<pageVars, epoch, timer, answers, held, waits, unserved>>

\* An answer goes to the last entry of its address, or makes one.
Respond(t, r) ==
  LET same == Matching(ledger[t], r[2])
  IN  /\ r \in unanswered[t] /\ unanswered' = [unanswered EXCEPT ![t] = @ \ {r}]
      /\ ledger' = [ledger EXCEPT ![t] =
           IF same = {} THEN AddEntry(@, [url |-> r[2], status |-> "answered"])
           ELSE [@ EXCEPT ![LastOne(same)].status = "answered"]]
      /\ UNCHANGED <<pageVars, epoch, timer, answers, held, call, requests, waits, unserved>>

Fail(t, r) ==
  LET same == Matching(ledger[t], r[2])
  IN  /\ r \in unanswered[t] /\ unanswered' = [unanswered EXCEPT ![t] = @ \ {r}]
      /\ ledger' = [ledger EXCEPT ![t] = IF same = {} THEN @ ELSE [@ EXCEPT ![LastOne(same)].status = "failed"]]
      /\ UNCHANGED <<pageVars, epoch, timer, answers, held, call, requests, waits, unserved>>

-----------------------------------------------------------------------------
(* navigate and inspect.                                                   *)

Navigate(t, u, d) ==
  /\ Reached(t) /\ Loaded(t, u, d)
  /\ UNCHANGED <<epoch, answers, held, call, netVars, waits, unserved>>

Tell(t, answer) ==
  held' = [held EXCEPT ![t] = Append(IF Len(@) < 2 THEN @ ELSE Tail(@), answer)]

InspectAgain(t, view) ==
  /\ Reached(t)
  /\ \E i \in DOMAIN answers :
       answers[i].key = InspectKey(TabProfile[t], view, StateOf(t)) /\ Tell(t, answers[i].answer)
  /\ UNCHANGED <<pageVars, epoch, timer, answers, call, netVars, waits, unserved>>

\* The stamps are attributes, so that stamping is a mutation of its own.
Inspect(t, view) ==
  LET answer == AnswerOf(StateOf(t), layout[t], view, Doc(t), observed[t])
      more == Append(answers, [key |-> InspectKey(TabProfile[t], view, StateOf(t)), answer |-> answer])
  IN  /\ Reached(t) /\ (observed[t] => epoch[t] < MaxEpoch[t])
      /\ \A i \in DOMAIN answers : answers[i].key # InspectKey(TabProfile[t], view, StateOf(t))
      /\ answers' = IF Len(more) > InspectCap THEN Tail(more) ELSE more
      /\ Tell(t, answer)
      /\ ids' = [ids EXCEPT ![t] = Stamped(t, view)]
      /\ timer' = [timer EXCEPT ![t] = @ \/ (observed[t] /\ view \cap layout[t].shown # {})]
      /\ numbering' = [numbering EXCEPT ![t] = IF @ = "no" THEN "once" ELSE "again"]
      /\ UNCHANGED <<tabUrl, tabLoad, layout, observed, epoch, call, netVars, waits, unserved>>

-----------------------------------------------------------------------------
(* interact.                                                               *)

IsStale(t, state) == state # StateOf(t)

Carries(t, id) == {e \in ToSet(layout[t].order) : ids[t][e] = id}

\* What to compare with later is read before the candidate is looked for.
Interact(t, answer, c, expected) ==
  /\ Reached(t) /\ answer \in ToSet(held[t]) /\ c \in answer.candidates
  /\ call' = [call EXCEPT ![t] =
       [phase |-> "begun", id |-> c.id, meant |-> c.meant, state |-> answer.state, by |-> "none", on |-> "",
        expected |-> expected, sole |-> answer.doc = Doc(t) /\ numbering[t] = "once",
        url |-> tabUrl[t], epoch |-> epoch[t], count |-> Len(ledger[t]), requested |-> FALSE]]
  /\ UNCHANGED <<pageVars, epoch, timer, answers, held, netVars, waits, unserved>>

\* resolve: a stale candidate is refused.
Check(t) ==
  /\ call[t].phase = "begun"
  /\ call' = [call EXCEPT ![t] =
       IF IsStale(t, call[t].state) THEN Answered("not located") ELSE [@ EXCEPT !.phase = "checked"]]
  /\ UNCHANGED <<pageVars, epoch, timer, answers, held, netVars, waits, unserved>>

\* It is taken if one element carries it.  If none does, an id, role, selector, text
\* or point that the caller gave besides may find one element or none.
Found(t, by) == call' = [call EXCEPT ![t] = [@ EXCEPT !.phase = "located", !.by = by]]
Locate(t) ==
  LET carriers == Carries(t, call[t].id)
  IN  /\ call[t].phase = "checked"
      /\ \/ Cardinality(carriers) = 1 /\ Found(t, "stamp")
         \/ carriers = {} /\ Found(t, "other")
         \/ Cardinality(carriers) # 1 /\ call' = [call EXCEPT ![t] = Answered("not located")]
      /\ UNCHANGED <<pageVars, epoch, timer, answers, held, netVars, waits, unserved>>

\* The locator is evaluated again when it is used: what carries the stamp, or
\* whatever the other one finds by then; a point may be on no element.
Targets(t) == IF call[t].by = "stamp" THEN Carries(t, call[t].id) ELSE ToSet(layout[t].order) \cup {""}
Act(t) ==
  /\ call[t].phase = "located"
  /\ \/ call' = [call EXCEPT ![t] = Answered("failed")]
     \/ \E e \in Targets(t) : call' = [call EXCEPT ![t] = [@ EXCEPT !.phase = "acted", !.on = e]]
  /\ UNCHANGED <<pageVars, epoch, timer, answers, held, netVars, waits, unserved>>

Changes(t) ==
  (IF tabUrl[t] # call[t].url THEN {"navigation"} ELSE {})
  \cup (IF epoch[t] > call[t].epoch THEN {"dom"} ELSE {})
  \cup (IF Len(ledger[t]) > call[t].count THEN {"network"} ELSE {})

Verify(t) ==
  LET want == IF call[t].expected = "auto" THEN {"navigation", "dom", "network"} ELSE {call[t].expected}
      verified == Changes(t) \cap want # {}
  IN  /\ call[t].phase = "acted"
      /\ call' = [call EXCEPT ![t] = Answered(IF verified THEN "verified" ELSE "unverified")]
      /\ UNCHANGED <<pageVars, epoch, timer, answers, held, netVars, waits, unserved>>

Return(t) ==
  /\ call[t].phase = "answered" /\ call' = [call EXCEPT ![t] = NoCall]
  /\ UNCHANGED <<pageVars, epoch, timer, answers, held, netVars, waits, unserved>>

-----------------------------------------------------------------------------
(* wait: a page is waited for at most WaitLimit times before a refusal.    *)
WaitCount(n) == n + 1

Wait(t) ==
  /\ Reached(t)
  /\ LET n == WaitCount(waits[t])
     IN  /\ waits' = [waits EXCEPT ![t] = IF n > WaitLimit THEN 0 ELSE n]
         /\ unserved' = [unserved EXCEPT ![t] = IF n > WaitLimit THEN 0 ELSE IF @ > WaitLimit THEN @ ELSE @ + 1]
  /\ UNCHANGED <<pageVars, epoch, timer, answers, held, call, netVars>>

TabNext ==
  \E t \in Tabs :
    \/ \E u \in Addresses, d \in Layouts : PageMoves(t, u, d) \/ Navigate(t, u, d)
    \/ \E d \in Layouts : PageChanges(t, d) \/ PageHides(t, d)
    \/ Observe(t) \/ Notify(t)
    \/ \E u \in PageUrls : Request(t, u)
    \/ \E r \in unanswered[t] : Respond(t, r) \/ Fail(t, r)
    \/ \E view \in Selections : Inspect(t, view) \/ InspectAgain(t, view)
    \/ \E answer \in ToSet(held[t]) : \E c \in answer.candidates :
         \E x \in {"auto", "network"} : Interact(t, answer, c, x)
    \/ Check(t) \/ Locate(t) \/ Act(t) \/ Verify(t) \/ Return(t) \/ Wait(t)

TabSpec == TabInit /\ [][TabNext]_tabVars

-----------------------------------------------------------------------------
(* Types: an answer names a candidate once, a stamp is no larger than the  *)
(* document, and what is pending was requested.                            *)
TabTypeOK ==
  /\ \A t \in Tabs :
       /\ tabUrl[t] \in Addresses /\ layout[t] \in Layouts /\ epoch[t] \in 0..MaxEpoch[t]
       /\ \A e \in Elements : ids[t][e] <= Cardinality(Elements)
       /\ Len(ledger[t]) <= EntryCap /\ Cardinality(unanswered[t]) <= requests[t]
       /\ \A i \in DOMAIN held[t] : \A c, d \in held[t][i].candidates : c.id = d.id => c = d
  /\ Len(answers) <= InspectCap

(* An interaction by candidate acts on the element that the inspection     *)
(* named so, whatever the page did in between and however many answers the *)
(* agent holds.  Only when no element carries the number any more does it  *)
(* act on another, by what the caller gave besides, or on none             *)
(* (locator-engine.js:47-166).  A document that was inspected a second     *)
(* time is excepted: elements are numbered anew, and until the epoch       *)
(* advances the older number passes as fresh.                              *)
ActsOnNamed ==
  \A t \in Tabs : call[t].phase = "acted" =>
    IF call[t].by = "stamp" THEN call[t].sole => call[t].on = call[t].meant ELSE Carries(t, call[t].id) = {}

(* Once the page has settled, an answer from before elements came or went  *)
(* is stale: no mutation of the document is lost between the observer, its *)
(* timer and the epoch (page-state.js:30-80).  What was read before the    *)
(* observer was there, which is until DOMContentLoaded, is excepted: what  *)
(* comes or goes until then is never noticed.                              *)
SettledIsSeen ==
  \A t \in Tabs : \A i \in DOMAIN held[t] :
    LET a == held[t][i]
    IN  ~timer[t] /\ a.doc = Doc(t) /\ a.seen /\ a.order # layout[t].order => IsStale(t, a.state)

(* A request that is begun while an interaction is in progress is noticed  *)
(* when its effect is verified, unless the ledger was full before: then    *)
(* its length cannot tell (interact.js:97, 212).                           *)
NetworkNoticed ==
  \A t \in Tabs :
    call[t].phase = "acted" /\ call[t].requested /\ call[t].count < EntryCap => "network" \in Changes(t)

(* An agent that does nothing but wait is told so: no more than WaitLimit  *)
(* waits of one page are served between two refusals (wait.js:76-93).      *)
WaitsBounded == \A t \in Tabs : unserved[t] <= WaitLimit

(* The tools act on what was named and notice what the page does meanwhile. *)
ToolsSafe == TabTypeOK /\ ActsOnNamed /\ SettledIsSeen /\ NetworkNoticed /\ WaitsBounded
=============================================================================
