------------------------------ MODULE Handoffs ------------------------------
(***************************************************************************)
(* What a page agent is told of its target.  The nodes of the graph build  *)
(* a handoff from the state of the graph and queue it with the target; a   *)
(* target queued without one, by the landing node or by a worker, gets its *)
(* handoff from the worker that takes it, built from what the producers    *)
(* have left with the pools.  A target is queued once: a handoff built for *)
(* one that is queued already is dropped.                                  *)
(*                                                                         *)
(* A handoff is what it tells: the root page, the verdict, whether the     *)
(* landing page's match is in it, and whether the hosting page that led to *)
(* a player is.  Cancellation and failing agents only leave agents out.    *)
(***************************************************************************)
EXTENDS Naturals

CONSTANTS
    Root,    \* the page of the run
    Watch,   \* other pages with players
    Players, \* players embedded in pages
    MaxReplans

Urls == {Root} \cup Watch \cup Players

ASSUME HandoffsAssumption ==
    Root \notin Watch \cup Players /\ Watch \cap Players = {} /\ "none" \notin Urls

VARIABLES
    where,     \* the node: "classify", "landing", "exploring", "hosting", "hosting drain", ...
    class,     \* page type of the classification in the state of the graph
    matches,   \* its matches: a page and the players the landing page names with it
    extracted, \* its hosting results: a page and the players it named
    pending,   \* pending_hosting_urls
    players,   \* pending_embedded_urls
    known,     \* handoff_state of the pools
    seen,      \* seen_urls of the pools
    queue,     \* queued items
    working,   \* targets that agents are at work on
    buffered,  \* hosting results the graph has not folded yet
    woken,     \* embedded_enqueued_urls
    announced, \* the handoffs the trace calls prepared and newly queued
    given,     \* the handoffs the agents got
    replanned

graphSide == <<where, class, matches, extracted, pending, players, replanned>>
poolSide  == <<known, seen, queue, working, buffered, woken, given>>
hoVars == <<graphSide, poolSide, announced>>

Told(root, verdict, match, source) ==
    [root |-> root, verdict |-> verdict, match |-> match, source |-> source]
Untold == Told("none", "none", FALSE, FALSE)

HandoffsInit ==
    /\ where = "classify" /\ class = "none" /\ matches = {} /\ extracted = {}
    /\ pending = {} /\ players = {} /\ replanned = 0
    /\ known = [root |-> "none", class |-> "none", matches |-> {}]
    /\ seen = {} /\ queue = {} /\ working = {} /\ buffered = {} /\ woken = {}
    /\ announced = [u \in Urls |-> Untold] /\ given = [u \in Urls |-> Untold]

-----------------------------------------------------------------------------
(* Building.                                                               *)

\* _match_for_url, _match_containing_handoff_url
InMatch(ms, u) == \E m \in ms : u = m.url \/ u \in m.players

\* _latest_hosting_context_for_embedded
Sourced(results, u) == \E r \in results : u \in r.players

\* _build_hosting_handoff
HostingHandoff(root, verdict, ms, u) == Told(root, verdict, InMatch(ms, u), FALSE)

\* _build_embedded_handoff, which does not tell the verdict
EmbeddedHandoff(root, ms, results, u) == Told(root, "none", InMatch(ms, u), Sourced(results, u))

\* RunPools.enqueue of several targets with their handoffs.
Item(role, u, handoff) == [role |-> role, url |-> u, handoff |-> handoff]
Fresh(targets) == targets \ seen
Enqueue(role, targets, Handoff(_)) ==
    /\ seen' = seen \cup targets
    /\ queue' = queue \cup {Item(role, u, Handoff(u)) : u \in Fresh(targets)}

NoHandoff(u) == Untold

-----------------------------------------------------------------------------
(* The nodes.                                                              *)

\* classify_node, its router, and the nodes that queue the root: a player that
\* looks like the shell of a site goes to the hosting agent.
Routes(type) ==
    CASE type \in {"landing", "hosting"} -> {type}
      [] type = "embedded" -> {"embedded", "hosting"}
      [] OTHER -> {"gate"}

Classify(type, next) ==
    /\ where = "classify" /\ next \in Routes(type)
    /\ class' = type /\ where' = next
    /\ pending' = (IF next = "hosting" THEN {Root} ELSE {})
    /\ players' = (IF next = "embedded" THEN {Root} ELSE {})
    /\ UNCHANGED <<matches, extracted, replanned, poolSide, announced>>

\* RunPools.set_handoff_context, before the landing agent runs.
LandingPage ==
    /\ where = "landing" /\ where' = "exploring"
    /\ known' = [root |-> Root, class |-> class, matches |-> matches]
    /\ UNCHANGED <<class, matches, extracted, pending, players, replanned, seen, queue, working,
                   buffered, woken, given, announced>>

\* The agent has answered: every match is registered, then queued.
RegisteredNever(found) == known.matches   \* mutant: the graph's state will tell
Registered(found) == known.matches \cup found
LandingResults(found) ==
    /\ where = "exploring" /\ where' = (IF found = {} THEN "gate" ELSE "hosting")
    /\ matches' = found
    /\ pending' = {m.url : m \in found}
    /\ known' = [known EXCEPT !.matches = Registered(found)]
    /\ Enqueue("hosting", {m.url : m \in found}, NoHandoff)
    /\ UNCHANGED <<class, extracted, players, replanned, working, buffered, woken, given, announced>>

Prepare(role, targets, Handoff(_)) ==
    /\ Enqueue(role, targets, Handoff)
    /\ announced' = [u \in Urls |-> IF u \in Fresh(targets) THEN Handoff(u) ELSE announced[u]]
    /\ UNCHANGED <<class, matches, extracted, pending, players, replanned,
                   known, working, buffered, woken, given>>

HostingPage ==
    /\ where = "hosting" /\ where' = "hosting drain"
    /\ LET Handoff(u) == HostingHandoff(Root, class, matches, u)
       IN Prepare("hosting", pending, Handoff)

\* _embedded_target_allowed
Allowed(u) == Sourced(extracted, u) \/ (class = "embedded" /\ u = Root)

EmbeddedPage ==
    /\ where = "embedded" /\ where' = "embedded drain"
    /\ LET Handoff(u) == EmbeddedHandoff(Root, matches, extracted, u)
       IN Prepare("embedded", {u \in players : Allowed(u)}, Handoff)

Idle(role) == \A i \in queue \cup working : i.role # role

\* wait_until_drained and consume_results, then the router.
HostingDrained ==
    /\ where = "hosting drain" /\ Idle("hosting")
    /\ extracted' = extracted \cup buffered /\ buffered' = {}
    /\ pending' = {} /\ players' = players \cup woken
    /\ where' = (IF players' # {} THEN "embedded" ELSE "gate")
    /\ UNCHANGED <<class, matches, replanned, known, seen, queue, working, woken, given, announced>>

EmbeddedDrained ==
    /\ where = "embedded drain" /\ Idle("embedded")
    /\ players' = {} /\ where' = "gate"
    /\ UNCHANGED <<class, matches, extracted, pending, replanned, poolSide, announced>>

\* The evidence gate may put pages back.
Replan(pages) ==
    /\ where = "gate" /\ replanned < MaxReplans /\ pages # {}
    /\ pages \subseteq {r.url : r \in extracted}
    /\ replanned' = replanned + 1 /\ pending' = pages /\ where' = "hosting"
    /\ UNCHANGED <<class, matches, extracted, players, poolSide, announced>>

-----------------------------------------------------------------------------
(* The workers.                                                            *)

\* RunPools._run_agent
BuiltHere(role, u) ==
    LET root == IF known.root = "none" THEN u ELSE known.root IN
    IF role = "hosting" THEN HostingHandoff(root, known.class, known.matches, u)
    ELSE EmbeddedHandoff(root, known.matches, {}, u)

WorkerTakes(i) ==
    /\ i \in queue
    /\ queue' = queue \ {i} /\ working' = working \cup {i}
    /\ given' = [given EXCEPT ![i.url] =
                    IF i.handoff = Untold THEN BuiltHere(i.role, i.url) ELSE i.handoff]
    /\ UNCHANGED <<graphSide, known, seen, buffered, woken, announced>>

\* _post_process_hosting: pages of the same event, and players when the answer
\* asks for the embedded pool.
HostingAnswers(i, pages, named, asks) ==
    /\ i \in working /\ i.role = "hosting"
    /\ working' = working \ {i}
    /\ buffered' = buffered \cup {[url |-> i.url, players |-> named]}
    /\ LET wakes == IF asks THEN named \ (seen \cup pages) ELSE {}
           more  == Fresh(pages)
       IN /\ seen' = seen \cup more \cup wakes
          /\ queue' = queue \cup {Item("hosting", u, Untold) : u \in more}
                            \cup {Item("embedded", u, Untold) : u \in wakes}
          /\ woken' = woken \cup wakes
    /\ UNCHANGED <<graphSide, known, given, announced>>

EmbeddedAnswers(i) ==
    /\ i \in working /\ i.role = "embedded"
    /\ working' = working \ {i}
    /\ UNCHANGED <<graphSide, known, seen, queue, buffered, woken, given, announced>>

PageTypes == {"landing", "hosting", "embedded", "unknown"}
Matches == [url : Watch, players : SUBSET Players]

HandoffsNext ==
    \/ \E type \in PageTypes, next \in {"landing", "hosting", "embedded", "gate"} :
          Classify(type, next)
    \/ LandingPage \/ (\E found \in SUBSET Matches : LandingResults(found))
    \/ HostingPage \/ HostingDrained \/ EmbeddedPage \/ EmbeddedDrained
    \/ \E pages \in SUBSET (Watch \cup {Root}) : Replan(pages)
    \/ \E i \in queue : WorkerTakes(i)
    \/ \E i \in working : EmbeddedAnswers(i)
    \/ \E i \in working, pages \in SUBSET (Watch \cup {Root}), named \in SUBSET Players, asks \in BOOLEAN :
          HostingAnswers(i, pages, named, asks)

HandoffsSpec == HandoffsInit /\ [][HandoffsNext]_hoVars

-----------------------------------------------------------------------------
Handoff == [root : Urls \cup {"none"}, verdict : PageTypes \cup {"none"},
            match : BOOLEAN, source : BOOLEAN]

HandoffsTypeOK ==
    /\ class \in PageTypes \cup {"none"}
    /\ matches \subseteq Matches /\ known.matches \subseteq Matches
    /\ pending \subseteq Urls /\ players \subseteq Urls /\ seen \subseteq Urls /\ woken \subseteq Urls
    /\ announced \in [Urls -> Handoff] /\ given \in [Urls -> Handoff]
    /\ \A i \in queue \cup working : i.url \in seen /\ i.handoff \in Handoff

(* Whoever queues a page first, its agent is told what the landing page said *)
(* of it, and nothing that another page said.                               *)
MatchTold ==
    \A u \in Urls : given[u] # Untold => given[u].match = InMatch(matches, u)

(* In a run that went through the landing page every agent knows the page   *)
(* of the run, and every hosting agent the verdict.                         *)
RunTold ==
    class = "landing" =>
        \A u \in Urls : given[u] # Untold =>
            given[u].root = Root /\ (u \notin Players => given[u].verdict = class)

(* The handoff that the trace shows as prepared and queued is the one the   *)
(* agent gets: the graph's is not lost to one a worker builds.              *)
AnnouncedGiven ==
    \A u \in Urls : announced[u] # Untold =>
        /\ given[u] \in {Untold, announced[u]}
        /\ given[u] = Untold => \E i \in queue : i.url = u /\ i.handoff = announced[u]

HandoffsTrue == HandoffsTypeOK /\ MatchTold /\ RunTold /\ AnnouncedGiven
=============================================================================
