------------------------------ MODULE Evidence ------------------------------
(***************************************************************************)
(* What becomes of a URL between the tool that captured it and the result  *)
(* of the run: the answers of the landing, hosting and embedded page       *)
(* agents, completed from the run memory of their tools (landing_page.py,  *)
(* hosting_page.py, embedded_page.py), the targets they hand on            *)
(* (orchestrator.py, pools.py), the evidence gate and the final status.    *)
(*                                                                         *)
(* Lists of URLs are sets: their order and their texts are left out.       *)
(* Whether a URL looks like a stream, an advertisement or a page of a list *)
(* is a constant.  How pools and graph interleave is in RunPools and       *)
(* Pipeline; here agents of a stage end in any order.                      *)
(***************************************************************************)
EXTENDS Integers, FiniteSets

CONSTANTS
    Url,
    Root,           \* the URL of the run
    Streams,        \* _looks_like_provider_stream_url
    Http,           \* what is not a blob: or data: URL
    OffTarget,      \* _OFF_TARGET_EMBEDDED_URL_SIGNALS
    Paginated,      \* _looks_like_pagination_url
    PageAnswers,    \* what the landing agent may answer
    HostAnswers,    \* what a hosting agent may answer
    EmbedAnswers,   \* what an embedded agent may answer
    Memories,       \* what the tools of an agent may have captured
    MaxReplans      \* MAX_REPLANS_PER_STAGE

None == "none"

\* That the URL a run is given is no stream is assumed; the code never checks it.
ASSUME EvidenceAssumption ==
    /\ Root \in Url \ Streams /\ None \notin Url
    /\ Streams \subseteq Http /\ Http \subseteq Url
    /\ OffTarget \subseteq Url /\ Paginated \subseteq Url
    /\ MaxReplans \in Nat
    /\ \A ans \in PageAnswers : ans.pages \cup ans.direct \subseteq Url
    /\ \A ans \in HostAnswers : ans.rows \cup ans.embeds \cup ans.more \subseteq Url
    /\ \A ans \in EmbedAnswers : ans.rows \subseteq Url
    /\ \A ans \in HostAnswers \cup EmbedAnswers : \A s \in ans.servers :
          s.streams \subseteq Url /\ s.player \in Url \cup {None}
    /\ \A mem \in Memories :
          mem.streams \cup mem.iframes \cup mem.records \cup mem.siblings \subseteq Url

VARIABLES
    stage,      \* the graph's: "classify", "landing", "hosting", "embedded", "gate",
                \* "done", "no_target"
    asked,      \* the page type the classification gave
    pending,    \* pending_hosting_urls or pending_embedded_urls is not empty
    todo,       \* targets queued for the hosting and the embedded pool
    seen,       \* seen_urls of the pools: what was ever queued for either
    buffer,     \* results of workers that the graph has not folded
    results,    \* extraction_results
    replans,    \* validator_replan_attempts
    dropped,    \* streams the gate dropped and did not find good later
    halted,     \* the run left the graph early
    \* history:
    captured,   \* streams in the run memory of the agents that returned
    owed        \* players that hosting agents captured, with the decision left to the code

eVars == <<stage, asked, pending, todo, seen, buffer, results, replans, dropped, halted, captured, owed>>

Roles == {"hosting", "embedded"}
Pages == Roles \cup {"landing"}

EInit ==
    /\ stage = "classify" /\ asked = None /\ pending = FALSE
    /\ todo = [r \in Roles |-> {}] /\ seen = {}
    /\ buffer = {} /\ results = {}
    /\ replans = 0 /\ dropped = {} /\ halted = FALSE
    /\ captured = {} /\ owed = {}

-----------------------------------------------------------------------------
(* Servers of a hosting or embedded page, as _normalize_server_entry leaves *)
(* them: streams of all protocols in one list, a player, a status and a     *)
(* flag filled in where the model left them out.                            *)

StreamsOf(servers) == UNION {s.streams : s \in servers}
PlayersOf(servers) == {s.player : s \in servers} \ {None}

StatusOf(s) ==
    IF s.status # "" THEN s.status
    ELSE IF s.streams # {} THEN "success"
    ELSE IF s.player # None THEN "activation_failed" ELSE "failed"

IsUp(s) == s.up = "yes" \/ (s.up = "unsaid" /\ StatusOf(s) = "success")

Working(servers) == {s \in servers : StatusOf(s) = "success" \/ IsUp(s)}

\* The first URL of a list, if any.
FirstOf(urls) == IF urls = {} THEN None ELSE CHOOSE u \in urls : TRUE

\* The server that stands for the run memory when the model names none.
MemoryServer(mem, players, statusWithPlayer) ==
    [streams |-> mem.streams, player |-> FirstOf(players),
     up |-> IF mem.streams # {} THEN "yes" ELSE "no",
     status |-> IF mem.streams # {} THEN "success"
                ELSE IF players # {} THEN statusWithPlayer ELSE "failed"]

WithMemory(servers, mem, players, statusWithPlayer) ==
    IF servers = {} /\ (mem.streams \cup players # {})
      THEN {MemoryServer(mem, players, statusWithPlayer)} ELSE servers

\* Streams named by the model, captured by the tools, or listed by a server.
ListedByModel(ans, mem, servers) ==                      \* mutant of Listed
    ans.rows \cup StreamsOf(servers) \cup (IF servers = {} THEN mem.streams ELSE {})
Listed(ans, mem, servers) == ans.rows \cup (mem.streams \cap Http) \cup StreamsOf(servers)

-----------------------------------------------------------------------------
(* HostingPageAgent.run after its loop: _merge_run_memory_into_hosting_output,*)
(* _normalize_hosting_output, _collect_streams, status.                     *)

HostServers(ans, mem) ==
    WithMemory(ans.servers, mem, ans.embeds \cup mem.iframes, "activation_failed")

NeedingEmbed(ans, mem) ==
    ans.embeds \cup mem.iframes \cup PlayersOf(HostServers(ans, mem))

\* The decision of the model stands; only a missing one is derived.
Decision(stated, streams, embeds) ==
    IF stated # "" THEN stated
    ELSE IF streams # {} /\ embeds # {} THEN "activation_failed"
    ELSE IF streams # {} THEN "safe_exit"
    ELSE IF embeds # {} THEN "no_networking" ELSE "no_stream_found"

Triggers == {"activation_failed", "no_networking", "judge_validation_request"}

HostResult(u, ans, mem) ==
    LET servers  == HostServers(ans, mem)
        streams  == Listed(ans, mem, servers)
        embeds   == NeedingEmbed(ans, mem)
        decision == Decision(ans.decision, streams, embeds)
    IN  [url |-> u, page |-> "hosting", streams |-> streams, servers |-> servers,
         embeds |-> embeds, decision |-> decision, text |-> ans.text, listing |-> {},
         status |-> IF streams # {} THEN "success"
                    ELSE IF decision \in Triggers THEN "partial" ELSE "failed"]

\* The embedded agent has a fallback merge and a collection of its own.
EmbedServers(ans, mem) == WithMemory(ans.servers, mem, mem.iframes, "failed")
EmbedStreams(ans, mem) == Listed(ans, mem, EmbedServers(ans, mem))

\* EmbeddedPageAgent.run: the decision is the model's, if it gives one.
EmbedResult(u, ans, mem) ==
    LET servers == EmbedServers(ans, mem)
        streams == EmbedStreams(ans, mem)
    IN  [url |-> u, page |-> "embedded", streams |-> streams, servers |-> servers,
         embeds |-> PlayersOf(servers), decision |-> ans.decision, text |-> ans.text,
         listing |-> {},
         status |-> IF streams # {} THEN "success"
                    ELSE IF Working(servers) # {} THEN "partial" ELSE "failed"]

-----------------------------------------------------------------------------
(* LandingPageAgent.run after its loop.                                     *)

\* _normalize_hosting_pages drops what is over and has no player, articles and
\* pages of a list.
KeptPages(ans) == (ans.pages \ ans.refused) \ Paginated

\* Candidates of inspect_landing that look live come back, refused or not ...
RecoveredPages(ans, mem) == KeptPages(ans) \cup (mem.records \ Paginated)

\* ... and so do links with the pattern of a known page.
ListedPages(ans, mem) ==
    RecoveredPages(ans, mem) \cup (mem.siblings \ Paginated)

DirectStreams(ans, mem) == (ans.direct \cup mem.streams) \cap Streams

\* landing_page_node adds the streams among the pages to the result.
LandingResult(ans, mem) ==
    LET pages == ListedPages(ans, mem)
        direct == DirectStreams(ans, mem)
    IN  [url |-> Root, page |-> "landing", streams |-> direct \cup (pages \cap Streams),
         servers |-> {}, embeds |-> {}, decision |-> "", text |-> ans.text, listing |-> pages,
         status |-> IF pages \cup direct # {} THEN "success" ELSE "failed"]

\* _failed_extraction: a time-out, an inaccessible site, any other exception.
Failures == {"timeout", "dead", "error"}
FailedResult(u, page, kind) ==
    [url |-> u, page |-> page, streams |-> {}, servers |-> {}, embeds |-> {},
     decision |-> "", text |-> IF kind = "error" THEN "" ELSE "dead", listing |-> {},
     status |-> IF kind = "timeout" THEN "timeout" ELSE "failed"]

-----------------------------------------------------------------------------
(* Handing on.                                                              *)

\* RunPools.enqueue: a URL is queued once, for one of the roles.
Enqueue(role, urls) ==
    /\ todo' = [todo EXCEPT ![role] = @ \cup (urls \ seen)]
    /\ seen' = seen \cup urls

\* _embedded_candidate_allowed_from_hosting over _collect_embedded_urls
Allowed(u, urls) == (urls \cap Http) \ ({u} \cup Streams \cup OffTarget)
EmbedTargets(res) == Allowed(res.url, res.embeds \cup PlayersOf(res.servers))

\* _requires_embedded_followup
FollowedUp(res) == res.decision \in Triggers

\* _same_event_hosting_targets; `more` are of the same site
FrontierTargets(u, more) == more \ ({u} \cup Streams)

\* classify_node, route_after_classification, and the nodes that queue the root
Classify(type, next) ==
    /\ stage = "classify"
    /\ asked' = type /\ stage' = next
    /\ IF next \in Roles THEN Enqueue(next, {Root}) ELSE UNCHANGED <<todo, seen>>
    /\ pending' = (next \in Roles)
    /\ UNCHANGED <<buffer, results, replans, dropped, halted, captured, owed>>

LandingPage(ans, mem) ==
    LET res == LandingResult(ans, mem)
        targets == res.listing \ Streams
    IN  /\ stage = "landing"
        /\ results' = results \cup {res}
        /\ Enqueue("hosting", targets)
        /\ pending' = (targets # {})
        /\ captured' = captured \cup (mem.streams \cap Streams)
        /\ stage' = IF targets # {} THEN "hosting" ELSE "gate"
        /\ UNCHANGED <<asked, buffer, replans, dropped, halted, owed>>

LandingFails(kind) ==
    /\ stage = "landing"
    /\ results' = results \cup {FailedResult(Root, "landing", kind)}
    /\ stage' = "gate"
    /\ UNCHANGED <<asked, pending, todo, seen, buffer, replans, dropped, halted, captured, owed>>

\* RunPools._process_item and _post_process_hosting: pages of the same event
\* first, so a player that is among them is not queued as a player.
HostingPage(u, ans, mem) ==
    LET res == HostResult(u, ans, mem)
        more == FrontierTargets(u, ans.more)
        players == IF FollowedUp(res) THEN EmbedTargets(res) ELSE {}
    IN  /\ stage = "hosting" /\ u \in todo["hosting"]
        /\ buffer' = buffer \cup {res}
        /\ todo' = [hosting |-> (todo["hosting"] \cup (more \ seen)) \ {u},
                    embedded |-> todo["embedded"] \cup (players \ (seen \cup more))]
        /\ seen' = seen \cup more \cup players
        /\ captured' = captured \cup (mem.streams \cap Streams)
        /\ owed' = IF ans.decision = "" THEN owed \cup Allowed(u, mem.iframes) ELSE owed
        /\ UNCHANGED <<stage, asked, pending, results, replans, dropped, halted>>

EmbeddedPage(u, ans, mem) ==
    /\ stage = "embedded" /\ u \in todo["embedded"]
    /\ buffer' = buffer \cup {EmbedResult(u, ans, mem)}
    /\ todo' = [todo EXCEPT !["embedded"] = @ \ {u}]
    /\ captured' = captured \cup (mem.streams \cap Streams)
    /\ UNCHANGED <<stage, asked, pending, seen, results, replans, dropped, halted, owed>>

\* What the agent had captured is lost with it.
AgentFails(role, u, kind) ==
    /\ stage = role /\ u \in todo[role]
    /\ buffer' = buffer \cup {FailedResult(u, role, kind)}
    /\ todo' = [todo EXCEPT ![role] = @ \ {u}]
    /\ UNCHANGED <<stage, asked, pending, seen, results, replans, dropped, halted, captured, owed>>

\* embedded_enqueued_urls of the pools, which nothing empties: after a replan
\* the graph passes through the embedded node again.
EverQueuedPlayer ==
    todo["embedded"] # {} \/ \E res \in results : res.page = "embedded" /\ res.url # Root

\* The drained role's results join extraction_results.
Fold ==
    LET more == stage = "hosting" /\ EverQueuedPlayer
    IN  /\ stage \in Roles /\ todo[stage] = {}
        /\ results' = results \cup buffer /\ buffer' = {}
        /\ pending' = more
        /\ stage' = IF more THEN "embedded" ELSE "gate"
        /\ UNCHANGED <<asked, todo, seen, replans, dropped, halted, captured, owed>>

-----------------------------------------------------------------------------
(* The gate and the result.                                                 *)

\* _collect_all_streams
AllStreams(rs) == UNION {(res.streams \cup StreamsOf(res.servers)) \cap Streams : res \in rs}

\* _filter_dropped_streams: the servers of a result keep theirs.
Filtered(rs, bad) == {[res EXCEPT !.streams = @ \ bad] : res \in rs}

Affected(bad) ==
    LET hit == {res \in results : res.streams \cap bad # {}}
    IN  {res.url : res \in IF hit # {} THEN hit ELSE results}

\* probe_reachability: an HTTP error, a time-out or a refused connection of the
\* HEAD request, or of the short GET, says of any candidate that it is dead.
ProbeOutcomes(found) == SUBSET found

\* score_evidence: good is a verdict other than "fail" whose score reaches the
\* threshold; a judge may flag any URL, found or not.
JudgeVerdicts == [good : BOOLEAN, flagged : SUBSET Streams]

\* A judge that raises, or whose answer is no verdict, flags nothing.
FallbackVerdict == [good |-> FALSE, flagged |-> {}]

Gate(dead, verdict) ==
    LET found  == AllStreams(results)
        bad    == dead \cup (verdict.flagged \cap found)
        enough == verdict.good /\ found \ bad # {}
        replan == ~enough /\ replans < MaxReplans
        back   == IF replan THEN Affected(bad) ELSE {}
    IN  /\ stage = "gate"
        /\ dead \in ProbeOutcomes(found)
        /\ results' = Filtered(results, bad)
        /\ dropped' = (dropped \ found) \cup bad
        /\ replans' = IF replan THEN replans + 1 ELSE replans
        /\ Enqueue("hosting", back)
        /\ pending' = (back # {})
        /\ stage' = IF replan THEN "hosting" ELSE "done"
        /\ UNCHANGED <<asked, buffer, halted, captured, owed>>

Ended == stage \in {"done", "no_target"}

\* The workflow deadline or a budget: the result is built from what was folded.
Halt ==
    /\ ~Ended
    /\ stage' = "done" /\ halted' = TRUE
    /\ buffer' = {} /\ todo' = [r \in Roles |-> {}]
    /\ UNCHANGED <<asked, pending, seen, results, replans, dropped, captured, owed>>

Inaccessible(res) == res.status = "timeout" \/ res.text = "dead"
NoHostingPages(res) == res.page = "landing" /\ res.listing = {} /\ ~Inaccessible(res)
NoStreams(res) ==
    /\ res.page \in Roles
    /\ res.streams \cup StreamsOf(res.servers) = {}
    /\ ~Inaccessible(res)
    /\ res.decision \in {"", "no_stream_found", "safe_exit"} \/ res.text = "none"

\* Evidence that keeps a run from counting as failed
Nonfailed(rs) ==
    \E res \in rs :
        res.status \in {"success", "partial"} \/ res.streams # {} \/ PlayersOf(res.servers) # {}
            \/ EmbedTargets(res) # {}

\* _build_pipeline_result
FinalStatus(rs) ==
    IF AllStreams(rs) # {} THEN "success"
    ELSE IF stage = "no_target" THEN "no_target"
    ELSE IF \E res \in rs : res.status = "timeout" THEN "timeout"
    ELSE IF \E res \in rs : Inaccessible(res) THEN "page_inaccessible"
    ELSE IF (\E res \in rs : NoHostingPages(res)) \/ (asked = "landing" /\ rs = {} /\ ~pending)
      THEN "no_hosting_pages"
    ELSE IF \E res \in rs : NoStreams(res) /\ (~pending \/ \A other \in rs : NoStreams(other))
      THEN "no_streams"
    ELSE IF pending \/ Nonfailed(rs) THEN "partial" ELSE "failed"

Finished == Ended /\ UNCHANGED eVars

ENext ==
    \/ Classify("landing", "landing")
    \/ \E type \in Roles : Classify(type, "hosting")
    \/ Classify("embedded", "embedded")
    \/ Classify("unknown", "gate")
    \/ \E type \in Pages \cup {"unknown"} : Classify(type, "no_target")
    \/ \E ans \in PageAnswers, mem \in Memories : LandingPage(ans, mem)
    \/ \E kind \in Failures : LandingFails(kind)
    \/ \E u \in Url :
          \/ \E ans \in HostAnswers, mem \in Memories : HostingPage(u, ans, mem)
          \/ \E ans \in EmbedAnswers, mem \in Memories : EmbeddedPage(u, ans, mem)
          \/ \E role \in Roles, kind \in Failures : AgentFails(role, u, kind)
    \/ Fold
    \/ \E dead \in SUBSET Streams, verdict \in JudgeVerdicts \cup {FallbackVerdict} : Gate(dead, verdict)
    \/ Halt
    \/ Finished

ESpec == EInit /\ [][ENext]_eVars

-----------------------------------------------------------------------------
Statuses == {"success", "partial", "failed", "timeout"}

\* The types of the evidence.
ETypeOK ==
    /\ stage \in Pages \cup {"classify", "gate", "done", "no_target"}
    /\ asked \in Pages \cup {"unknown", None} /\ pending \in BOOLEAN
    /\ todo \in [Roles -> SUBSET Url] /\ seen \in SUBSET Url
    /\ \A res \in results \cup buffer :
          /\ res.url \in Url /\ res.page \in Pages /\ res.status \in Statuses
          /\ res.streams \in SUBSET Url /\ res.embeds \in SUBSET Url
    /\ replans \in 0..MaxReplans /\ halted \in BOOLEAN
    /\ dropped \in SUBSET Streams /\ captured \in SUBSET Streams /\ owed \in SUBSET Url

\* In a run that reaches its end, every stream that the tools of an agent
\* captured is in the result, whatever the model made of it, unless the gate
\* dropped it.
CapturedReported ==
    stage = "done" /\ ~halted => captured \subseteq AllStreams(results) \cup dropped

\* A player that the tools saw on a hosting page is visited when the model
\* leaves the decision to the code (the fallback merge puts it among the
\* targets, and the derived decision is a trigger).
PlayersVisited ==
    stage = "done" /\ ~halted =>
        owed \subseteq {res.url : res \in results}

\* No browser is sent to a stream, whatever list it stood in, and no embedded
\* agent to an advertisement.
OnlyPagesVisited ==
    seen \cap Streams = {} /\ (todo["embedded"] \ {Root}) \cap OffTarget = {}

\* "Embedded work is invoked ONLY on one of the three trigger decisions"
OnlyTriggered ==
    \A u \in todo["embedded"] \ {Root} :
        \E res \in results \cup buffer :
            res.page = "hosting" /\ res.decision \in Triggers /\ u \in EmbedTargets(res)

\* "No hosting candidates were found; workflow will finish without treating
\* this as a runtime failure": once a landing agent has answered, the run
\* cannot end as failed, however its successors end.
AnsweredNotFailed ==
    (\E res \in results : res.page = "landing" /\ (res.status # "failed" \/ NoHostingPages(res)))
        /\ stage = "done"
        => FinalStatus(results) # "failed"

\* The agents' results lead to the right visits and to a report of all that
\* their tools captured (hosting_page.py:600-830, orchestrator.py:1242-1660).
EvidenceSafe ==
    ETypeOK /\ CapturedReported /\ PlayersVisited /\ OnlyPagesVisited /\ OnlyTriggered /\ AnsweredNotFailed
=============================================================================
