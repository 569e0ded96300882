---------------------------- MODULE WorkingMemory ----------------------------
(***************************************************************************)
(* The working memory of one agent invocation (memory/short_term.py): a    *)
(* deque of the last things that happened and, per kind of signal, a       *)
(* bounded list of distinct values taken out of every tool result.  The    *)
(* loop writes it around each tool call, the prompt of every turn quotes   *)
(* it, and the agent's answer is completed from it.                        *)
(*                                                                         *)
(* A call is the record of its arguments, a tool result that of the parts  *)
(* the memory looks for.  Texts, the classification of URLs and the exact  *)
(* caps are constants: a kind is capped by BaseCap or, on some page types, *)
(* by the larger RaisedCap.                                                *)
(***************************************************************************)
EXTENDS Naturals, Sequences, SequencesExt, FiniteSets

CONSTANTS
  WorkUrl, NoWorkUrl,
  StreamLike,   \* _looks_like_stream_url
  PagedLike,    \* _looks_like_pagination_url
  ArticleLike,  \* _looks_like_article_or_news_url
  PatternOf,    \* _generalize_url_pattern
  HostOf,       \* _normalize_domain
  WorkPages,    \* page types of the agents
  ToolArgs,     \* the calls: URLs and locators given, whether the site memory is asked
  ToolResults,  \* the tool results, as records of parts
  WindowSize,   \* k, the length of the deque
  LookBack,     \* limit, what a prompt looks back at
  BaseCap, RaisedCap,
  LabelCap,     \* the cap of labels found anywhere in a result
  SelectorCap,  \* the cap of selectors
  ShownMax,     \* how much of a list a turn quotes
  MaxCallsSeen  \* BOUND: tool calls of the invocation

\* The parts of a result are lists.
IsList(list) == list \in Seq(ToSet(list))

ASSUME WorkAssumption ==
  /\ \A p \in ToolResults :
       /\ DOMAIN p = {"urls", "selectors", "counts", "candidates", "frontier", "activations",
                      "blockers", "change", "servers"}
       /\ \A part \in DOMAIN p : IsList(p[part])
       /\ \A i \in DOMAIN p.servers : IsList(p.servers[i].streams)
  /\ \A a \in ToolArgs : IsList(a.urls) /\ IsList(a.selectors) /\ a.asks \in BOOLEAN
  /\ WindowSize \in Nat \ {0} /\ LookBack \in 1..WindowSize
  /\ BaseCap \in Nat \ {0} /\ RaisedCap \in Nat /\ BaseCap <= RaisedCap
  /\ LabelCap \in 1..BaseCap /\ SelectorCap \in 1..BaseCap
  /\ ShownMax \in Nat \ {0}
  /\ MaxCallsSeen \in Nat

SignalKeys ==
  {"url_patterns", "pagination_patterns", "selectors", "critical_links", "iframe_urls",
   "stream_urls", "stream_hosts", "server_labels", "hosting_candidate_urls", "match_records",
   "visible_live_counts", "server_records", "server_frontier", "activation_targets",
   "blocker_targets", "observed_changes", "server_screenshots", "server_stream_urls",
   "activated_servers"}

VARIABLES
  workPage,  \* page type of the agent
  entries,   \* the deque
  signals,   \* the lists of signals
  calling,   \* the tool call under way: none, or the arguments of one
  callsSeen,
  heard,     \* every value ever remembered, per kind (history)
  latest,    \* the value remembered last, per kind (history)
  sinceFail  \* entries since the last failed call, or LookBack (history)

workVars == <<workPage, entries, signals, calling, callsSeen, heard, latest, sinceFail>>

WorkInit ==
  /\ workPage \in WorkPages
  /\ entries = <<>>
  /\ signals = [k \in SignalKeys |-> <<>>] /\ heard = [k \in SignalKeys |-> {}]
  /\ latest = [k \in SignalKeys |-> NoWorkUrl]
  /\ calling = {} /\ callsSeen = 0 /\ sinceFail = LookBack

-----------------------------------------------------------------------------
(* One list.                                                               *)

LastOf(list, n) == IF Len(list) <= n THEN list ELSE SubSeq(list, Len(list) - n + 1, Len(list))

Appended(list, v) == IF v \in ToSet(list) THEN list ELSE Append(list, v)

\* _remember_signal: known values keep their place, the oldest go.
CappedFirst(list, v, n) == IF Len(list) < n THEN Appended(list, v) ELSE list  \* mutant of Capped: the newest go
Capped(list, v, n) == LastOf(Appended(list, v), n)

RaisedKeys(page) ==
  CASE page = "landing_page" ->
         {"critical_links", "url_patterns", "hosting_candidate_urls", "match_records",
          "visible_live_counts"}
    [] page \in {"hosting_page", "embedded_page"} ->
         {"critical_links", "iframe_urls", "stream_urls", "server_labels", "server_records",
          "server_frontier", "activation_targets", "blocker_targets", "observed_changes",
          "server_screenshots", "server_stream_urls", "activated_servers"}
    [] OTHER -> {}

SignalLimit(key) == IF key \in RaisedKeys(workPage) THEN RaisedCap ELSE BaseCap

\* A note says which value goes to which list, and under which cap if not
\* under the limit of the list.
Note(key, v) == [key |-> key, value |-> v, cap |-> 0]
Notes(key, list) == [i \in DOMAIN list |-> Note(key, list[i])]
CappedNotes(key, list, n) == [i \in DOMAIN list |-> [key |-> key, value |-> list[i], cap |-> n]]
CapOf(n) == IF n.cap = 0 THEN SignalLimit(n.key) ELSE n.cap

\* One note, in its list.
Noted(lists, n) == [lists EXCEPT ![n.key] = Capped(@, n.value, CapOf(n))]

Together(lists) == FlattenSeq(lists)
Each(Op(_), list) == Together([i \in DOMAIN list |-> Op(list[i])])
Known(list) == Each(LAMBDA u : IF u = NoWorkUrl THEN <<>> ELSE <<u>>, list)

-----------------------------------------------------------------------------
(* What a tool result gives.                                               *)

\* _capture_url
CaptureUrl(u) ==
  LET If(cond, notes) == IF cond THEN notes ELSE <<>>
  IN  <<Note("critical_links", u), Note("url_patterns", PatternOf[u])>>
      \o If(u \in PagedLike, <<Note("pagination_patterns", PatternOf[u])>>)
      \o If(u \in StreamLike, <<Note("stream_urls", u), Note("stream_hosts", HostOf[u])>>)

\* Every URL and every label at any depth, in the parts' order.
NestedUrls(p) ==
  p.urls \o Each(LAMBDA c : <<c.url>>, p.candidates)
    \o Known(Each(LAMBDA t : <<t.url>>, p.frontier \o p.activations \o p.blockers \o p.change))
    \o Known(Each(LAMBDA s : <<s.iframe>> \o s.streams, p.servers))

NestedLabels(p) ==
  Each(LAMBDA t : <<t.label>>, p.frontier \o p.activations \o p.servers)

\* The counters that read like a number of live events.
NestedCounts(p) == p.counts

\* _capture_hosting_candidates: no page of a list, and no article unless the
\* entry shows a match card.
IsCandidate(c) == c.url \notin PagedLike /\ (c.url \in ArticleLike => c.card)

HostingNotes(p) ==
  LET good == Each(LAMBDA c : IF IsCandidate(c) THEN <<c>> ELSE <<>>, p.candidates)
  IN  Notes("match_records", good)
      \o Each(LAMBDA c : <<Note("hosting_candidate_urls", c.url)>> \o CaptureUrl(c.url), good)

\* _capture_frontier_entries, _capture_target_entries
FrontierNotes(p) ==
  Each(LAMBDA t : <<Note("server_frontier", t), Note("server_labels", t.label)>>
                  \o Each(CaptureUrl, Known(<<t.url>>)), p.frontier)
TargetNotes(key, list) ==
  Each(LAMBDA t : <<Note(key, t)>> \o Each(CaptureUrl, Known(<<t.url>>)), list)

\* _remember_observed_change
ChangeNotes(p) ==
  Each(LAMBDA c : <<Note("observed_changes", c)>> \o Each(CaptureUrl, Known(<<c.url>>)), p.change)

\* _capture_server_artifacts
StreamNotes(s) == Each(LAMBDA u : <<Note("server_stream_urls", u)>> \o CaptureUrl(u), s.streams)

ServerNotes(s) ==
  <<Note("server_labels", s.label), Note("server_screenshots", s.label)>>
  \o Each(LAMBDA u : <<Note("iframe_urls", u)>> \o CaptureUrl(u), Known(<<s.iframe>>))
  \o StreamNotes(s)
  \o (IF s.up THEN <<Note("activated_servers", s.label)>> ELSE <<>>)
  \o <<Note("server_records", s)>>

\* ingest_tool_result: the arguments first, ...
ArgumentNotes(a) ==
  Each(CaptureUrl, a.urls) \o CappedNotes("selectors", a.selectors, SelectorCap)

\* ... then the payload.
Ingested(p) ==
  Each(CaptureUrl, NestedUrls(p))
  \o CappedNotes("selectors", p.selectors, SelectorCap)
  \o CappedNotes("server_labels", NestedLabels(p), LabelCap)
  \o Notes("visible_live_counts", NestedCounts(p))
  \o HostingNotes(p) \o FrontierNotes(p)
  \o TargetNotes("activation_targets", p.activations)
  \o TargetNotes("blocker_targets", p.blockers)
  \o ChangeNotes(p) \o Each(ServerNotes, p.servers)

Reading == [p \in ToolResults |-> Ingested(p)]

\* The payload of a failed call is the text of the error, in which a count may
\* still be read.
ErrorNotes(p) == Notes("visible_live_counts", NestedCounts(p))

Remember(notes) ==
  /\ signals' = LET After[i \in 0..Len(notes)] ==
                      IF i = 0 THEN signals
                      ELSE Noted(After[i - 1], notes[i])
                IN  After[Len(notes)]
  /\ heard' = [k \in SignalKeys |->
                 heard[k] \cup {n.value : n \in {m \in ToSet(notes) : m.key = k}}]
  /\ latest' = [k \in SignalKeys |->
                  LET of == {i \in DOMAIN notes : notes[i].key = k}
                  IN  IF of = {} THEN latest[k] ELSE notes[CHOOSE i \in of : \A j \in of : j <= i].value]

-----------------------------------------------------------------------------
(* What the loop writes.                                                   *)

Entry(kind, status, blocked) == [kind |-> kind, status |-> status, blocked |-> blocked]

\* deque(maxlen=k)
Kept(list) == LastOf(list, WindowSize)

Failed(e) == e.kind = "tool" /\ e.status = "error"

Log(new) ==
  /\ entries' = Kept(entries \o new)
  /\ sinceFail' = (LET n == IF \E i \in DOMAIN new : Failed(new[i])
                              THEN Len(new) - (CHOOSE i \in DOMAIN new : Failed(new[i]))
                              ELSE sinceFail + Len(new)
                   IN  IF n < LookBack THEN n ELSE LookBack)

\* The model answers: its text, if it wrote one, is an observation.
ModelSpeaks(blocked) ==
  /\ calling = {} /\ callsSeen < MaxCallsSeen
  /\ Log(<<Entry("observation", "", blocked)>>)
  /\ UNCHANGED <<workPage, signals, calling, callsSeen, heard, latest>>

\* tool_node and _run_bootstrap_tool start a call: perhaps a warning, the
\* call, and (tool_node) the URLs it goes to, those of some arguments.
StartCall(a, warned, visits) ==
  /\ calling = {} /\ callsSeen < MaxCallsSeen
  /\ calling' = {a} /\ callsSeen' = callsSeen + 1
  /\ Log((IF warned THEN <<Entry("observation", "", FALSE)>> ELSE <<>>)
         \o <<Entry("tool", "started", FALSE)>>
         \o [i \in 1..visits |-> Entry("navigation", "", FALSE)])
  /\ UNCHANGED <<workPage, signals, heard, latest>>

\* A question to the site memory leaves an observation of its own.
Asked(a) == IF a.asks THEN <<Entry("observation", "", FALSE)>> ELSE <<>>

\* ... and its result, whose text may speak of a block although it is good.
\* What the call was about is remembered whether it worked or not.
FinishCall(a, p, status, blocked) ==
  /\ calling = {a} /\ calling' = {}
  /\ Log(<<Entry("tool", status, blocked)>> \o Asked(a))
  /\ Remember(ArgumentNotes(a) \o (IF status = "success" THEN Reading[p] ELSE ErrorNotes(p)))
  /\ UNCHANGED <<workPage, callsSeen>>

-----------------------------------------------------------------------------
(* What a turn is told.                                                    *)

Recent == LastOf(entries, LookBack)

\* _blockers_seen
Blockers == {i \in DOMAIN Recent : Recent[i].blocked \/ Failed(Recent[i])}

\* _next_best_move
Move ==
  IF Blockers # {} THEN "wait"
  ELSE IF Recent = <<>> THEN IF signals["critical_links"] # <<>> THEN "known links" ELSE "look"
  ELSE LET last == Last(Recent) IN
       IF last.kind = "navigation" THEN "inspect"
       ELSE IF last.kind = "tool" /\ last.status = "success"
         THEN IF signals["stream_urls"] # <<>> THEN "next server"
              ELSE IF signals["server_frontier"] # <<>> THEN "frontier"
              ELSE IF signals["activation_targets"] # <<>> THEN "activate" ELSE "build on"
       ELSE IF last.kind = "tool" THEN "other locator" ELSE "freshest"

\* working_state: the move, the start of some lists and how long others are.
Shown(key) == SubSeq(signals[key], 1, IF Len(signals[key]) < ShownMax THEN Len(signals[key]) ELSE ShownMax)
OfPage == CASE workPage = "landing_page" -> {"visible_live_counts"}
            [] workPage \in {"hosting_page", "embedded_page"} ->
                 {"activation_targets", "observed_changes", "activated_servers", "iframe_urls"}
            [] OTHER -> {}
Quoted == {"url_patterns", "pagination_patterns", "critical_links", "stream_urls"} \cup OfPage
Told == [move |-> Move, lists |-> [k \in Quoted |-> Shown(k)]]

WorkNext ==
  \/ \E blocked \in BOOLEAN : ModelSpeaks(blocked)
  \/ \E a \in ToolArgs, warned \in BOOLEAN :
       \E visits \in 0..Len(a.urls) : StartCall(a, warned, visits)
  \/ \E a \in ToolArgs, p \in ToolResults, status \in {"success", "error"}, blocked \in BOOLEAN :
       FinishCall(a, p, status, blocked)
  \/ calling = {} /\ callsSeen = MaxCallsSeen /\ UNCHANGED workVars

WorkSpec == WorkInit /\ [][WorkNext]_workVars

-----------------------------------------------------------------------------
(* Types: the deque and the lists keep their caps, and no list holds a     *)
(* value twice.                                                            *)
WorkTypeOK ==
  /\ workPage \in WorkPages /\ calling \subseteq ToolArgs /\ callsSeen \in 0..MaxCallsSeen
  /\ Len(entries) <= WindowSize
  /\ \A k \in SignalKeys :
       /\ Len(signals[k]) <= SignalLimit(k)
       /\ IsInjective(signals[k]) /\ ToSet(signals[k]) \subseteq heard[k]

SmallestCap(k) ==
  CASE k = "server_labels" -> LabelCap [] k = "selectors" -> SelectorCap [] OTHER -> SignalLimit(k)

(* No tool result makes the agent forget while there is room: a list is    *)
(* all that was ever remembered of its kind until that exceeds the         *)
(* smallest cap the kind is stored under.                                  *)
HeardKept ==
  \A k \in SignalKeys :
    Cardinality(heard[k]) <= SmallestCap(k) => ToSet(signals[k]) = heard[k]

(* "Newest-wins ring buffer: past cap, evict oldest so fresh signals       *)
(* survive" (short_term.py:721): what was seen last of a kind is           *)
(* remembered.  Where labels have a raised cap, one that is seen again is  *)
(* remembered under the smaller cap and may go with the oldest: a list     *)
(* of exactly that length is excepted, and no other.                       *)
FreshSurvive ==
  \A k \in SignalKeys :
    heard[k] # {} /\ (SmallestCap(k) = SignalLimit(k) \/ Len(signals[k]) # SmallestCap(k))
      => latest[k] \in ToSet(signals[k])

(* A failed call is not followed by the advice to go on as if it had       *)
(* worked for as long as it is within the entries a turn looks back at     *)
(* (short_term.py:1211).                                                   *)
FailureTold == sinceFail < LookBack => Told.move = "wait"

(* The working memory forgets the oldest only, and never a recent failure.  *)
WorkSafe == WorkTypeOK /\ HeardKept /\ FreshSurvive /\ FailureTold
=============================================================================
