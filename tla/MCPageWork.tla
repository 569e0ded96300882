----------------------------- MODULE MCPageWork -----------------------------
(***************************************************************************)
(* Model-checking instance of the work on pages: the tools of the browser, *)
(* the sessions they are called in, the working memory of an agent, the    *)
(* evidence the pages give and the rows its agents leave.                  *)
(*                                                                         *)
(* The parts share no state: one of them, the focus, takes steps in a      *)
(* behaviour and the others keep an initial state.                         *)
(***************************************************************************)
EXTENDS AgentRows, ToolSessions, WorkingMemory, PageTools, Evidence

VARIABLE focus
workingVars == <<focus, rowsVars, toolVars, workVars, tabVars, eVars>>

\* AgentRows: two hosting pages at a time and one embedded page.
MCItems  == {"h1", "h2", "e1"}
MCRoleOf == [i \in MCItems |-> IF i = "e1" THEN "embedded" ELSE "hosting"]

\* WorkingMemory: calls about a page and a stream, about an element and to the
\* site memory, and tool results of every kind.
MCWorkUrl == {"page", "list", "news", "hls", "mpd"}
MCPatternOf == [u \in MCWorkUrl |-> IF u \in {"hls", "mpd"} THEN "media" ELSE u]
MCHostOf == [u \in MCWorkUrl |-> "host"]
WorkCall(urls, selectors, asks) == [urls |-> urls, selectors |-> selectors, asks |-> asks]
MCToolArgs ==
  {WorkCall(<<"page", "hls">>, <<>>, FALSE), WorkCall(<<>>, <<"d">>, FALSE),
   WorkCall(<<"list">>, <<>>, TRUE)}
NoResult ==
  [urls |-> <<>>, selectors |-> <<>>, counts |-> <<>>, candidates |-> <<>>, frontier |-> <<>>,
   activations |-> <<>>, blockers |-> <<>>, change |-> <<>>, servers |-> <<>>]
WorkTarget(label, url) == [label |-> label, url |-> url]
WorkServer(label, up, streams, iframe) == [label |-> label, up |-> up, streams |-> streams, iframe |-> iframe]
MCToolResults ==
  {NoResult,
   [NoResult EXCEPT !.urls = <<"hls", "list">>, !.selectors = <<"a", "b">>],
   [NoResult EXCEPT !.urls = <<"mpd">>, !.counts = <<"live=3">>],
   [NoResult EXCEPT !.candidates = <<[url |-> "page", card |-> FALSE], [url |-> "list", card |-> TRUE],
                                     [url |-> "news", card |-> FALSE]>>],
   [NoResult EXCEPT !.candidates = <<[url |-> "news", card |-> TRUE]>>],
   [NoResult EXCEPT !.frontier = <<WorkTarget("s1", NoWorkUrl), WorkTarget("s2", "page")>>],
   [NoResult EXCEPT !.activations = <<WorkTarget("s3", NoWorkUrl)>>, !.blockers = <<WorkTarget("ad", "news")>>],
   [NoResult EXCEPT !.change = <<WorkTarget("moved", "page")>>, !.selectors = <<"c">>],
   [NoResult EXCEPT !.change = <<WorkTarget("played", NoWorkUrl)>>],
   [NoResult EXCEPT !.servers = <<WorkServer("s1", TRUE, <<"hls", "mpd">>, "page")>>],
   [NoResult EXCEPT !.servers = <<WorkServer("s2", FALSE, <<>>, NoWorkUrl),
                                  WorkServer("s3", TRUE, <<"mpd">>, "page")>>]}

\* PageTools: a document that grows in front and hides an element, inspected
\* as a whole or in part.
MCElements == {"ad", "play", "next"}
MCLayout(order, shown) == [order |-> order, shown |-> shown]
MCLayouts ==
  {MCLayout(<<"play", "next">>, {"play", "next"}),
   MCLayout(<<"ad", "play", "next">>, {"ad", "play", "next"}),
   MCLayout(<<"ad", "play", "next">>, {"play", "next"})}
MCTabProfile == [t \in Tabs |-> "landing"]
MCSelections == {MCElements, {"next"}}
MCMaxEpoch == [t \in Tabs |-> 1]
MCMaxLoads == [t \in Tabs |-> 1]
MCMaxRequests == [t \in Tabs |-> 2]

\* Evidence: a page that may be listed, a player that may also be named as a
\* page of the event, an advertisement, a stream the model may name, one only
\* the tools capture, a page of a list, and a blob URL.
MCHttp == {"root", "page", "list", "player", "advert", "named", "caught"}
MCUrl == MCHttp \cup {"blob"}
MCPageAnswers ==
  [pages : {{}, {"page", "list", "named"}}, refused : {{}, {"page"}}, direct : {{}}, text : {"", "dead"}]
MCServer(streams, who, status) ==
  [streams |-> streams, player |-> who, up |-> "unsaid", status |-> status]
Playing == {MCServer({"named"}, "player", "")}
Down    == {MCServer({}, None, "failed")}
Plain == [rows |-> {}, embeds |-> {}, more |-> {}, servers |-> {}, decision |-> "", text |-> ""]
MCHostAnswers ==
  {Plain, [Plain EXCEPT !.decision = "no_stream_found"], [Plain EXCEPT !.rows = {"named"}],
   [Plain EXCEPT !.servers = Playing, !.decision = "safe_exit"],
   [Plain EXCEPT !.embeds = {"player", "advert"}, !.more = {"player"}],
   [Plain EXCEPT !.servers = Down, !.decision = "activation_failed"]}
MCEmbedAnswers ==
  {Plain, [Plain EXCEPT !.servers = Down], [Plain EXCEPT !.text = "none", !.decision = "activation_failed"]}
Unremembered == [streams |-> {}, iframes |-> {}, records |-> {}, siblings |-> {}]
MCMemories ==
  {Unremembered,
   [Unremembered EXCEPT !.streams = {"caught", "blob"}, !.iframes = {"player", "advert"},
                        !.siblings = {"page"}],
   [Unremembered EXCEPT !.iframes = {"player"}, !.records = {"page"}]}

-----------------------------------------------------------------------------
WorkingInit ==
  /\ focus \in {"rows", "tools", "memory", "tab", "traffic", "evidence"}
  /\ RowsInit /\ ToolInit /\ WorkInit /\ TabInit /\ EInit
  /\ observed = [t \in Tabs |-> TRUE]
  /\ \A i \in DOMAIN answers : Len(answers[i].answer.order) = 2
  /\ focus # "memory" => workPage = "landing_page"
  /\ focus # "tab" => answers = <<>> /\ layout \in [Tabs -> {MCLayout(<<"play", "next">>, {"play", "next"})}]

RowsStep     == focus = "rows"     /\ RowsNext /\ UNCHANGED <<focus, toolVars, workVars, tabVars, eVars>>
ToolStep     == focus = "tools"    /\ ToolNext /\ UNCHANGED <<focus, rowsVars, workVars, tabVars, eVars>>
MemoryStep   == focus = "memory"   /\ WorkNext /\ UNCHANGED <<focus, rowsVars, toolVars, tabVars, eVars>>
\* In "tab" the page asks for nothing and no request is expected, in "traffic" its
\* document stays.
TabStep      == focus \in {"tab", "traffic"} /\ TabNext
                /\ (IF focus = "tab" THEN UNCHANGED <<netVars, waits>> ELSE UNCHANGED <<layout, tabLoad>>)
                /\ (\A t \in Tabs : focus = "tab" /\ call'[t].phase = "begun" => call'[t].expected = "auto")
                /\ UNCHANGED <<focus, rowsVars, toolVars, workVars, eVars>>
EvidenceStep == focus = "evidence" /\ ENext    /\ UNCHANGED <<focus, rowsVars, toolVars, workVars, tabVars>>

WorkingNext == RowsStep \/ ToolStep \/ MemoryStep \/ TabStep \/ EvidenceStep

WorkingSpec == WorkingInit /\ [][WorkingNext]_workingVars
=============================================================================
