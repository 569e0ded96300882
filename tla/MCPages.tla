------------------------------- MODULE MCPages -------------------------------
(***************************************************************************)
(* Model-checking instance of what the pages of the console are made of:   *)
(* the usage ledger, the list of runs, the rollups of a run's agents, the   *)
(* takedown mails, and what page agents are told of their targets.         *)
(*                                                                         *)
(* The parts share no state: one of them, the focus, takes steps in a      *)
(* behaviour and the others keep an initial state.                         *)
(***************************************************************************)
EXTENDS UsageLedger, RunBoard, AgentRollups, Takedown, Handoffs, TLC

CONSTANTS one, two   \* runs or agents that are alike

VARIABLE focus
pageVars == <<focus, usageVars, boardVars, rollVars, mailVars, hoVars>>

PagesSymmetry == Permutations({one, two})

\* UsageLedger: an answer whose input was mostly cached and that thought, and
\* one whose provider reports its cost.
UsagePayload(in, cached, write, out, think, billed) ==
  [in |-> in, cached |-> cached, write |-> write, out |-> out, think |-> think, billed |-> billed]
MCAnswers == {UsagePayload(3, 2, 1, 1, 1, 0), UsagePayload(1, 0, 0, 1, 0, 2)}
GoogleRow == [provider |-> "google", in |-> 2, cached |-> 1, write |-> 1, out |-> 3]
FreeRow == [provider |-> RuntimeName, in |-> 0, cached |-> 0, write |-> 0, out |-> 0]
MCPrices == {GoogleRow, FreeRow}

\* RunBoard
MCBoardVerdict == {"partial", "no_target"}

\* Takedown: two of three streams on one host, pages with and without servers.
MCMailHost == [a |-> "cdn", b |-> "cdn", c |-> "edge"]
MCServer(label, channel, streams, shots) ==
  [label |-> label, channel |-> channel, streams |-> streams, shots |-> shots]
MCPage(url, channel, streams, servers, shots) ==
  [url |-> url, channel |-> channel, streams |-> streams, servers |-> servers, shots |-> shots]
MCPages ==
  {MCPage("p1", "news", <<"a">>, <<MCServer("s1", "", <<"a", "b">>, {"x"})>>, {"y"}),
   MCPage("p1", "", <<"b", "c">>, <<>>, {}),
   MCPage("p2", "sport", <<>>,
          <<MCServer("s2", "", <<"c">>, {}), MCServer("s3", "news", <<"b">>, {"z"})>>, {"w"}),
   MCPage("p2", "", <<"a">>, <<MCServer("s4", "", <<"a">>, {})>>, {}),
   MCPage("p2", "", <<>>, <<>>, {"v"})}
MCMailResults == {<<>>} \cup {<<p>> : p \in MCPages} \cup {<<p, q>> : p, q \in MCPages}
MCInfoReplies ==
  {Nobody, [provider |-> "host", abuse |-> "abuse@host"], [provider |-> "host", abuse |-> ""]}
MCWhoisReplies ==
  {Unknown, [name |-> "net", abuse |-> "abuse@net", other |-> "info@net"],
   [name |-> "net", abuse |-> "", other |-> "abuse@host"]}

-----------------------------------------------------------------------------
PagesInit ==
  /\ focus \in {"usage", "board", "rollups", "mails", "handoffs"}
  /\ UsageInit /\ BoardInit /\ RollInit /\ MailInit /\ HandoffsInit
  /\ focus # "usage" => price = FreeRow
  /\ focus # "mails" => pageResults = <<>>

UsageStep ==
  focus = "usage" /\ UsageNext /\ UNCHANGED <<focus, boardVars, rollVars, mailVars, hoVars>>
BoardStep ==
  focus = "board" /\ BoardNext /\ UNCHANGED <<focus, usageVars, rollVars, mailVars, hoVars>>
RollupsStep ==
  focus = "rollups" /\ RollNext /\ UNCHANGED <<focus, usageVars, boardVars, mailVars, hoVars>>
MailsStep ==
  focus = "mails" /\ MailNext /\ UNCHANGED <<focus, usageVars, boardVars, rollVars, hoVars>>
HandoffsStep ==
  focus = "handoffs" /\ HandoffsNext /\ UNCHANGED <<focus, usageVars, boardVars, rollVars, mailVars>>

PagesNext == UsageStep \/ BoardStep \/ RollupsStep \/ MailsStep \/ HandoffsStep

PagesSpec == PagesInit /\ [][PagesNext]_pageVars
=============================================================================
