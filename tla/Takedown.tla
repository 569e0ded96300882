------------------------------ MODULE Takedown ------------------------------
(***************************************************************************)
(* The last two stages of a run and what its page makes of them: the       *)
(* lookup of every stream's provider (utils/ipinfo.py), the drafts of      *)
(* takedown mails (orchestrator/emailing.py), their storage, and the       *)
(* recovery of missing drafts when the page is read (api/app.py).          *)
(*                                                                         *)
(* A page result names its streams and its servers.  Texts, templates, the *)
(* guess of a channel from texts and the layer at which a stream was seen  *)
(* (its label where no server has one) are left out.                       *)
(***************************************************************************)
EXTENDS Naturals, Sequences, SequencesExt, FiniteSets

CONSTANTS
  MailResults,  \* what the extraction of a run may have left: lists of page results
  MailHost,     \* host of a stream
  InfoReplies,  \* what IPInfo may say of an address: owner and abuse contact, or ""
  WhoisReplies  \* what RDAP may: owner, mail addresses for abuse, and others

Nobody == [provider |-> "", abuse |-> ""]
Unknown == [name |-> "", abuse |-> "", other |-> ""]

VARIABLES
  mailStage,  \* "analyze", "draft", "ended", "failed", "stored"
  pageResults,  \* extraction_results
  providers,  \* provider_analysis
  drafts,     \* takedown_emails
  invalid,    \* drafts that did not render (invalid_items)
  contactOf,  \* what the lookup of each host found in this run (seen_hosts)
  stored,     \* the stored run: providers, extraction, drafts, number of drafts
  viewed      \* drafts of the last page view

mailVars == <<mailStage, pageResults, providers, drafts, invalid, contactOf, stored, viewed>>

\* The parts of a page result are lists, and every stream has a host.  A service
\* that does not answer in time says nothing.
ASSUME MailAssumption ==
  /\ \A pages \in MailResults :
       /\ pages \in Seq(ToSet(pages))
       /\ \A p \in ToSet(pages) :
            /\ p.streams \in Seq(DOMAIN MailHost) /\ p.servers \in Seq(ToSet(p.servers))
            /\ \A s \in ToSet(p.servers) : s.streams \in Seq(DOMAIN MailHost)
  /\ Nobody \in InfoReplies /\ Unknown \in WhoisReplies

-----------------------------------------------------------------------------
(* Evidence.                                                               *)

Listing(p, u) == {i \in DOMAIN p.servers : u \in ToSet(p.servers[i].streams)}
StreamsIn(p) == ToSet(p.streams) \cup UNION {ToSet(s.streams) : s \in ToSet(p.servers)}
Found(pages) == UNION {StreamsIn(p) : p \in ToSet(pages)}
FirstOr(a, b) == IF a # {} THEN a ELSE b
SaidOr(a, b) == IF a # "" THEN a ELSE b

\* collect_stream_evidence, the servers of one page: the last one that lists a
\* stream tells its label, its channel and its screenshots.
FromServer(p, s, u) ==
  [stream |-> u, label |-> s.label, channel |-> SaidOr(s.channel, p.channel),
   shots |-> FirstOr(s.shots, p.shots), page |-> p.url]

LastListing(p, u) == CHOOSE i \in Listing(p, u) : \A j \in Listing(p, u) : j <= i

WithServers(rows, p) ==
  [u \in DOMAIN rows \cup UNION {ToSet(s.streams) : s \in ToSet(p.servers)} |->
     IF Listing(p, u) # {} THEN FromServer(p, p.servers[LastListing(p, u)], u) ELSE rows[u]]

\* ... and its own streams, which only fill what is missing.
FromPage(p, u) == [stream |-> u, label |-> "", channel |-> p.channel, shots |-> p.shots, page |-> p.url]

Filled(row, p) ==
  [stream |-> row.stream, label |-> row.label, channel |-> SaidOr(row.channel, p.channel),
   shots |-> FirstOr(row.shots, p.shots), page |-> row.page]

RowOverwritten(rows, p) ==                         \* mutant of WithStreams
  [u \in DOMAIN rows \cup ToSet(p.streams) |-> IF u \in ToSet(p.streams) THEN FromPage(p, u) ELSE rows[u]]
WithStreams(rows, p) ==
  [u \in DOMAIN rows \cup ToSet(p.streams) |->
     IF u \notin DOMAIN rows THEN FromPage(p, u)
     ELSE IF u \notin ToSet(p.streams) THEN rows[u] ELSE Filled(rows[u], p)]

EvidenceOf(pages) ==
  LET Rows[i \in 0..Len(pages)] ==
        IF i = 0 THEN <<>> ELSE WithStreams(WithServers(Rows[i - 1], pages[i]), pages[i])
  IN  Rows[Len(pages)]

-----------------------------------------------------------------------------
(* Providers.                                                              *)

\* _extract_rdap_abuse_email: any address is better than none.
WhoisAbuse(whois) == SaidOr(whois.abuse, whois.other)

\* lookup_stream_url, for a host that resolves to a public address
Resolved(info, whois) ==
  [provider |-> SaidOr(info.provider, whois.name), abuse |-> SaidOr(info.abuse, WhoisAbuse(whois))]

\* lookup_multiple asks once per host and copies the row for its streams.
ProviderRow(u, c) ==
  [stream |-> u, host |-> MailHost[u], provider |-> c.provider, abuse |-> c.abuse]

ProviderName(row) == IF row.provider # "" THEN row.provider ELSE row.host

\* One row per stream, wherever it was named.
Analysed(pages, found) ==
  {ProviderRow(u, found[MailHost[u]]) : u \in Found(pages)}

-----------------------------------------------------------------------------
(* Drafts.                                                                 *)

\* build_email_contexts groups by channel, provider and contact: two unknown
\* contacts ("unresolved:" and the provider) are one if the provider has one name.
GroupKey(row, evidence) ==
  <<IF row.stream \in DOMAIN evidence THEN evidence[row.stream].channel ELSE "",
    ProviderName(row), row.abuse>>

Draft(group, evidence) ==
  LET member == CHOOSE row \in group : TRUE
      own == {row.stream : row \in group} \cap DOMAIN evidence
      streams == FirstOr(own, DOMAIN evidence)
      shots == FirstOr(UNION {evidence[u].shots : u \in streams},
                       UNION {evidence[u].shots : u \in DOMAIN evidence})
  IN  [provider |-> ProviderName(member), abuse |-> member.abuse, streams |-> streams, shots |-> shots,
       rows |-> {evidence[u] : u \in streams}]

Drafted(pages, analysis) ==
  LET evidence == EvidenceOf(pages)
      keys == {GroupKey(row, evidence) : row \in analysis}
  IN  {Draft({row \in analysis : GroupKey(row, evidence) = k}, evidence) : k \in keys}

-----------------------------------------------------------------------------
MailInit ==
  /\ mailStage = "analyze" /\ pageResults \in MailResults
  /\ providers = {} /\ drafts = {} /\ invalid = {} /\ contactOf = <<>>
  /\ stored = [providers |-> {}, pages |-> <<>>, drafts |-> {}, count |-> 0]
  /\ viewed = {}

Hosts == {MailHost[u] : u \in Found(pageResults)}

\* analyze_providers_node: no streams, no lookup.
SkipAnalysis ==
  /\ mailStage = "analyze" /\ Found(pageResults) = {}
  /\ mailStage' = "draft"
  /\ UNCHANGED <<pageResults, providers, drafts, invalid, contactOf, stored, viewed>>

\* One lookup after the other; a host that is not found, and a service that
\* does not answer, give an empty row.
LookUp(host, c) ==
  /\ mailStage = "analyze" /\ host \in Hosts \ DOMAIN contactOf
  /\ contactOf' = [h \in DOMAIN contactOf \cup {host} |-> IF h = host THEN c ELSE contactOf[h]]
  /\ UNCHANGED <<mailStage, pageResults, providers, drafts, invalid, stored, viewed>>

\* An answer with status 200 that is not JSON raises out of the node, and the
\* run ends without a result.
LookUpGarbled ==
  /\ mailStage = "analyze" /\ Hosts \ DOMAIN contactOf # {}
  /\ mailStage' = "failed"
  /\ UNCHANGED <<pageResults, providers, drafts, invalid, contactOf, stored, viewed>>

Analyse ==
  /\ mailStage = "analyze" /\ Found(pageResults) # {} /\ Hosts = DOMAIN contactOf
  /\ providers' = Analysed(pageResults, contactOf)
  /\ mailStage' = "draft"
  /\ UNCHANGED <<pageResults, drafts, invalid, contactOf, stored, viewed>>

\* generate_takedown_emails_node; `bad` are the drafts that do not render.
Generate(bad) ==
  LET all == IF Found(pageResults) = {} THEN {} ELSE Drafted(pageResults, providers)
  IN  /\ mailStage = "draft" /\ bad \subseteq all
      /\ drafts' = all \ bad /\ invalid' = bad
      /\ mailStage' = "ended"
      /\ UNCHANGED <<pageResults, providers, contactOf, stored, viewed>>

\* The deadline of the workflow, between two stages or within one.
HaltMails ==
  /\ mailStage \in {"analyze", "draft"}
  /\ mailStage' = "ended"
  /\ UNCHANGED <<pageResults, providers, drafts, invalid, contactOf, stored, viewed>>

CountOf(mails, analysis) == Cardinality(mails)

StoreRun ==
  /\ mailStage = "ended"
  /\ stored' = [providers |-> providers, pages |-> pageResults, drafts |-> drafts,
                count |-> CountOf(drafts, providers)]
  /\ mailStage' = "stored"
  /\ UNCHANGED <<pageResults, providers, drafts, invalid, contactOf, viewed>>

\* _recover_missing_takedown_emails, for one reply: nothing is stored.  A draft
\* that does not render fails again, and here it takes the others with it.
Recovered(s) == IF s.providers = {} \/ invalid # {} THEN {} ELSE Drafted(s.pages, s.providers)

ViewPage ==
  /\ mailStage = "stored"
  /\ viewed' = FirstOr(stored.drafts, Recovered(stored))
  /\ UNCHANGED <<mailStage, pageResults, providers, drafts, invalid, contactOf, stored>>

MailNext ==
  \/ SkipAnalysis
  \/ \E u \in DOMAIN MailHost :
       \/ LookUp(MailHost[u], Nobody)
       \/ \E info \in InfoReplies, whois \in WhoisReplies : LookUp(MailHost[u], Resolved(info, whois))
  \/ LookUpGarbled
  \/ Analyse
  \/ \E bad \in SUBSET Drafted(pageResults, providers) : Generate(bad)
  \/ HaltMails
  \/ StoreRun
  \/ ViewPage
  \/ mailStage = "failed" /\ UNCHANGED mailVars

MailSpec == MailInit /\ [][MailNext]_mailVars

-----------------------------------------------------------------------------
(* Types: a run has at most one draft per channel, provider and contact,   *)
(* and no draft without a provider row or without a stream.                *)
MailTypeOK ==
  /\ mailStage \in {"analyze", "draft", "ended", "failed", "stored"}
  /\ \A d \in drafts \cup viewed : d.streams # {} /\ \E row \in providers : ProviderName(row) = d.provider
  /\ Cardinality(drafts) <= Cardinality(providers)
  /\ stored.count = Cardinality(stored.drafts)

(* Whoever is written to is written to about his own streams only: every   *)
(* stream of a draft was looked up and resolved to the draft's provider    *)
(* and contact (emailing.py:338-352, whose fallback would list them all).  *)
OwnStreamsOnly ==
  \A d \in drafts \cup viewed : \A u \in d.streams :
    contactOf[MailHost[u]].abuse = d.abuse /\ ProviderName(ProviderRow(u, contactOf[MailHost[u]])) = d.provider

(* A page that shows drafts leaves no stream out: together with the drafts *)
(* that did not render they name every stream that the run found.          *)
EveryStreamNoticed ==
  viewed # {} => UNION {d.streams : d \in viewed \cup invalid} = Found(stored.pages)

(* The screenshots of an evidence row were taken on a page that lists the  *)
(* stream, and if a server of any page lists it, the row names such a      *)
(* server: screenshots are correlated per stream (emailing.py:145-197).    *)
ShotsShowStream ==
  \A d \in drafts \cup viewed : \A row \in d.rows :
    /\ \E i \in DOMAIN pageResults :
         row.stream \in StreamsIn(pageResults[i])
         /\ row.shots \subseteq pageResults[i].shots \cup UNION {s.shots : s \in ToSet(pageResults[i].servers)}
    /\ LET servers == {s \in UNION {ToSet(p.servers) : p \in ToSet(pageResults)} :
                         row.stream \in ToSet(s.streams)}
       IN  servers # {} => row.label \in {s.label : s \in servers}

(* Mails name the right streams of the right provider, all of them, and     *)
(* show them.                                                               *)
MailsTrue == MailTypeOK /\ OwnStreamsOnly /\ EveryStreamNoticed /\ ShotsShowStream
=============================================================================
