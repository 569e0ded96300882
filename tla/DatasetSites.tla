---------------------------- MODULE DatasetSites ----------------------------
(***************************************************************************)
(* The sites of the dataset, the runs that test them and the counts each   *)
(* site keeps of its runs.  Requests run on worker threads, each in a      *)
(* transaction of its own: what a transaction counts, it counts from the   *)
(* rows that are committed when it looks, and it writes the counts later.  *)
(* A dataset that is found empty is seeded from a file by whichever page   *)
(* looks first, and two pages may look at the same time.                   *)
(***************************************************************************)
EXTENDS Naturals, FiniteSets

CONSTANTS
    Urls,        \* canonical URLs
    Seeds,       \* those of the file
    Writers,     \* requests that may end runs at the same time
    Lookers,     \* requests that may look for an empty dataset at the same time
    MaxRuns,     \* bound on the runs
    MaxBirths    \* bound on the sites created, per URL

ASSUME SitesAssumption ==
    /\ Seeds \subseteq Urls /\ IsFiniteSet(Urls) /\ MaxRuns \in Nat /\ MaxBirths \in [Urls -> Nat]

\* Statuses, one for each set they are counted by: TERMINAL = SUCCESS, FAILURE
\* (of the agent or of something outside it) and CANCELLED; no_target, which the
\* orchestrator reports as final, is none of them.
Success   == {"success"}
External  == {"no_streams"}
Failure   == {"failed"} \cup External
Cancelled == {"cancelled"}
Terminal  == Success \cup Failure \cup Cancelled
Finals    == Terminal \cup {"no_target"}

VARIABLES
    sites,      \* dataset_sites: records [id, url, total, passed, failed]
    births,     \* per URL, the sites created; an id is a URL and a number
    siteRuns,   \* dataset_site_runs: i -> [site, status, final]
    ending,     \* what a writer has read, and the sites others ended runs of since
    lookers,    \* requests that have found the dataset empty
    behind,     \* ids whose counts were written by a transaction that overlapped
    gone,       \* URLs an operator removed, and nobody named since
    raced       \* those removed while a request that had found the dataset empty was under way

siteVars == <<sites, births, siteRuns, ending, lookers, behind, gone, raced>>

NoWork == [ids |-> {}, status |-> "", counts |-> {}, met |-> {}]
NoSite == <<>>

SitesInit ==
    /\ sites = {} /\ births = [u \in Urls |-> 0] /\ siteRuns = <<>>
    /\ ending = [w \in Writers |-> NoWork] /\ lookers = {} /\ behind = {} /\ gone = {} /\ raced = {}

Listed == {s.url : s \in sites}
SiteOf(u) == CHOOSE s \in sites : s.url = u
NewSite(u) == [id |-> <<u, births[u] + 1>>, url |-> u, total |-> 0, passed |-> 0, failed |-> 0]
Born(us) == births' = [u \in Urls |-> births[u] + (IF u \in us THEN 1 ELSE 0)]
MayBear(us) == \A u \in us : births[u] < MaxBirths[u]

StatusOnly(run) == run.status     \* mutant of Outcome
\* final_status or status
Outcome(run) == IF run.final # "" THEN run.final ELSE run.status

\* _refresh_site_metrics, over the given runs.
Counted(id, rs) ==
    LET Has(set) == Cardinality({i \in DOMAIN rs : rs[i].site = id /\ Outcome(rs[i]) \in set})
    IN  [id |-> id, total |-> Has(Terminal), passed |-> Has(Success), failed |-> Has(Failure)]

\* URLs are removed and others are named (history).
Wishes(out, in) ==
    /\ gone' = (gone \cup out) \ in
    /\ raced' = (IF lookers = {} THEN raced \ out ELSE raced \cup out) \ in

\* The sites with the given counts written over theirs; one deleted stays so.
Written(ss, counts) ==
    {IF \E c \in counts : c.id = s.id
     THEN LET c == CHOOSE k \in counts : k.id = s.id
          IN  [s EXCEPT !.total = c.total, !.passed = c.passed, !.failed = c.failed]
     ELSE s : s \in ss}

-----------------------------------------------------------------------------
\* ensure_seeded_from_csv, called by the handlers that list the dataset: it
\* counts the rows, and imports the file when there are none.
FoundEmpty == sites = {}

Look(q) ==
    /\ q \notin lookers /\ FoundEmpty
    /\ lookers' = lookers \cup {q}
    /\ UNCHANGED <<sites, births, siteRuns, ending, behind, gone, raced>>

\* import_csv: rows that are there by now are updated.
Import(q) ==
    /\ q \in lookers /\ lookers' = lookers \ {q}
    /\ MayBear(Seeds \ Listed) /\ Born(Seeds \ Listed)
    /\ sites' = sites \cup {NewSite(u) : u \in Seeds \ Listed}
    /\ UNCHANGED <<siteRuns, ending, behind, gone, raced>>

\* A row that another request committed after the import had looked for it: the
\* unique canonical_url refuses the whole import, and the request fails.
ImportClashes(q) ==
    /\ q \in lookers /\ lookers' = lookers \ {q}
    /\ Seeds \cap Listed # {}
    /\ UNCHANGED <<sites, births, siteRuns, ending, behind, gone, raced>>

-----------------------------------------------------------------------------
\* create_site, and _ensure_site for a URL that is named.
Ensured(us) == sites \cup {NewSite(u) : u \in us \ Listed}
IdOf(u) == IF u \in Listed THEN SiteOf(u).id ELSE NewSite(u).id

CreateSite(u) ==
    /\ MayBear({u} \ Listed) /\ Born({u} \ Listed)
    /\ sites' = Ensured({u}) /\ Wishes({}, {u})
    /\ UNCHANGED <<siteRuns, ending, lookers, behind>>

\* update_site with a URL: refused when another site has it.  The runs stay with
\* the site, whatever URL they tested.
UpdateSite(s, u) ==
    /\ s.url # u /\ u \notin Listed
    /\ sites' = (sites \ {s}) \cup {[s EXCEPT !.url = u]}
    /\ Wishes({s.url}, {u})
    /\ UNCHANGED <<births, siteRuns, ending, lookers, behind>>

\* delete_site and bulk_delete_sites; the foreign key of the runs is set to null.
DeleteSites(ss) ==
    /\ ss # {} /\ sites' = sites \ ss
    /\ siteRuns' = [i \in DOMAIN siteRuns |->
                      IF \E s \in ss : s.id = siteRuns[i].site
                      THEN [siteRuns[i] EXCEPT !.site = NoSite] ELSE siteRuns[i]]
    /\ behind' = behind \ {s.id : s \in ss}
    /\ IF sites' = {} THEN gone' = {} /\ raced' = {} ELSE Wishes({s.url : s \in ss}, {})
    /\ UNCHANGED <<births, ending, lookers>>

-----------------------------------------------------------------------------
Append1(run) == [i \in 1..(Cardinality(DOMAIN siteRuns) + 1) |->
                    IF i \in DOMAIN siteRuns THEN siteRuns[i] ELSE run]
MayAppend == Cardinality(DOMAIN siteRuns) < MaxRuns

\* create_batch, for one URL; the canonical URLs of a batch are distinct.
CreateBatch(u) ==
    /\ MayAppend /\ MayBear({u} \ Listed) /\ Born({u} \ Listed)
    /\ siteRuns' = Append1([site |-> IdOf(u), status |-> "queued", final |-> ""])
    /\ sites' = Ensured({u}) /\ Wishes({}, {u})
    /\ UNCHANGED <<ending, lookers, behind>>

MarkRunning(i) ==
    /\ siteRuns[i].status = "queued"
    /\ siteRuns' = [siteRuns EXCEPT ![i].status = "running"]
    /\ UNCHANGED <<sites, births, ending, lookers, behind, gone, raced>>

\* The rows as the transaction sees them, with its own changes.
Ended(is, status) ==
    [i \in DOMAIN siteRuns |->
        IF i \in is
        THEN [siteRuns[i] EXCEPT !.final = status,
                                 !.status = IF status = "no_target" THEN "success" ELSE status]
        ELSE siteRuns[i]]

SitesOf(is) == {siteRuns[i].site : i \in is} \ {NoSite}

\* finalize_site_run and mark_site_run_cancelled (one run), cancel_batch (all that
\* have not ended): the rows are changed and the counts of their sites taken ...
TakeCounts(w, is, status) ==
    /\ ending[w] = NoWork /\ is # {}
    /\ ending' = [ending EXCEPT ![w] =
                    [ids |-> is, status |-> status,
                     counts |-> {Counted(id, Ended(is, status)) : id \in SitesOf(is)}, met |-> {}]]
    /\ UNCHANGED <<sites, births, siteRuns, lookers, behind, gone, raced>>

Open == {i \in DOMAIN siteRuns : Outcome(siteRuns[i]) \notin Terminal}
Held == UNION {ending[w].ids : w \in Writers}

BeginEnd(w) ==
    \/ \E i \in Open \ Held, status \in Finals : TakeCounts(w, {i}, status)
    \/ Held = {} /\ TakeCounts(w, Open, "cancelled")

\* The writers that are between their two steps when runs of these sites end.
Meets(ids) == [w \in Writers |-> IF ending[w] = NoWork THEN NoWork
                                 ELSE [ending[w] EXCEPT !.met = @ \cup ids]]

\* ... and committed.
CommitEnd(w) ==
    LET e == ending[w]
        rows == Ended(e.ids, e.status)
    IN  /\ e # NoWork
        /\ siteRuns' = rows /\ sites' = Written(sites, e.counts)
        /\ behind' = (behind \ {c.id : c \in e.counts}) \cup (e.met \cap {c.id : c \in e.counts})
        /\ ending' = [Meets(SitesOf(e.ids)) EXCEPT ![w] = NoWork]
        /\ UNCHANGED <<births, lookers, gone, raced>>

\* record_result: a run that has ended, in a batch of its own.
RecordResult(u, status) ==
    LET rows == Append1([site |-> IdOf(u), status |-> status, final |-> status])
    IN  /\ MayAppend /\ MayBear({u} \ Listed) /\ Born({u} \ Listed)
        /\ siteRuns' = rows
        /\ sites' = Written(Ensured({u}), {Counted(IdOf(u), rows)})
        /\ behind' = behind \ {IdOf(u)} /\ Wishes({}, {u})
        /\ ending' = Meets({IdOf(u)})
        /\ UNCHANGED lookers

SitesNext ==
    \/ \E q \in Lookers : Look(q) \/ Import(q) \/ ImportClashes(q)
    \/ \E u \in Urls : CreateSite(u) \/ CreateBatch(u) \/ \E s \in sites : UpdateSite(s, u)
    \/ \E ss \in SUBSET sites : DeleteSites(ss)
    \/ \E i \in DOMAIN siteRuns : MarkRunning(i)
    \/ \E w \in Writers : BeginEnd(w) \/ CommitEnd(w)
    \/ \E u \in Urls, status \in {"success", "failed"} : RecordResult(u, status)

SitesSpec == SitesInit /\ [][SitesNext]_siteVars

-----------------------------------------------------------------------------
SitesTypeOK ==
    /\ \A s \in sites : s.url \in Urls /\ s.total \in 0..MaxRuns /\ s.passed + s.failed <= s.total
    /\ \A s, r \in sites : (s.id = r.id \/ s.url = r.url) => s = r
    /\ \A u \in Urls : births[u] \in 0..MaxBirths[u]
    /\ \A i \in DOMAIN siteRuns :
          /\ siteRuns[i].site \in {s.id : s \in sites} \cup {NoSite}
          /\ siteRuns[i].status \in {"queued", "running"} \cup Terminal
          /\ siteRuns[i].final \in Finals \cup {""}
    /\ lookers \subseteq Lookers /\ gone \subseteq Urls /\ raced \subseteq Urls

\* The counts of a site are those of its runs, through deletions, renames, recorded
\* results and seeding, unless the transaction that wrote them overlapped another;
\* the next one that ends a run of the site puts them right.
CountsTrue ==
    \A s \in sites : s.id \notin behind =>
        LET End(run) == IF run.final = "" THEN run.status ELSE run.final
            Ends(set) == Cardinality({i \in DOMAIN siteRuns :
                                        siteRuns[i].site = s.id /\ End(siteRuns[i]) \in set})
        IN  /\ s.total = Ends(Terminal)
            /\ s.passed = Ends(Success) /\ s.failed = Ends(Failure)

\* Only an empty dataset is seeded: while some site is left, one that was removed
\* does not come back by itself, however many pages look.  Excepted is one removed
\* while a request that had found the dataset empty was still under way: its import
\* does not look again (dataset_repository.py:170-175, 199-203).
RemovedStaysOut == gone \cap Listed \subseteq raced

\* The dataset counts its runs right and keeps removed sites out, but for that race.
SitesTrue == SitesTypeOK /\ CountsTrue /\ RemovedStaysOut
=============================================================================
