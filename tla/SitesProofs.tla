----------------------------- MODULE SitesProofs -----------------------------
(***************************************************************************)
(* What is kept per site and per run, for any sites, writers, requests and *)
(* keys: the dataset counts its runs right and keeps removed sites out     *)
(* (SitesAreTrue, of DatasetSites), the long-term memory of a site blends  *)
(* what its runs have written (MemoryIsTrue, of SiteMemory), and a run     *)
(* shows every decision once (NotesAreTrue, of RunNotes).                  *)
(*                                                                         *)
(* SitesInv adds to SitesTrue what a writer holds between its two steps:   *)
(* the counts it has taken are those of the rows it will leave, unless it  *)
(* has met another (TakenRight).  MemoryInv adds to MemoryTrue what a      *)
(* transaction holds between its read and its commit (OverlapsKnown).      *)
(* NotesInv adds what a request has found and worked off (RequestsHold).   *)
(***************************************************************************)
EXTENDS DatasetSites, SiteMemory, RunNotes,
        FiniteSetTheorems, FunctionTheorems, WellFoundedInduction, TLAPS

SiteIds == Urls \X Nat
Count   == [id: SiteIds, total: 0..MaxRuns, passed: Nat, failed: Nat]
Site    == [id: SiteIds, url: Urls, total: 0..MaxRuns, passed: Nat, failed: Nat]
SiteRun == [site: SiteIds \cup {NoSite}, status: {"queued", "running"} \cup Terminal, final: Finals \cup {""}]
Work    == [ids: SUBSET Nat, status: Finals \cup {""}, counts: SUBSET Count, met: SUBSET SiteIds]

\* Sites are told apart by their ids and by their URLs.
ApartIn(ss)  == \A s, r \in ss : s.id = r.id \/ s.url = r.url => s = r
\* An id was given to a site that was created.
BornIds      == {id \in SiteIds : id[2] <= births[id[1]]}
IdsIn(ss)    == {s.id : s \in ss}
SumsIn(ss)   == \A s \in ss : s.passed + s.failed <= s.total

SiteTypes ==
    /\ sites \in SUBSET Site /\ births \in [Urls -> Nat] /\ \A u \in Urls : births[u] <= MaxBirths[u]
    /\ \E n \in 0..MaxRuns : siteRuns \in [1..n -> SiteRun]
    /\ ending \in [Writers -> Work] /\ lookers \subseteq Lookers /\ gone \subseteq Urls /\ raced \subseteq Urls

SitesApart == ApartIn(sites) /\ SumsIn(sites) /\ IdsIn(sites) \subseteq BornIds

\* A run that has not ended has no final status; its site is one of the dataset.
RunsPlaced ==
    \A i \in DOMAIN siteRuns :
        /\ siteRuns[i].site \in IdsIn(sites) \cup {NoSite}
        /\ siteRuns[i].status \in {"queued", "running"} => siteRuns[i].final = ""

\* The counts a writer has taken are those of the rows it will leave, unless another
\* ended runs of the site since, and they are taken for every site of its runs.
TakenRight(w) ==
    LET e == ending[w]
    IN  /\ e.ids \subseteq DOMAIN siteRuns
        /\ e # NoWork => e.status \in Finals
        /\ SitesOf(e.ids) \subseteq IdsIn(e.counts) /\ IdsIn(e.counts) \subseteq BornIds
        /\ SumsIn(e.counts) /\ \A c, d \in e.counts : c.id = d.id => c = d
        /\ \A c \in e.counts :
              c.id \notin e.met /\ c.id \in IdsIn(sites) => c = Counted(c.id, Ended(e.ids, e.status))

CountRight(s, rs) ==
    LET c == Counted(s.id, rs) IN s.total = c.total /\ s.passed = c.passed /\ s.failed = c.failed

CountsFit == \A s \in sites : s.id \notin behind => CountRight(s, siteRuns)

\* Of an empty dataset no URL counts as removed; what is removed while somebody is
\* about to import is known to be.
SeedsOnce ==
    /\ sites = {} => gone = {}
    /\ lookers # {} => gone \subseteq raced

SitesInv ==
    /\ SiteTypes /\ SitesApart /\ RunsPlaced /\ \A w \in Writers : TakenRight(w)
    /\ CountsFit /\ RemovedStaysOut /\ SeedsOnce

-----------------------------------------------------------------------------
(* Counting.                                                               *)

Told(id, rs, set) == {i \in DOMAIN rs : rs[i].site = id /\ Outcome(rs[i]) \in set}

\* The rows of two states tell the same of a site.
SameTold(id, rs, rt) ==
    /\ Told(id, rs, Terminal) = Told(id, rt, Terminal)
    /\ \A i \in Told(id, rs, Terminal) : Outcome(rs[i]) = Outcome(rt[i])

LEMMA Statuses4 ==
  /\ Success \subseteq Terminal /\ Failure \subseteq Terminal /\ Success \cap Failure = {}
  /\ "" \notin Finals /\ Terminal \subseteq Finals
  /\ "success" \in Terminal /\ "queued" \notin Finals /\ "running" \notin Finals
  /\ \A st \in Finals : st # "no_target" => st \in Terminal
BY DEF Success, External, Failure, Cancelled, Terminal, Finals

LEMMA CountedIs ==
  ASSUME NEW id, NEW rs
  PROVE  Counted(id, rs) = [id |-> id, total |-> Cardinality(Told(id, rs, Terminal)),
                            passed |-> Cardinality(Told(id, rs, Success)),
                            failed |-> Cardinality(Told(id, rs, Failure))]
BY DEF Counted, Told

LEMMA SameCounted ==
  ASSUME NEW id, NEW rs, NEW rt, SameTold(id, rs, rt)
  PROVE  Counted(id, rs) = Counted(id, rt)
<1>1. ASSUME NEW set, set \subseteq Terminal PROVE Told(id, rs, set) = Told(id, rt, set)
  <2>1. \A i : i \in Told(id, rs, set) <=> i \in Told(id, rs, Terminal) /\ Outcome(rs[i]) \in set
    BY <1>1 DEF Told
  <2>2. \A i : i \in Told(id, rt, set) <=> i \in Told(id, rt, Terminal) /\ Outcome(rt[i]) \in set
    BY <1>1 DEF Told
  <2> QED
    BY <2>1, <2>2 DEF SameTold
<1> QED
  BY <1>1, CountedIs, Statuses4

LEMMA CountedFits ==
  ASSUME NEW n \in 0..MaxRuns, NEW rs \in [1..n -> SiteRun], NEW id \in SiteIds
  PROVE  /\ Counted(id, rs) \in Count /\ Counted(id, rs).id = id
         /\ Counted(id, rs).passed + Counted(id, rs).failed <= Counted(id, rs).total
<1>0. n \in Nat /\ n <= MaxRuns /\ MaxRuns \in Nat
  BY SitesAssumption
<1>1. IsFiniteSet(1..n) /\ Cardinality(1..n) = n
  BY <1>0, FS_Interval
<1>2. ASSUME NEW set
      PROVE  /\ IsFiniteSet(Told(id, rs, set)) /\ Cardinality(Told(id, rs, set)) \in Nat
             /\ Cardinality(Told(id, rs, set)) <= n
  <2>1. Told(id, rs, set) \subseteq 1..n
    BY DEF Told
  <2> QED
    BY <1>1, <2>1, FS_Subset, FS_CardinalityType
<1> PICK t, p, f : t = Told(id, rs, Terminal) /\ p = Told(id, rs, Success) /\ f = Told(id, rs, Failure)
  OBVIOUS
<1>3. p \cup f \subseteq t /\ p \cap f = {}
  BY Statuses4 DEF Told
<1>4. /\ IsFiniteSet(p) /\ IsFiniteSet(f) /\ IsFiniteSet(t)
      /\ Cardinality(p) \in Nat /\ Cardinality(f) \in Nat /\ Cardinality(t) \in 0..MaxRuns
  BY <1>0, <1>2
<1>5. Cardinality(p \cup f) = Cardinality(p) + Cardinality(f)
  <2>1. Cardinality(p \cup f) = Cardinality(p) + Cardinality(f) - Cardinality(p \cap f)
    BY <1>4, FS_Union
  <2>2. Cardinality(p \cap f) = 0
    BY <1>3, FS_EmptySet
  <2> QED
    BY <1>4, <2>1, <2>2
<1>6. Cardinality(p \cup f) <= Cardinality(t)
  BY <1>3, <1>4, FS_Subset
<1>7. Counted(id, rs) = [id |-> id, total |-> Cardinality(t), passed |-> Cardinality(p), failed |-> Cardinality(f)]
  BY CountedIs
<1> QED
  BY <1>4, <1>5, <1>6, <1>7 DEF Count

\* The rows, once some have ended.
EndedOf(rs, is, st) ==
    [i \in DOMAIN rs |->
        IF i \in is
        THEN [rs[i] EXCEPT !.final = st, !.status = IF st = "no_target" THEN "success" ELSE st]
        ELSE rs[i]]

LEMMA EndedIs == \A is, st : Ended(is, st) = EndedOf(siteRuns, is, st)
BY DEF Ended, EndedOf

LEMMA EndedFits ==
  ASSUME NEW n \in Nat, NEW rs \in [1..n -> SiteRun], NEW is, NEW st \in Finals
  PROVE  /\ EndedOf(rs, is, st) \in [1..n -> SiteRun]
         /\ \A i \in 1..n :
               /\ EndedOf(rs, is, st)[i].site = rs[i].site
               /\ i \notin is => EndedOf(rs, is, st)[i] = rs[i]
               /\ i \in is => Outcome(EndedOf(rs, is, st)[i]) = st
               /\ i \in is => EndedOf(rs, is, st)[i].status \in Terminal
<1> PICK to : to = IF st = "no_target" THEN "success" ELSE st
  OBVIOUS
<1>1. to \in Terminal /\ st # ""
  BY Statuses4
<1>2. EndedOf(rs, is, st) = [i \in 1..n |-> IF i \in is THEN [rs[i] EXCEPT !.final = st, !.status = to] ELSE rs[i]]
  BY DEF EndedOf
<1>3. ASSUME NEW i \in 1..n, NEW r, r = [rs[i] EXCEPT !.final = st, !.status = to]
      PROVE  r \in SiteRun /\ r.site = rs[i].site /\ r.final = st /\ r.status = to
  <2>1. rs[i] \in SiteRun
    OBVIOUS
  <2> QED
    BY <1>1, <1>3, <2>1 DEF SiteRun
<1> HIDE DEF SiteRun
<1>4. \A i \in 1..n : [rs[i] EXCEPT !.final = st, !.status = to] \in SiteRun
  BY <1>3
<1>5. EndedOf(rs, is, st) \in [1..n -> SiteRun]
  BY <1>2, <1>4
<1>6. ASSUME NEW i \in 1..n, i \in is
      PROVE  /\ EndedOf(rs, is, st)[i].site = rs[i].site /\ Outcome(EndedOf(rs, is, st)[i]) = st
             /\ EndedOf(rs, is, st)[i].status \in Terminal
  <2>1. EndedOf(rs, is, st)[i] = [rs[i] EXCEPT !.final = st, !.status = to]
    BY <1>2, <1>6
  <2> QED
    BY <1>1, <1>3, <2>1 DEF Outcome
<1>7. \A i \in 1..n : i \notin is => EndedOf(rs, is, st)[i] = rs[i]
  BY <1>2
<1> QED
  BY <1>5, <1>6, <1>7

\* Rows that go on: of the given sites they tell what they told, also when a writer
\* lets the ones it has taken end.
RunsGo(rs, rt, ids) ==
    /\ DOMAIN rs \subseteq DOMAIN rt
    /\ \A i \in DOMAIN rs :
          /\ rt[i].site = rs[i].site \/ (rt[i].site = NoSite /\ rs[i].site \notin ids)
          /\ \/ Outcome(rt[i]) = Outcome(rs[i]) \/ rs[i].site \notin ids
             \/ Outcome(rt[i]) \notin Terminal /\ Outcome(rs[i]) \notin Terminal
    /\ \A i \in DOMAIN rt : i \notin DOMAIN rs => Outcome(rt[i]) \notin Terminal \/ rt[i].site \notin ids

LEMMA GoTells ==
  ASSUME NEW rs, NEW rt, NEW ids, NoSite \notin ids, RunsGo(rs, rt, ids), NEW id \in ids
  PROVE  SameTold(id, rs, rt)
BY DEF RunsGo, SameTold, Told

LEMMA GoEnds ==
  ASSUME NEW m \in Nat, NEW n \in Nat, NEW rs \in [1..m -> SiteRun], NEW rt \in [1..n -> SiteRun],
         NEW ids, NoSite \notin ids, RunsGo(rs, rt, ids), NEW id \in ids,
         NEW is, is \subseteq 1..m, NEW st \in Finals
  PROVE  SameTold(id, EndedOf(rs, is, st), EndedOf(rt, is, st))
<1> PICK es, et : es = EndedOf(rs, is, st) /\ et = EndedOf(rt, is, st)
  OBVIOUS
<1>1. /\ es \in [1..m -> SiteRun]
      /\ \A i \in 1..m : /\ es[i].site = rs[i].site
                         /\ (i \notin is => es[i] = rs[i]) /\ (i \in is => Outcome(es[i]) = st)
  BY EndedFits
<1>2. /\ et \in [1..n -> SiteRun]
      /\ \A i \in 1..n : /\ et[i].site = rt[i].site
                         /\ (i \notin is => et[i] = rt[i]) /\ (i \in is => Outcome(et[i]) = st)
  BY EndedFits
<1>3. DOMAIN es = 1..m /\ DOMAIN et = 1..n /\ DOMAIN rs = 1..m /\ DOMAIN rt = 1..n
  BY <1>1, <1>2
<1>4. RunsGo(es, et, ids)
  <2>1. 1..m \subseteq 1..n
    BY <1>3 DEF RunsGo
  <2>2. ASSUME NEW i \in 1..m
        PROVE  /\ et[i].site = es[i].site \/ (et[i].site = NoSite /\ es[i].site \notin ids)
               /\ \/ Outcome(et[i]) = Outcome(es[i]) \/ es[i].site \notin ids
                  \/ Outcome(et[i]) \notin Terminal /\ Outcome(es[i]) \notin Terminal
    <3>1. i \in 1..n
      BY <2>1
    <3> QED
      BY <1>1, <1>2, <1>3, <3>1 DEF RunsGo
  <2>3. \A i \in 1..n : i \notin 1..m => Outcome(et[i]) \notin Terminal \/ et[i].site \notin ids
    BY <1>2, <1>3 DEF RunsGo
  <2> QED
    BY <1>3, <2>1, <2>2, <2>3 DEF RunsGo
<1> QED
  BY <1>4, GoTells

-----------------------------------------------------------------------------
(* Steps that end no runs.                                                 *)

LEMMA NoSiteIsNone == NoSite \notin SiteIds
<1>1. ASSUME NEW u, NEW k PROVE <<u, k>> # <<>>
  <2>1. Len(<<u, k>>) = 2 /\ Len(<<>>) = 0
    OBVIOUS
  <2> QED
    BY <2>1
<1> QED
  BY <1>1 DEF SiteIds, NoSite

LEMMA SiteFacts ==
  ASSUME SitesInv
  PROVE  /\ sites \in SUBSET Site /\ births \in [Urls -> Nat] /\ \A u \in Urls : births[u] <= MaxBirths[u]
         /\ ending \in [Writers -> Work] /\ lookers \subseteq Lookers
         /\ gone \subseteq Urls /\ raced \subseteq Urls
         /\ ApartIn(sites) /\ SumsIn(sites) /\ IdsIn(sites) \subseteq BornIds
         /\ \A w \in Writers : TakenRight(w)
         /\ RunsPlaced /\ CountsFit /\ RemovedStaysOut /\ SeedsOnce
         /\ IdsIn(sites) \subseteq SiteIds
         /\ MaxRuns \in Nat /\ Seeds \subseteq Urls
<1>1. IdsIn(sites) \subseteq SiteIds
  BY DEF SitesInv, SitesApart, BornIds
<1> QED
  BY <1>1, SitesAssumption DEF SitesInv, SiteTypes, SitesApart

LEMMA RunFacts ==
  ASSUME SitesInv
  PROVE  \E n \in 0..MaxRuns : siteRuns \in [1..n -> SiteRun]
BY DEF SitesInv, SiteTypes

\* What one writer has taken, stated of the two states of the rows: it stays right
\* for the sites that the writer has not met.
LEMMA TakenStays ==
  ASSUME SitesInv, NEW w \in Writers, NEW e, e = ending[w], NEW f, f = ending'[w],
         f.ids = e.ids, f.status = e.status, f.counts = e.counts, e.met \subseteq f.met, e = NoWork => f = NoWork,
         NEW m \in Nat, NEW n \in Nat, siteRuns \in [1..m -> SiteRun], siteRuns' \in [1..n -> SiteRun],
         NEW ids, ids \subseteq SiteIds, RunsGo(siteRuns, siteRuns', ids),
         BornIds \subseteq BornIds',
         \A id \in BornIds : id \in IdsIn(sites)' => id \in f.met \/ (id \in ids /\ id \in IdsIn(sites))
  PROVE  TakenRight(w)'
<1>0. NoSite \notin ids
  BY NoSiteIsNone
<1>1. /\ e.ids \subseteq DOMAIN siteRuns /\ (e # NoWork => e.status \in Finals)
      /\ SitesOf(e.ids) \subseteq IdsIn(e.counts) /\ IdsIn(e.counts) \subseteq BornIds
      /\ SumsIn(e.counts) /\ \A c, d \in e.counts : c.id = d.id => c = d
      /\ \A c \in e.counts :
              c.id \notin e.met /\ c.id \in IdsIn(sites) => c = Counted(c.id, EndedOf(siteRuns, e.ids, e.status))
  BY EndedIs DEF SitesInv, TakenRight
<1>2. e.ids \subseteq 1..m /\ e.ids \subseteq DOMAIN siteRuns'
  BY <1>1 DEF RunsGo
<1>3. {siteRuns'[i].site : i \in e.ids} \ {NoSite} \subseteq IdsIn(e.counts)
  BY <1>1 DEF RunsGo, SitesOf
<1>4. ASSUME NEW c \in e.counts, c.id \notin f.met, c.id \in IdsIn(sites)'
      PROVE  c = Counted(c.id, EndedOf(siteRuns', e.ids, e.status))
  <2>1. c.id \in ids /\ c.id \in IdsIn(sites) /\ c.id \notin e.met
    BY <1>1, <1>4 DEF IdsIn
  <2>2. c = Counted(c.id, EndedOf(siteRuns, e.ids, e.status))
    BY <1>1, <1>4, <2>1
  <2>3. e # NoWork
    <3>1. NoWork.counts = {}
      BY DEF NoWork
    <3> QED
      BY <1>4, <3>1
  <2>4. e.status \in Finals
    BY <1>1, <2>3
  <2>5. SameTold(c.id, EndedOf(siteRuns, e.ids, e.status), EndedOf(siteRuns', e.ids, e.status))
    BY <1>0, <1>2, <2>1, <2>4, GoEnds
  <2> QED
    BY <2>2, <2>5, SameCounted
<1>5. IdsIn(e.counts) \subseteq BornIds'
  BY <1>1
<1>6. EndedOf(siteRuns', e.ids, e.status) = Ended(e.ids, e.status)'
  BY DEF Ended, EndedOf
<1>7. \A c \in f.counts : c.id \notin f.met /\ c.id \in IdsIn(sites)' => c = Counted(c.id, Ended(f.ids, f.status)')
  BY <1>4, <1>6
<1>8. SitesOf(f.ids)' \subseteq IdsIn(f.counts)
  BY <1>3 DEF SitesOf
<1>9. /\ f.ids \subseteq DOMAIN siteRuns' /\ (f # NoWork => f.status \in Finals)
      /\ IdsIn(f.counts) \subseteq BornIds'
      /\ SumsIn(f.counts) /\ \A c, d \in f.counts : c.id = d.id => c = d
  BY <1>1, <1>2, <1>5
<1> QED
  BY <1>7, <1>8, <1>9 DEF TakenRight

\* A site that goes on, with its counts; and one that is new.
GoesOn(s) == \E r \in sites : /\ s.id = r.id /\ s.total = r.total /\ s.passed = r.passed /\ s.failed = r.failed
Fresh(s)  == s.id \notin BornIds /\ s.total = 0 /\ s.passed = 0 /\ s.failed = 0

LEMMA SitesQuiet ==
  ASSUME SitesInv, ending' = ending,
         NEW m \in Nat, siteRuns \in [1..m -> SiteRun], NEW n \in 0..MaxRuns, siteRuns' \in [1..n -> SiteRun],
         RunsGo(siteRuns, siteRuns', IdsIn(sites)'), RunsPlaced',
         sites' \in SUBSET Site, ApartIn(sites)', IdsIn(sites)' \subseteq BornIds',
         births' \in [Urls -> Nat], \A u \in Urls : births'[u] <= MaxBirths[u], BornIds \subseteq BornIds',
         \A s \in sites' : GoesOn(s) \/ Fresh(s),
         \A s \in sites' : s.id \in behind => s.id \in behind',
         lookers' \subseteq Lookers, gone' \subseteq Urls, raced' \subseteq Urls, RemovedStaysOut', SeedsOnce'
  PROVE  SitesInv'
<1>0. n \in Nat /\ IdsIn(sites)' \subseteq SiteIds /\ NoSite \notin IdsIn(sites)'
  BY NoSiteIsNone, SiteFacts DEF IdsIn, Site
<1>1. SiteTypes'
  <2>1. ending' \in [Writers -> Work]
    BY SiteFacts
  <2> QED
    BY <2>1 DEF SiteTypes
<1>2. \A id \in BornIds : id \in IdsIn(sites)' => id \in IdsIn(sites)
  BY DEF IdsIn, GoesOn, Fresh
<1>3. ASSUME NEW w \in Writers PROVE TakenRight(w)'
  BY <1>0, <1>2, TakenStays
<1>4. SumsIn(sites)'
  <2>1. SumsIn(sites) /\ sites \in SUBSET Site
    BY SiteFacts
  <2> QED
    BY <2>1 DEF SumsIn, GoesOn, Fresh
<1>5. ASSUME NEW s \in sites', s.id \notin behind' PROVE CountRight(s, siteRuns')
  <2>1. s.id \in IdsIn(sites)'
    BY DEF IdsIn
  <2>2. CASE GoesOn(s)
    <3>1. PICK r \in sites : s.id = r.id /\ s.total = r.total /\ s.passed = r.passed /\ s.failed = r.failed
      BY <2>2 DEF GoesOn
    <3>2. CountRight(r, siteRuns)
      BY <1>5, <3>1, SiteFacts DEF CountsFit
    <3>3. SameTold(s.id, siteRuns, siteRuns')
      BY <1>0, <2>1, GoTells
    <3>4. Counted(s.id, siteRuns) = Counted(s.id, siteRuns')
      BY <3>3, SameCounted
    <3> QED
      BY <3>1, <3>2, <3>4 DEF CountRight
  <2>3. CASE Fresh(s)
    <3>1. \A i \in 1..m : siteRuns[i].site # s.id
      <4>1. s.id \notin IdsIn(sites) /\ s.id # NoSite
        BY <1>0, <2>1, <2>3, SiteFacts DEF Fresh
      <4>2. \A i \in 1..m : siteRuns[i].site \in IdsIn(sites) \cup {NoSite}
        BY DEF SitesInv, RunsPlaced
      <4> QED
        BY <4>1, <4>2
    <3>2. \A i \in 1..n : siteRuns'[i].site = s.id => Outcome(siteRuns'[i]) \notin Terminal
      BY <1>0, <2>1, <3>1 DEF RunsGo
    <3>3. \A set : set \subseteq Terminal => Told(s.id, siteRuns', set) = {}
      BY <3>2 DEF Told
    <3>4. Counted(s.id, siteRuns') = [id |-> s.id, total |-> 0, passed |-> 0, failed |-> 0]
      BY <3>3, CountedIs, Statuses4, FS_EmptySet
    <3> QED
      BY <2>3, <3>4 DEF CountRight, Fresh
  <2> QED
    BY <2>2, <2>3
<1>6. CountsFit'
  BY <1>5 DEF CountsFit
<1>7. SitesApart'
  BY <1>4 DEF SitesApart
<1> QED
  BY <1>1, <1>3, <1>6, <1>7 DEF SitesInv

\* Sites are created for the URLs that have none.
LEMMA SitesGrow ==
  ASSUME SitesInv, NEW us, us \subseteq Urls, NEW ss, ss = Ensured(us),
         MayBear(us \ Listed), Born(us \ Listed)
  PROVE  /\ ss \in SUBSET Site /\ ApartIn(ss) /\ IdsIn(ss) \subseteq BornIds'
         /\ births' \in [Urls -> Nat] /\ \A u \in Urls : births'[u] <= MaxBirths[u]
         /\ BornIds \subseteq BornIds' /\ IdsIn(sites) \subseteq IdsIn(ss)
         /\ \A s \in ss : GoesOn(s) \/ Fresh(s)
         /\ SumsIn(ss) /\ {s.url : s \in ss} = Listed \cup us
<1> PICK new : new = us \ Listed
  OBVIOUS
<1>1. /\ sites \in SUBSET Site /\ births \in [Urls -> Nat] /\ \A u \in Urls : births[u] <= MaxBirths[u]
      /\ ApartIn(sites) /\ SumsIn(sites) /\ IdsIn(sites) \subseteq BornIds /\ MaxRuns \in Nat
  BY SiteFacts
<1>2. /\ new \subseteq Urls /\ \A u \in new : u \in us /\ u \notin Listed /\ births[u] < MaxBirths[u]
      /\ births' = [u \in Urls |-> births[u] + (IF u \in new THEN 1 ELSE 0)]
      /\ ss = sites \cup {NewSite(u) : u \in new}
      /\ MaxBirths \in [Urls -> Nat]
  BY SitesAssumption DEF MayBear, Born, Ensured
<1>3. /\ births' \in [Urls -> Nat] /\ \A u \in Urls : births'[u] <= MaxBirths[u]
      /\ \A u \in Urls : births'[u] >= births[u] /\ (u \in new => births'[u] = births[u] + 1)
  BY <1>1, <1>2
<1>4. BornIds \subseteq BornIds'
  <2> SUFFICES ASSUME NEW id \in SiteIds, id[2] <= births[id[1]] PROVE id[2] <= births'[id[1]]
    BY DEF BornIds
  <2>1. id[1] \in Urls /\ id[2] \in Nat
    BY DEF SiteIds
  <2> QED
    BY <1>1, <1>3, <2>1
<1>5. ASSUME NEW u \in new
      PROVE  /\ NewSite(u) \in Site /\ NewSite(u).url = u /\ NewSite(u).id = <<u, births[u] + 1>>
             /\ NewSite(u).id \in BornIds' /\ Fresh(NewSite(u))
             /\ NewSite(u).passed + NewSite(u).failed <= NewSite(u).total
  <2> PICK id : id = <<u, births[u] + 1>>
    OBVIOUS
  <2>1. id \in SiteIds /\ id[1] = u /\ id[2] = births[u] + 1 /\ births[u] \in Nat
    BY <1>1, <1>2 DEF SiteIds
  <2>2. NewSite(u) = [id |-> id, url |-> u, total |-> 0, passed |-> 0, failed |-> 0]
    BY DEF NewSite
  <2>3. id \in BornIds' /\ id \notin BornIds
    BY <1>2, <1>3, <2>1 DEF BornIds
  <2>4. 0 \in 0 .. MaxRuns
    BY <1>1
  <2> QED
    BY <1>2, <2>1, <2>2, <2>3, <2>4 DEF Site, Fresh
<1>6. ss \in SUBSET Site /\ SumsIn(ss)
  BY <1>1, <1>2, <1>5 DEF SumsIn
<1>7. ApartIn(ss)
  <2>1. ASSUME NEW s \in sites, NEW u \in new PROVE s.id # NewSite(u).id /\ s.url # NewSite(u).url
    <3>1. s.id \in BornIds /\ s.url \in Listed
      BY <1>1 DEF IdsIn, Listed
    <3>2. NewSite(u).id \notin BornIds
      BY <1>5 DEF Fresh
    <3> QED
      BY <1>2, <1>5, <3>1, <3>2
  <2>2. ASSUME NEW u \in new, NEW v \in new, NewSite(u).id = NewSite(v).id \/ NewSite(u).url = NewSite(v).url
        PROVE  u = v
    <3>1. <<u, births[u] + 1>> = <<v, births[v] + 1>> => u = v
      OBVIOUS
    <3> QED
      BY <1>5, <2>2, <3>1
  <2> QED
    BY <1>1, <1>2, <2>1, <2>2 DEF ApartIn
<1>8. IdsIn(ss) \subseteq BornIds' /\ IdsIn(sites) \subseteq IdsIn(ss)
  BY <1>1, <1>2, <1>4, <1>5 DEF IdsIn
<1>9. \A s \in ss : GoesOn(s) \/ Fresh(s)
  BY <1>2, <1>5 DEF GoesOn
<1>10. {s.url : s \in ss} = Listed \cup us
  <2>1. \A s \in ss : s.url \in Listed \cup us
    BY <1>2, <1>5 DEF Listed
  <2>2. ASSUME NEW u \in Listed \cup us PROVE \E s \in ss : s.url = u
    <3>1. CASE u \in Listed
      BY <1>2, <3>1 DEF Listed
    <3>2. CASE u \notin Listed
      BY <1>2, <1>5, <3>2
    <3> QED
      BY <3>1, <3>2
  <2> QED
    BY <2>1, <2>2
<1> QED
  BY <1>3, <1>4, <1>6, <1>7, <1>8, <1>9, <1>10

\* The rows do not change.
LEMMA GoNowhere ==
  ASSUME SitesInv, NEW ids
  PROVE  RunsGo(siteRuns, siteRuns, ids)
BY DEF RunsGo

\* URLs that are removed leave the list, and those that join it are named.
LEMMA WishesKeep ==
  ASSUME SitesInv, NEW out \in SUBSET Urls, NEW in, Wishes(out, in), lookers' = lookers,
         Listed' \subseteq (Listed \ out) \cup in
  PROVE  /\ gone' \subseteq Urls /\ raced' \subseteq Urls /\ RemovedStaysOut'
         /\ lookers' # {} => gone' \subseteq raced'
         /\ out = {} => gone' \subseteq gone
<1>1. /\ gone \subseteq Urls /\ raced \subseteq Urls /\ gone \cap Listed \subseteq raced
      /\ lookers # {} => gone \subseteq raced
  BY SiteFacts DEF RemovedStaysOut, SeedsOnce
<1>2. /\ gone' = (gone \cup out) \ in
      /\ \A v : v \in raced' <=> v \notin in /\ IF lookers = {} THEN v \in raced /\ v \notin out
                                             ELSE v \in raced \/ v \in out
  BY DEF Wishes
<1>3. \A v \in gone' : v \in Listed' => v \in raced'
  BY <1>1, <1>2
<1>4. RemovedStaysOut'
  BY <1>3 DEF RemovedStaysOut
<1> QED
  BY <1>1, <1>2, <1>4

\* The file is imported by who knows of all removals, or sites are created that
\* somebody names.
LEMMA SitesCreated ==
  ASSUME SitesInv, NEW us, us \subseteq Urls, MayBear(us \ Listed), Born(us \ Listed), sites' = Ensured(us),
         siteRuns' = siteRuns, ending' = ending, behind' = behind,
         \/ Wishes({}, us) /\ lookers' = lookers
         \/ gone' = gone /\ raced' = raced /\ gone \subseteq raced /\ lookers' \subseteq lookers
  PROVE  SitesInv'
<1>1. /\ sites' \in SUBSET Site /\ ApartIn(sites)' /\ IdsIn(sites)' \subseteq BornIds'
      /\ births' \in [Urls -> Nat] /\ \A u \in Urls : births'[u] <= MaxBirths[u]
      /\ BornIds \subseteq BornIds' /\ IdsIn(sites) \subseteq IdsIn(sites)'
      /\ \A s \in sites' : GoesOn(s) \/ Fresh(s)
      /\ {s.url : s \in sites'} = Listed \cup us
  <2> PICK ss : ss = Ensured(us)
    OBVIOUS
  <2>1. /\ ss \in SUBSET Site /\ ApartIn(ss) /\ IdsIn(ss) \subseteq BornIds'
        /\ births' \in [Urls -> Nat] /\ \A u \in Urls : births'[u] <= MaxBirths[u]
        /\ BornIds \subseteq BornIds' /\ IdsIn(sites) \subseteq IdsIn(ss)
        /\ \A s \in ss : GoesOn(s) \/ Fresh(s)
        /\ {s.url : s \in ss} = Listed \cup us
    BY SitesGrow
  <2> QED
    BY <2>1 DEF ApartIn, IdsIn
<1>2. PICK n \in 0..MaxRuns : siteRuns \in [1..n -> SiteRun]
  BY RunFacts
<1>3. n \in Nat /\ siteRuns' \in [1..n -> SiteRun] /\ RunsGo(siteRuns, siteRuns', IdsIn(sites)')
  BY <1>2, GoNowhere, SiteFacts
<1>4. RunsPlaced'
  BY <1>1, SiteFacts DEF RunsPlaced
<1>5. Listed' = Listed \cup us /\ (sites' = {} => sites = {})
  BY <1>1 DEF Listed, Ensured
<1>6. /\ gone' \subseteq Urls /\ raced' \subseteq Urls /\ RemovedStaysOut'
      /\ lookers' # {} => gone' \subseteq raced'
      /\ gone' \subseteq gone /\ lookers' \subseteq Lookers
  <2>1. CASE Wishes({}, us) /\ lookers' = lookers
    BY <1>5, <2>1, WishesKeep, SiteFacts
  <2>2. CASE gone' = gone /\ raced' = raced /\ gone \subseteq raced /\ lookers' \subseteq lookers
    BY <2>2, SiteFacts DEF RemovedStaysOut
  <2> QED
    BY <2>1, <2>2
<1>7. SeedsOnce'
  BY <1>5, <1>6, SiteFacts DEF SeedsOnce
<1> QED
  BY <1>1, <1>2, <1>3, <1>4, <1>5, <1>6, <1>7, SitesQuiet

\* The same sites and rows: somebody looks, or has looked in vain.
LEMMA SitesLook ==
  ASSUME SitesInv, NEW q \in Lookers, Look(q) \/ ImportClashes(q)
  PROVE  SitesInv'
<1>1. /\ sites' = sites /\ births' = births /\ siteRuns' = siteRuns /\ ending' = ending /\ behind' = behind
      /\ gone' = gone /\ raced' = raced
      /\ lookers' \subseteq Lookers /\ (lookers' # {} => sites = {} \/ lookers # {})
  BY SiteFacts DEF Look, ImportClashes, FoundEmpty
<1>2. SiteTypes'
  BY <1>1 DEF SitesInv, SiteTypes
<1>3. SitesApart' /\ RunsPlaced' /\ CountsFit' /\ RemovedStaysOut'
  BY <1>1 DEF SitesInv, SitesApart, BornIds, RunsPlaced, CountsFit, RemovedStaysOut, Listed
<1>4. SeedsOnce'
  BY <1>1 DEF SitesInv, SeedsOnce
<1>5. \A w \in Writers : TakenRight(w)'
  BY <1>1 DEF SitesInv, TakenRight, BornIds, Ended, SitesOf
<1> QED
  BY <1>2, <1>3, <1>4, <1>5 DEF SitesInv

LEMMA SitesImport ==
  ASSUME SitesInv, NEW q \in Lookers, Import(q)
  PROVE  SitesInv'
<1>1. gone \subseteq raced /\ Seeds \subseteq Urls
  BY SiteFacts DEF Import, SeedsOnce
<1> QED
  BY <1>1, SitesCreated DEF Import, Ensured

LEMMA SitesCreate ==
  ASSUME SitesInv, NEW u \in Urls, CreateSite(u)
  PROVE  SitesInv'
BY SitesCreated DEF CreateSite

\* The id of a URL is that of its site, once there is one.
LEMMA IdOfKnown ==
  ASSUME SitesInv, NEW u \in Urls, NEW ss, ss = Ensured({u}), IdsIn(ss) \subseteq SiteIds
  PROVE  IdOf(u) \in IdsIn(ss) /\ IdOf(u) \in SiteIds
<1>1. CASE u \in Listed
  <2>1. \E s \in sites : s.url = u
    BY <1>1 DEF Listed
  <2>2. SiteOf(u) \in sites
    BY <2>1 DEF SiteOf
  <2>3. SiteOf(u).id \in IdsIn(ss)
    BY <2>2 DEF IdsIn, Ensured
  <2> QED
    BY <1>1, <2>3 DEF IdOf
<1>2. CASE u \notin Listed
  <2>1. NewSite(u) \in ss
    BY <1>2 DEF Ensured
  <2>2. NewSite(u).id \in IdsIn(ss)
    BY <2>1 DEF IdsIn
  <2> QED
    BY <1>2, <2>2 DEF IdOf
<1> QED
  BY <1>1, <1>2

\* A row more.
RowAdded(m, run, rows) ==
    /\ m \in Nat /\ m + 1 \in 0..MaxRuns /\ m + 1 \in Nat
    /\ rows \in [1..(m + 1) -> SiteRun] /\ 1..m \subseteq 1..(m + 1)
    /\ \A i \in 1..(m + 1) : rows[i] = IF i \in 1..m THEN siteRuns[i] ELSE run

LEMMA RowMore ==
  ASSUME SitesInv, NEW m \in 0..MaxRuns, siteRuns \in [1..m -> SiteRun], MayAppend, NEW run \in SiteRun,
         NEW rows, rows = Append1(run)
  PROVE  RowAdded(m, run, rows)
<1>1. m \in Nat /\ MaxRuns \in Nat
  BY SiteFacts
<1>2. DOMAIN siteRuns = 1..m /\ Cardinality(1..m) = m
  BY <1>1, FS_Interval
<1>3. m + 1 \in 0..MaxRuns /\ m + 1 \in Nat /\ 1..m \subseteq 1..(m + 1)
  BY <1>1, <1>2 DEF MayAppend
<1>4. rows = [i \in 1..(m + 1) |-> IF i \in 1..m THEN siteRuns[i] ELSE run]
  BY <1>2 DEF Append1
<1>5. \A i \in 1..m : siteRuns[i] \in SiteRun
  OBVIOUS
<1> QED
  BY <1>1, <1>3, <1>4, <1>5 DEF RowAdded

\* A run is queued for a site, which may be new.
LEMMA SitesBatch ==
  ASSUME SitesInv, NEW u \in Urls, CreateBatch(u)
  PROVE  SitesInv'
<1>0. PICK run : run = [site |-> IdOf(u), status |-> "queued", final |-> ""]
  OBVIOUS
<1>1. /\ MayAppend /\ MayBear({u} \ Listed) /\ Born({u} \ Listed)
      /\ siteRuns' = Append1(run)
      /\ sites' = Ensured({u}) /\ Wishes({}, {u})
      /\ ending' = ending /\ lookers' = lookers /\ behind' = behind
  BY <1>0 DEF CreateBatch
<1>2. /\ sites' \in SUBSET Site /\ ApartIn(sites') /\ IdsIn(sites') \subseteq BornIds'
      /\ births' \in [Urls -> Nat] /\ \A v \in Urls : births'[v] <= MaxBirths[v]
      /\ BornIds \subseteq BornIds' /\ IdsIn(sites) \subseteq IdsIn(sites')
      /\ \A s \in sites' : GoesOn(s) \/ Fresh(s)
      /\ {s.url : s \in sites'} = Listed \cup {u}
  <2> PICK ss : ss = Ensured({u})
    OBVIOUS
  <2>1. {u} \subseteq Urls /\ sites' = ss
    BY <1>1
  <2>2. /\ ss \in SUBSET Site /\ ApartIn(ss) /\ IdsIn(ss) \subseteq BornIds'
        /\ births' \in [Urls -> Nat] /\ \A v \in Urls : births'[v] <= MaxBirths[v]
        /\ BornIds \subseteq BornIds' /\ IdsIn(sites) \subseteq IdsIn(ss)
        /\ \A s \in ss : GoesOn(s) \/ Fresh(s)
        /\ {s.url : s \in ss} = Listed \cup {u}
    BY <1>1, <2>1, SitesGrow
  <2> QED
    BY <2>1, <2>2
<1>3. IdOf(u) \in IdsIn(sites') /\ IdOf(u) \in SiteIds
  <2>1. IdsIn(sites') \subseteq SiteIds
    BY <1>2 DEF BornIds
  <2> QED
    BY <1>1, <2>1, IdOfKnown
<1>4. PICK m \in 0..MaxRuns : siteRuns \in [1..m -> SiteRun]
  BY RunFacts
<1>6. run \in SiteRun /\ run.site = IdOf(u) /\ run.status = "queued" /\ run.final = "" /\ Outcome(run) = "queued"
  BY <1>0, <1>3 DEF SiteRun, Outcome
<1>8. /\ siteRuns' \in [1..(m + 1) -> SiteRun] /\ m + 1 \in 0..MaxRuns /\ 1..m \subseteq 1..(m + 1) /\ m \in Nat
      /\ \A i \in 1..(m + 1) : siteRuns'[i] = IF i \in 1..m THEN siteRuns[i] ELSE run
  <2> PICK rows : rows = Append1(run)
    OBVIOUS
  <2>2. MayAppend /\ run \in SiteRun
    BY <1>1, <1>6
  <2>1. RowAdded(m, run, rows)
    BY <1>4, <2>2, RowMore, Zenon
  <2> QED
    BY <1>1, <2>1 DEF RowAdded
<1>9. RunsGo(siteRuns, siteRuns', IdsIn(sites)')
  <2>1. Outcome(run) \notin Terminal
    BY <1>6, Statuses4
  <2> QED
    BY <1>4, <1>8, <2>1 DEF RunsGo
<1>10. RunsPlaced'
  <2>1. \A i \in 1..m : /\ siteRuns[i].site \in IdsIn(sites) \cup {NoSite}
                        /\ siteRuns[i].status \in {"queued", "running"} => siteRuns[i].final = ""
    BY <1>4, SiteFacts DEF RunsPlaced
  <2> QED
    BY <1>2, <1>3, <1>6, <1>8, <2>1 DEF RunsPlaced, IdsIn
<1>11. /\ gone' \subseteq Urls /\ raced' \subseteq Urls /\ RemovedStaysOut'
       /\ lookers' # {} => gone' \subseteq raced'
       /\ gone' \subseteq gone
  <2>1. Listed' = Listed \cup {u}
    BY <1>2 DEF Listed
  <2> QED
    BY <1>1, <2>1, WishesKeep
<1>12. SeedsOnce'
  <2>1. sites' = {} => sites = {}
    BY <1>1 DEF Ensured
  <2> QED
    BY <1>11, <2>1, SiteFacts DEF SeedsOnce
<1>13. ApartIn(sites)' /\ IdsIn(sites)' \subseteq BornIds' /\ lookers' \subseteq Lookers
  BY <1>1, <1>2, SiteFacts DEF ApartIn, IdsIn
<1> QED
  BY <1>1, <1>2, <1>4, <1>8, <1>9, <1>10, <1>11, <1>12, <1>13, SitesQuiet

LEMMA SitesRunning ==
  ASSUME SitesInv, NEW i \in DOMAIN siteRuns, MarkRunning(i)
  PROVE  SitesInv'
<1>1. /\ siteRuns[i].status = "queued" /\ siteRuns' = [siteRuns EXCEPT ![i].status = "running"]
      /\ sites' = sites /\ births' = births /\ ending' = ending /\ lookers' = lookers /\ behind' = behind
      /\ gone' = gone /\ raced' = raced
  BY DEF MarkRunning
<1>2. PICK m \in 0..MaxRuns : siteRuns \in [1..m -> SiteRun]
  BY RunFacts
<1>3. m \in Nat /\ i \in 1..m /\ siteRuns[i] \in SiteRun /\ MaxRuns \in Nat
  BY <1>2, SiteFacts
<1>0. PICK run : run = [siteRuns[i] EXCEPT !.status = "running"]
  OBVIOUS
<1>4. run \in SiteRun /\ run.site = siteRuns[i].site /\ run.status = "running" /\ run.final = siteRuns[i].final
  BY <1>0, <1>3 DEF SiteRun
<1>5. siteRuns[i].final = ""
  BY <1>1, <1>3, SiteFacts DEF RunsPlaced
<1>6. siteRuns' = [siteRuns EXCEPT ![i] = run]
  BY <1>0, <1>1, <1>2, <1>3
<1>7. /\ siteRuns' \in [1..m -> SiteRun] /\ DOMAIN siteRuns = 1..m
      /\ \A j \in 1..m : siteRuns'[j] = IF j = i THEN run ELSE siteRuns[j]
  BY <1>2, <1>3, <1>4, <1>6
<1>8. RunsGo(siteRuns, siteRuns', IdsIn(sites)')
  <2>1. Outcome(run) \notin Terminal /\ Outcome(siteRuns[i]) \notin Terminal
    BY <1>1, <1>4, <1>5, Statuses4 DEF Outcome
  <2> QED
    BY <1>2, <1>4, <1>7, <2>1 DEF RunsGo
<1>9. RunsPlaced'
  BY <1>1, <1>4, <1>5, <1>7, SiteFacts DEF RunsPlaced
<1>10. /\ ApartIn(sites)' /\ IdsIn(sites)' \subseteq BornIds' /\ BornIds \subseteq BornIds'
       /\ \A s \in sites' : GoesOn(s)
  BY <1>1, SiteFacts DEF ApartIn, IdsIn, BornIds, GoesOn
<1>11. RemovedStaysOut' /\ SeedsOnce'
  BY <1>1, SiteFacts DEF RemovedStaysOut, SeedsOnce, Listed
<1>12. sites' \in SUBSET Site /\ births' \in [Urls -> Nat] /\ \A u \in Urls : births'[u] <= MaxBirths[u]
  BY <1>1, SiteFacts
<1>13. lookers' \subseteq Lookers /\ gone' \subseteq Urls /\ raced' \subseteq Urls
  BY <1>1, SiteFacts
<1> QED
  BY <1>1, <1>2, <1>3, <1>7, <1>8, <1>9, <1>10, <1>11, <1>12, <1>13, SitesQuiet

\* A site gets another URL.
LEMMA SitesRenamed ==
  ASSUME SitesInv, NEW u \in Urls, NEW s \in sites, UpdateSite(s, u)
  PROVE  SitesInv'
<1>0. PICK t : t = [s EXCEPT !.url = u]
  OBVIOUS
<1>1. /\ s.url # u /\ u \notin Listed /\ sites' = (sites \ {s}) \cup {t}
      /\ Wishes({s.url}, {u})
      /\ births' = births /\ siteRuns' = siteRuns /\ ending' = ending /\ lookers' = lookers /\ behind' = behind
  BY <1>0 DEF UpdateSite
<1>2. /\ sites \in SUBSET Site /\ ApartIn(sites) /\ IdsIn(sites) \subseteq BornIds
      /\ gone \subseteq Urls /\ lookers \subseteq Lookers /\ births \in [Urls -> Nat]
      /\ \A v \in Urls : births[v] <= MaxBirths[v]
  BY SiteFacts
<1>3. s \in Site
  BY <1>2
<1>4. /\ t \in Site /\ t.id = s.id /\ t.url = u /\ t.total = s.total /\ t.passed = s.passed /\ t.failed = s.failed
  BY <1>0, <1>3 DEF Site
<1>5. ApartIn(sites)'
  <2>1. \A r \in sites : r.url # u
    BY <1>1 DEF Listed
  <2> QED
    BY <1>1, <1>2, <1>4, <2>1 DEF ApartIn
<1>6. IdsIn(sites)' = IdsIn(sites) /\ BornIds' = BornIds
  BY <1>1, <1>4 DEF IdsIn, BornIds
<1>7. \A r \in sites' : GoesOn(r)
  BY <1>1, <1>4 DEF GoesOn
<1>8. PICK m \in 0..MaxRuns : siteRuns \in [1..m -> SiteRun]
  BY RunFacts
<1>9. m \in Nat /\ RunsGo(siteRuns, siteRuns', IdsIn(sites)')
  BY <1>1, <1>8, GoNowhere, SiteFacts
<1>10. RunsPlaced'
  BY <1>1, <1>6, SiteFacts DEF RunsPlaced
<1>11. /\ gone' \subseteq Urls /\ raced' \subseteq Urls /\ RemovedStaysOut'
       /\ lookers' # {} => gone' \subseteq raced'
  <2>1. {s.url} \in SUBSET Urls
    BY <1>3 DEF Site
  <2>2. \A r \in sites' : r.url = u \/ (r.url \in Listed /\ r.url # s.url)
    BY <1>1, <1>2, <1>4 DEF ApartIn, Listed
  <2>3. Listed' \subseteq (Listed \ {s.url}) \cup {u}
    BY <2>2 DEF Listed
  <2> QED
    BY <1>1, <2>1, <2>3, WishesKeep
<1>12. SeedsOnce'
  BY <1>1, <1>11 DEF SeedsOnce
<1>13. sites' \in SUBSET Site /\ IdsIn(sites)' \subseteq BornIds' /\ BornIds \subseteq BornIds'
  BY <1>1, <1>2, <1>4, <1>6
<1> QED
  BY <1>1, <1>2, <1>5, <1>7, <1>8, <1>9, <1>10, <1>11, <1>12, <1>13, SitesQuiet

\* Sites are removed, and their runs stay without one.
LEMMA SitesDeleted ==
  ASSUME SitesInv, NEW ss \in SUBSET sites, DeleteSites(ss)
  PROVE  SitesInv'
<1>1. /\ ss # {} /\ sites' = sites \ ss
      /\ siteRuns' = [i \in DOMAIN siteRuns |->
                        IF \E s \in ss : s.id = siteRuns[i].site
                        THEN [siteRuns[i] EXCEPT !.site = NoSite] ELSE siteRuns[i]]
      /\ behind' = behind \ {s.id : s \in ss}
      /\ IF sites' = {} THEN gone' = {} /\ raced' = {} ELSE Wishes({s.url : s \in ss}, {})
      /\ births' = births /\ ending' = ending /\ lookers' = lookers
  BY DEF DeleteSites
<1>2. /\ sites \in SUBSET Site /\ ApartIn(sites) /\ IdsIn(sites) \subseteq BornIds
      /\ gone \subseteq Urls /\ lookers \subseteq Lookers /\ births \in [Urls -> Nat]
      /\ \A v \in Urls : births[v] <= MaxBirths[v]
  BY SiteFacts
<1>3. PICK m \in 0..MaxRuns : siteRuns \in [1..m -> SiteRun]
  BY RunFacts
<1>4. m \in Nat /\ DOMAIN siteRuns = 1..m
  BY <1>3, SiteFacts
<1>5. ASSUME NEW i \in 1..m, NEW run, run = [siteRuns[i] EXCEPT !.site = NoSite]
      PROVE  run \in SiteRun /\ run.site = NoSite /\ run.status = siteRuns[i].status /\ run.final = siteRuns[i].final
  <2>1. siteRuns[i] \in SiteRun
    BY <1>3
  <2> QED
    BY <1>5, <2>1 DEF SiteRun
<1>6. ASSUME NEW i \in 1..m
      PROVE  /\ siteRuns'[i] \in SiteRun
             /\ siteRuns'[i].status = siteRuns[i].status /\ siteRuns'[i].final = siteRuns[i].final
             /\ siteRuns'[i].site = IF \E s \in ss : s.id = siteRuns[i].site THEN NoSite ELSE siteRuns[i].site
  <2>1. CASE \E s \in ss : s.id = siteRuns[i].site
    <3>1. siteRuns'[i] = [siteRuns[i] EXCEPT !.site = NoSite]
      BY <1>1, <1>4, <2>1
    <3> QED
      BY <1>5, <2>1, <3>1
  <2>2. CASE ~(\E s \in ss : s.id = siteRuns[i].site)
    <3>1. siteRuns'[i] = siteRuns[i] /\ siteRuns[i] \in SiteRun
      BY <1>1, <1>3, <1>4, <2>2
    <3> QED
      BY <2>2, <3>1
  <2> QED
    BY <2>1, <2>2
<1>7. siteRuns' \in [1..m -> SiteRun] /\ DOMAIN siteRuns' = 1..m
  <2>1. DOMAIN siteRuns' = 1..m /\ siteRuns' = [i \in 1..m |-> siteRuns'[i]]
    BY <1>1, <1>4
  <2> QED
    BY <1>6, <2>1
<1>8. IdsIn(sites)' \subseteq IdsIn(sites) /\ BornIds' = BornIds
  BY <1>1 DEF IdsIn, BornIds
<1>9. \A id \in IdsIn(sites)' : \A s \in ss : s.id # id
  BY <1>1, <1>2 DEF IdsIn, ApartIn
<1>10. RunsGo(siteRuns, siteRuns', IdsIn(sites)')
  <2>1. \A i \in 1..m : Outcome(siteRuns'[i]) = Outcome(siteRuns[i])
    BY <1>6 DEF Outcome
  <2> QED
    BY <1>4, <1>6, <1>7, <1>9, <2>1 DEF RunsGo
<1>11. RunsPlaced'
  <2>1. ASSUME NEW i \in 1..m PROVE siteRuns'[i].site \in IdsIn(sites)' \cup {NoSite}
    <3>1. siteRuns[i].site \in IdsIn(sites) \cup {NoSite}
      BY <1>4, SiteFacts DEF RunsPlaced
    <3> QED
      BY <1>1, <1>6, <3>1 DEF IdsIn
  <2>2. \A i \in 1..m : siteRuns'[i].status \in {"queued", "running"} => siteRuns'[i].final = ""
    BY <1>4, <1>6, SiteFacts DEF RunsPlaced
  <2> QED
    BY <1>7, <2>1, <2>2 DEF RunsPlaced
<1>12. /\ gone' \subseteq Urls /\ raced' \subseteq Urls /\ RemovedStaysOut'
       /\ lookers' # {} => gone' \subseteq raced'
  <2>1. CASE sites' = {}
    BY <1>1, <2>1 DEF RemovedStaysOut
  <2>2. CASE sites' # {}
    <3> PICK out : out = {s.url : s \in ss}
      OBVIOUS
    <3>1. out \in SUBSET Urls /\ \A s \in ss : \A r \in sites' : r.url # s.url
      BY <1>1, <1>2 DEF ApartIn, Site
    <3>2. Listed' \subseteq (Listed \ out) \cup {}
      BY <1>1, <3>1 DEF Listed
    <3> QED
      BY <1>1, <2>2, <3>1, <3>2, WishesKeep
  <2> QED
    BY <2>1, <2>2
<1>13. SeedsOnce'
  BY <1>1, <1>12 DEF SeedsOnce
<1>14. /\ sites' \in SUBSET Site /\ ApartIn(sites)' /\ IdsIn(sites)' \subseteq BornIds' /\ BornIds \subseteq BornIds'
       /\ \A s \in sites' : GoesOn(s) /\ (s.id \in behind => s.id \in behind')
  BY <1>1, <1>2, <1>8, <1>9 DEF ApartIn, GoesOn, IdsIn
<1> QED
  BY <1>1, <1>2, <1>3, <1>4, <1>7, <1>10, <1>11, <1>12, <1>13, <1>14, SitesQuiet

-----------------------------------------------------------------------------
(* Steps that end runs.                                                    *)

\* Counts are written over those of the sites.
WrittenFits(ss, counts, wr) ==
    /\ wr \in SUBSET Site /\ ApartIn(wr) /\ SumsIn(wr) /\ IdsIn(wr) = IdsIn(ss)
    /\ {s.url : s \in wr} = {s.url : s \in ss}
    /\ \A t \in wr : \E s \in ss :
          /\ t.id = s.id /\ t.url = s.url
          /\ \/ \E c \in counts : c.id = s.id /\ t.total = c.total /\ t.passed = c.passed /\ t.failed = c.failed
             \/ s.id \notin IdsIn(counts) /\ t = s

LEMMA WrittenSites ==
  ASSUME NEW ss \in SUBSET Site, ApartIn(ss), SumsIn(ss),
         NEW counts \in SUBSET Count, SumsIn(counts), \A c, d \in counts : c.id = d.id => c = d,
         NEW wr, wr = Written(ss, counts)
  PROVE  WrittenFits(ss, counts, wr)
<1> DEFINE Over(s) == IF \E c \in counts : c.id = s.id
                      THEN LET c == CHOOSE k \in counts : k.id = s.id
                           IN  [s EXCEPT !.total = c.total, !.passed = c.passed, !.failed = c.failed]
                      ELSE s
<1>1. wr = {Over(s) : s \in ss}
  BY DEF Written
<1>2. ASSUME NEW s \in ss
      PROVE  /\ Over(s) \in Site /\ Over(s).id = s.id /\ Over(s).url = s.url
             /\ Over(s).passed + Over(s).failed <= Over(s).total
             /\ \/ \E c \in counts : /\ c.id = s.id /\ Over(s).total = c.total
                                     /\ Over(s).passed = c.passed /\ Over(s).failed = c.failed
                \/ s.id \notin IdsIn(counts) /\ Over(s) = s
  <2>1. CASE \E c \in counts : c.id = s.id
    <3>0. PICK c : c = CHOOSE k \in counts : k.id = s.id
      OBVIOUS
    <3>1. c \in counts /\ c.id = s.id
      BY <2>1, <3>0
    <3>2. Over(s) = [s EXCEPT !.total = c.total, !.passed = c.passed, !.failed = c.failed]
      BY <2>1, <3>0
    <3>3. c \in Count /\ s \in Site /\ c.passed + c.failed <= c.total
      BY <3>1 DEF SumsIn
    <3>4. PICK t : t = Over(s)
      OBVIOUS
    <3>5. t = [s EXCEPT !.total = c.total, !.passed = c.passed, !.failed = c.failed]
      BY <3>2, <3>4
    <3> HIDE DEF Over
    <3>6. /\ t \in Site /\ t.id = s.id /\ t.url = s.url
          /\ t.total = c.total /\ t.passed = c.passed /\ t.failed = c.failed
      BY <3>3, <3>5 DEF Count, Site
    <3> QED
      BY <3>1, <3>3, <3>4, <3>6
  <2>2. CASE ~(\E c \in counts : c.id = s.id)
    BY <2>2 DEF SumsIn, IdsIn
  <2> QED
    BY <2>1, <2>2
<1> HIDE DEF Over
<1>3. wr \in SUBSET Site /\ SumsIn(wr) /\ IdsIn(wr) = IdsIn(ss)
  BY <1>1, <1>2 DEF SumsIn, IdsIn
<1>4. ApartIn(wr)
  BY <1>1, <1>2 DEF ApartIn
<1>5. {s.url : s \in wr} = {s.url : s \in ss}
  BY <1>1, <1>2
<1>6. \A t \in wr : \E s \in ss :
               /\ t.id = s.id /\ t.url = s.url
               /\ \/ \E c \in counts : c.id = s.id /\ t.total = c.total /\ t.passed = c.passed /\ t.failed = c.failed
                  \/ s.id \notin IdsIn(counts) /\ t = s
  BY <1>1, <1>2
<1> QED
  BY <1>3, <1>4, <1>5, <1>6 DEF WrittenFits

\* Runs end: of the touched sites the counts are written, and every other writer
\* that has taken counts meets them.
LEMMA SitesMoved ==
  ASSUME SitesInv, NEW m \in Nat, siteRuns \in [1..m -> SiteRun],
         NEW n \in 0..MaxRuns, siteRuns' \in [1..n -> SiteRun], RunsPlaced',
         NEW ss \in SUBSET Site, ApartIn(ss), SumsIn(ss), IdsIn(ss) \subseteq BornIds',
         IdsIn(sites) \subseteq IdsIn(ss), \A s \in ss : GoesOn(s) \/ Fresh(s),
         NEW counts \in SUBSET Count, SumsIn(counts), \A c, d \in counts : c.id = d.id => c = d,
         sites' = Written(ss, counts),
         NEW X, X \subseteq IdsIn(counts), RunsGo(siteRuns, siteRuns', IdsIn(ss) \ X),
         \A c \in counts : c.id \in IdsIn(ss) /\ c.id \notin behind' => c = Counted(c.id, siteRuns'),
         \A id \in IdsIn(ss) : id \in behind => id \in behind' \/ id \in IdsIn(counts),
         births' \in [Urls -> Nat], \A u \in Urls : births'[u] <= MaxBirths[u], BornIds \subseteq BornIds',
         ending' \in [Writers -> Work],
         \A v \in Writers : \/ ending'[v] = NoWork
                            \/ /\ ending[v] # NoWork /\ ending'[v].ids = ending[v].ids
                               /\ ending'[v].status = ending[v].status /\ ending'[v].counts = ending[v].counts
                               /\ ending'[v].met = ending[v].met \cup X,
         NEW in, Wishes({}, in), lookers' = lookers, {s.url : s \in ss} \subseteq Listed \cup in,
         ss = {} => sites = {}
  PROVE  SitesInv'
<1>0. /\ n \in Nat /\ IdsIn(ss) \subseteq SiteIds /\ NoSite \notin IdsIn(ss) /\ MaxRuns \in Nat
  BY NoSiteIsNone, SiteFacts DEF IdsIn, Site
<1>1. /\ sites' \in SUBSET Site /\ ApartIn(sites') /\ SumsIn(sites') /\ IdsIn(sites') = IdsIn(ss)
      /\ {s.url : s \in sites'} = {s.url : s \in ss}
      /\ \A t \in sites' : \E s \in ss :
            /\ t.id = s.id /\ t.url = s.url
            /\ \/ \E c \in counts : c.id = s.id /\ t.total = c.total /\ t.passed = c.passed /\ t.failed = c.failed
               \/ s.id \notin IdsIn(counts) /\ t = s
  <2> PICK wr : wr = Written(ss, counts)
    OBVIOUS
  <2>1. WrittenFits(ss, counts, wr)
    BY WrittenSites, Zenon
  <2> QED
    BY <2>1 DEF WrittenFits
<1>9. /\ gone' \subseteq Urls /\ raced' \subseteq Urls /\ RemovedStaysOut'
      /\ lookers' # {} => gone' \subseteq raced'
      /\ gone' \subseteq gone
  <2>1. Listed' \subseteq (Listed \ {}) \cup in
    BY <1>1 DEF Listed
  <2> QED
    BY <2>1, WishesKeep
<1>2. SiteTypes'
  <2>1. lookers' \subseteq Lookers
    BY SiteFacts
  <2> QED
    BY <1>1, <1>9, <2>1 DEF SiteTypes
<1>3. SitesApart'
  BY <1>1 DEF SitesApart, ApartIn, SumsIn, IdsIn
<1>4. IdsIn(sites)' = IdsIn(ss)
  BY <1>1 DEF IdsIn
<1>5. \A id \in BornIds : id \in IdsIn(ss) => id \in IdsIn(sites)
  BY DEF IdsIn, GoesOn, Fresh
<1>6. ASSUME NEW v \in Writers PROVE TakenRight(v)'
  <2>1. CASE ending'[v] = NoWork
    <3>1. NoWork.ids = {} /\ NoWork.counts = {}
      BY DEF NoWork
    <3> PICK f : f = ending'[v]
      OBVIOUS
    <3>2. f.ids = {} /\ f.counts = {} /\ f = NoWork
      BY <2>1, <3>1
    <3> QED
      BY <3>2 DEF TakenRight, SitesOf, IdsIn, SumsIn
  <2>2. CASE ending'[v] # NoWork
    <3>0. PICK e, f : e = ending[v] /\ f = ending'[v]
      OBVIOUS
    <3>1. /\ e # NoWork /\ f.ids = e.ids /\ f.status = e.status /\ f.counts = e.counts /\ f.met = e.met \cup X
      BY <2>2, <3>0
    <3>2. \A id \in BornIds : id \in IdsIn(sites)' => id \in f.met \/ (id \in IdsIn(ss) \ X /\ id \in IdsIn(sites))
      BY <1>4, <1>5, <3>1
    <3>3. IdsIn(ss) \ X \subseteq SiteIds
      BY <1>0
    <3> QED
      BY <1>0, <3>0, <3>1, <3>2, <3>3, TakenStays
  <2> QED
    BY <2>1, <2>2
<1>7. ASSUME NEW t \in sites', t.id \notin behind' PROVE CountRight(t, siteRuns')
  <2>1. PICK s \in ss :
            /\ t.id = s.id /\ t.url = s.url
            /\ \/ \E c \in counts : c.id = s.id /\ t.total = c.total /\ t.passed = c.passed /\ t.failed = c.failed
               \/ s.id \notin IdsIn(counts) /\ t = s
    BY <1>1
  <2>2. s.id \in IdsIn(ss)
    BY DEF IdsIn
  <2>3. CASE \E c \in counts : c.id = s.id /\ t.total = c.total /\ t.passed = c.passed /\ t.failed = c.failed
    BY <1>7, <2>1, <2>2, <2>3 DEF CountRight
  <2>4. CASE s.id \notin IdsIn(counts) /\ t = s
    <3>1. s.id \in IdsIn(ss) \ X /\ s.id \notin behind
      BY <1>7, <2>1, <2>2, <2>4
    <3>2. NoSite \notin IdsIn(ss) \ X
      BY <1>0
    <3>3. CASE GoesOn(s)
      <4>1. PICK r \in sites : s.id = r.id /\ s.total = r.total /\ s.passed = r.passed /\ s.failed = r.failed
        BY <3>3 DEF GoesOn
      <4>2. CountRight(r, siteRuns)
        BY <3>1, <4>1, SiteFacts DEF CountsFit
      <4>3. SameTold(s.id, siteRuns, siteRuns')
        BY <3>1, <3>2, GoTells
      <4>4. Counted(s.id, siteRuns) = Counted(s.id, siteRuns')
        BY <4>3, SameCounted
      <4> QED
        BY <2>4, <4>1, <4>2, <4>4 DEF CountRight
    <3>4. CASE Fresh(s)
      <4>1. \A i \in 1..m : siteRuns[i].site # s.id
        <5>1. s.id \notin IdsIn(sites) /\ s.id # NoSite
          BY <1>0, <2>2, <3>4, SiteFacts DEF Fresh
        <5>2. \A i \in 1..m : siteRuns[i].site \in IdsIn(sites) \cup {NoSite}
          BY DEF SitesInv, RunsPlaced
        <5> QED
          BY <5>1, <5>2
      <4>2. \A i \in 1..n : siteRuns'[i].site = s.id => Outcome(siteRuns'[i]) \notin Terminal
        BY <1>0, <3>1, <3>2, <4>1 DEF RunsGo
      <4>3. \A set : set \subseteq Terminal => Told(s.id, siteRuns', set) = {}
        BY <4>2 DEF Told
      <4>4. Counted(s.id, siteRuns') = [id |-> s.id, total |-> 0, passed |-> 0, failed |-> 0]
        BY <4>3, CountedIs, Statuses4, FS_EmptySet
      <4> QED
        BY <2>4, <3>4, <4>4 DEF CountRight, Fresh
    <3> QED
      BY <3>3, <3>4
  <2> QED
    BY <2>1, <2>3, <2>4
<1>8. CountsFit'
  BY <1>7 DEF CountsFit
<1>10. SeedsOnce'
  <2>1. sites' = {} => ss = {}
    <3> SUFFICES ASSUME NEW s \in ss, sites' = {} PROVE FALSE
      OBVIOUS
    <3>1. s.id \in IdsIn(ss)
      BY DEF IdsIn
    <3>2. s.id \in IdsIn(sites')
      BY <1>1, <3>1
    <3> QED
      BY <3>2 DEF IdsIn
  <2> QED
    BY <1>9, <2>1, SiteFacts DEF SeedsOnce
<1> QED
  BY <1>2, <1>3, <1>6, <1>8, <1>9, <1>10 DEF SitesInv

\* A writer takes its counts.
LEMMA SitesTaken ==
  ASSUME SitesInv, NEW w \in Writers, NEW is, is \subseteq DOMAIN siteRuns, NEW status \in Finals,
         TakeCounts(w, is, status)
  PROVE  SitesInv'
<1>0. PICK e : e = [ids |-> is, status |-> status,
                    counts |-> {Counted(id, EndedOf(siteRuns, is, status)) : id \in SitesOf(is)}, met |-> {}]
  OBVIOUS
<1>1. /\ ending' = [ending EXCEPT ![w] = e]
      /\ sites' = sites /\ births' = births /\ siteRuns' = siteRuns /\ lookers' = lookers
      /\ behind' = behind /\ gone' = gone /\ raced' = raced
  BY <1>0, EndedIs DEF TakeCounts
<1>2. PICK m \in 0..MaxRuns : siteRuns \in [1..m -> SiteRun]
  BY RunFacts
<1>3. m \in Nat /\ is \subseteq 1..m /\ ending \in [Writers -> Work]
  BY <1>2, SiteFacts
<1>4. SitesOf(is) \subseteq IdsIn(sites) /\ IdsIn(sites) \subseteq SiteIds /\ IdsIn(sites) \subseteq BornIds
  BY SiteFacts DEF SitesOf, RunsPlaced
<1>5. EndedOf(siteRuns, is, status) \in [1..m -> SiteRun]
  BY <1>2, <1>3, EndedFits
<1>6. ASSUME NEW id \in SitesOf(is), NEW c, c = Counted(id, EndedOf(siteRuns, is, status))
      PROVE  c \in Count /\ c.id = id /\ c.passed + c.failed <= c.total
  BY <1>2, <1>4, <1>5, <1>6, CountedFits
<1>7. /\ e.ids = is /\ e.status = status /\ e.met = {}
      /\ e.counts = {Counted(id, EndedOf(siteRuns, is, status)) : id \in SitesOf(is)}
  BY <1>0
<1>8. /\ e.counts \in SUBSET Count /\ SumsIn(e.counts) /\ IdsIn(e.counts) = SitesOf(is)
      /\ \A c, d \in e.counts : c.id = d.id => c = d
      /\ \A c \in e.counts : c = Counted(c.id, EndedOf(siteRuns, is, status))
  BY <1>6, <1>7 DEF SumsIn, IdsIn
<1>9. e \in Work
  <2>0. 1..m \subseteq Nat
    OBVIOUS
  <2>1. is \in SUBSET Nat /\ status \in Finals \cup {""}
    BY <1>3, <2>0
  <2>2. {Counted(id, EndedOf(siteRuns, is, status)) : id \in SitesOf(is)} \in SUBSET Count
    BY <1>7, <1>8
  <2> QED
    BY <1>0, <2>1, <2>2 DEF Work
<1>10. ending' \in [Writers -> Work] /\ ending'[w] = e /\ \A v \in Writers : v # w => ending'[v] = ending[v]
  BY <1>1, <1>3, <1>9
<1>11. SiteTypes'
  BY <1>1, <1>10 DEF SitesInv, SiteTypes
<1>12. SitesApart' /\ RunsPlaced' /\ CountsFit' /\ RemovedStaysOut' /\ SeedsOnce'
  BY <1>1 DEF SitesInv, SitesApart, BornIds, RunsPlaced, CountsFit, RemovedStaysOut, SeedsOnce, Listed
<1>13. TakenRight(w)'
  <2>1. Ended(e.ids, e.status)' = EndedOf(siteRuns, is, status) /\ SitesOf(e.ids)' = SitesOf(is) /\ BornIds' = BornIds
    BY <1>1, <1>7 DEF Ended, EndedOf, SitesOf, BornIds
  <2> QED
    BY <1>1, <1>4, <1>7, <1>8, <1>10, <2>1 DEF TakenRight
<1>14. ASSUME NEW v \in Writers, v # w PROVE TakenRight(v)'
  <2>1. ending'[v] = ending[v]
    BY <1>10, <1>14
  <2>2. TakenRight(v)
    BY SiteFacts
  <2>0. PICK f : f = ending[v]
    OBVIOUS
  <2>3. /\ f.ids \subseteq DOMAIN siteRuns
        /\ f # NoWork => f.status \in Finals
        /\ SitesOf(f.ids) \subseteq IdsIn(f.counts) /\ IdsIn(f.counts) \subseteq BornIds
        /\ SumsIn(f.counts) /\ \A c, d \in f.counts : c.id = d.id => c = d
        /\ \A c \in f.counts :
              c.id \notin f.met /\ c.id \in IdsIn(sites) => c = Counted(c.id, Ended(f.ids, f.status))
    BY <2>0, <2>2, Zenon DEF TakenRight
  <2>6. Ended(f.ids, f.status)' = Ended(f.ids, f.status)
    BY <1>1 DEF Ended
  <2>4. /\ SitesOf(f.ids)' = SitesOf(f.ids)
        /\ BornIds' = BornIds /\ IdsIn(sites)' = IdsIn(sites) /\ ending'[v] = f
    BY <1>1, <2>0, <2>1 DEF SitesOf, BornIds, IdsIn
  <2>5. \A c \in f.counts :
           c.id \notin f.met /\ c.id \in IdsIn(sites)' => c = Counted(c.id, Ended(f.ids, f.status))'
    BY <2>3, <2>4, <2>6
  <2> QED
    BY <1>1, <2>3, <2>4, <2>5 DEF TakenRight
<1> QED
  BY <1>11, <1>12, <1>13, <1>14 DEF SitesInv

LEMMA SitesBegin ==
  ASSUME SitesInv, NEW w \in Writers, BeginEnd(w)
  PROVE  SitesInv'
<1>1. Open \subseteq DOMAIN siteRuns /\ "cancelled" \in Finals
  BY DEF Open, Finals, Terminal, Cancelled
<1> QED
  BY <1>1, SitesTaken DEF BeginEnd

\* The others meet the sites of the runs that ended.
LEMMA MeetsOthers ==
  ASSUME SitesInv, NEW X \in SUBSET SiteIds, NEW w \in Writers,
         ending' = Meets(X) \/ ending' = [Meets(X) EXCEPT ![w] = NoWork]
  PROVE  /\ ending' \in [Writers -> Work]
         /\ \A v \in Writers : \/ ending'[v] = NoWork
                            \/ /\ ending[v] # NoWork /\ ending'[v].ids = ending[v].ids
                               /\ ending'[v].status = ending[v].status /\ ending'[v].counts = ending[v].counts
                               /\ ending'[v].met = ending[v].met \cup X
<1>1. ending \in [Writers -> Work]
  BY SiteFacts
<1>2. NoWork \in Work
  BY DEF NoWork, Work
<1>3. ASSUME NEW v \in Writers, NEW e, e = [ending[v] EXCEPT !.met = @ \cup X]
      PROVE  /\ e \in Work /\ e.ids = ending[v].ids /\ e.status = ending[v].status /\ e.counts = ending[v].counts
             /\ e.met = ending[v].met \cup X
  <2>1. ending[v] \in Work
    BY <1>1
  <2> QED
    BY <1>3, <2>1 DEF Work
<1> HIDE DEF Work
<1>4. ASSUME NEW v \in Writers
      PROVE  /\ Meets(X)[v] \in Work
             /\ \/ Meets(X)[v] = NoWork
                \/ /\ ending[v] # NoWork /\ Meets(X)[v].ids = ending[v].ids
                   /\ Meets(X)[v].status = ending[v].status /\ Meets(X)[v].counts = ending[v].counts
                   /\ Meets(X)[v].met = ending[v].met \cup X
  <2>1. Meets(X)[v] = IF ending[v] = NoWork THEN NoWork ELSE [ending[v] EXCEPT !.met = @ \cup X]
    BY DEF Meets
  <2> QED
    BY <1>2, <1>3, <2>1
<1>5. Meets(X) \in [Writers -> Work]
  <2>1. Meets(X) = [v \in Writers |-> Meets(X)[v]]
    BY DEF Meets
  <2> QED
    BY <1>4, <2>1
<1>6. \A v \in Writers : ending'[v] = Meets(X)[v] \/ ending'[v] = NoWork
  BY <1>5
<1>7. ending' \in [Writers -> Work]
  BY <1>2, <1>5
<1> QED
  BY <1>4, <1>6, <1>7

\* All meet the site of a result that is recorded.
LEMMA MeetsAll ==
  ASSUME SitesInv, NEW X \in SUBSET SiteIds, ending' = Meets(X)
  PROVE  /\ ending' \in [Writers -> Work]
         /\ \A v \in Writers : \/ ending'[v] = NoWork
                            \/ /\ ending[v] # NoWork /\ ending'[v].ids = ending[v].ids
                               /\ ending'[v].status = ending[v].status /\ ending'[v].counts = ending[v].counts
                               /\ ending'[v].met = ending[v].met \cup X
<1>1. CASE Writers = {}
  <2>1. ending' = [w \in {} |-> NoWork]
    BY <1>1 DEF Meets
  <2> QED
    BY <1>1, <2>1
<1>2. CASE Writers # {}
  BY <1>2, MeetsOthers
<1> QED
  BY <1>1, <1>2

\* ... and commits them.
LEMMA SitesCommit ==
  ASSUME SitesInv, NEW w \in Writers, CommitEnd(w)
  PROVE  SitesInv'
<1>0. PICK e, rows, X : e = ending[w] /\ rows = EndedOf(siteRuns, e.ids, e.status) /\ X = SitesOf(e.ids)
  OBVIOUS
<1>1. /\ e # NoWork /\ siteRuns' = rows /\ sites' = Written(sites, e.counts)
      /\ behind' = (behind \ {c.id : c \in e.counts}) \cup (e.met \cap {c.id : c \in e.counts})
      /\ ending' = [Meets(X) EXCEPT ![w] = NoWork]
      /\ births' = births /\ lookers' = lookers /\ gone' = gone /\ raced' = raced
  BY <1>0, EndedIs DEF CommitEnd
<1>2. PICK m \in 0..MaxRuns : siteRuns \in [1..m -> SiteRun]
  BY RunFacts
<1>3. /\ e \in Work /\ e.ids \subseteq 1..m /\ e.status \in Finals /\ m \in Nat
      /\ X \subseteq IdsIn(e.counts) /\ SumsIn(e.counts) /\ \A c, d \in e.counts : c.id = d.id => c = d
      /\ \A c \in e.counts : c.id \notin e.met /\ c.id \in IdsIn(sites) => c = Counted(c.id, rows)
      /\ e.counts \in SUBSET Count
  <2>1. TakenRight(w) /\ ending \in [Writers -> Work] /\ m \in Nat
    BY <1>2, SiteFacts
  <2>2. e \in Work
    BY <1>0, <2>1
  <2>3. e.counts \in SUBSET Count
    BY <2>2 DEF Work
  <2>4. /\ e.ids \subseteq DOMAIN siteRuns /\ e.status \in Finals
        /\ SitesOf(e.ids) \subseteq IdsIn(e.counts)
        /\ SumsIn(e.counts) /\ \A c, d \in e.counts : c.id = d.id => c = d
        /\ \A c \in e.counts :
              c.id \notin e.met /\ c.id \in IdsIn(sites) => c = Counted(c.id, Ended(e.ids, e.status))
    BY <1>0, <1>1, <2>1 DEF TakenRight
  <2>5. Ended(e.ids, e.status) = rows
    BY <1>0, EndedIs
  <2> QED
    BY <1>0, <1>2, <2>1, <2>2, <2>3, <2>4, <2>5
<1>4. /\ rows \in [1..m -> SiteRun]
      /\ \A i \in 1..m : /\ rows[i].site = siteRuns[i].site
                         /\ (i \notin e.ids => rows[i] = siteRuns[i])
                         /\ (i \in e.ids => rows[i].status \in Terminal)
  BY <1>0, <1>2, <1>3, EndedFits
<1>5. /\ sites \in SUBSET Site /\ ApartIn(sites) /\ SumsIn(sites) /\ IdsIn(sites) \subseteq BornIds
      /\ births \in [Urls -> Nat] /\ \A u \in Urls : births[u] <= MaxBirths[u]
      /\ RunsPlaced /\ RemovedStaysOut
  BY SiteFacts
<1>6. RunsGo(siteRuns, siteRuns', IdsIn(sites) \ X)
  <2>1. \A i \in e.ids : siteRuns[i].site \notin IdsIn(sites) \ X
    <3>1. NoSite \notin IdsIn(sites)
      BY NoSiteIsNone, SiteFacts
    <3> QED
      BY <1>0, <3>1 DEF SitesOf
  <2> QED
    BY <1>1, <1>2, <1>4, <2>1 DEF RunsGo
<1>7. IdsIn(sites)' = IdsIn(sites)
  <2>1. PICK wr : wr = Written(sites, e.counts)
    OBVIOUS
  <2>2. IdsIn(wr) = IdsIn(sites)
    BY <1>3, <1>5, <2>1, WrittenSites, Zenon DEF WrittenFits
  <2> QED
    BY <1>1, <2>1, <2>2 DEF IdsIn
<1>8. RunsPlaced'
  <2>1. \A i \in 1..m : rows[i].status \in {"queued", "running"} => i \notin e.ids
    BY <1>4, Statuses4
  <2> QED
    BY <1>1, <1>2, <1>4, <1>5, <1>7, <2>1 DEF RunsPlaced
<1>9. \A s \in sites : GoesOn(s)
  BY DEF GoesOn
<1>10. \A c \in e.counts : c.id \in IdsIn(sites) /\ c.id \notin behind' => c = Counted(c.id, siteRuns')
  BY <1>1, <1>3
<1>11. \A id \in IdsIn(sites) : id \in behind => id \in behind' \/ id \in IdsIn(e.counts)
  BY <1>1 DEF IdsIn
<1>12. X \in SUBSET SiteIds
  <2>1. IdsIn(e.counts) \subseteq SiteIds
    BY <1>3 DEF IdsIn, Count
  <2> QED
    BY <1>3, <2>1
<1>13. /\ ending' \in [Writers -> Work]
       /\ \A v \in Writers : \/ ending'[v] = NoWork
                            \/ /\ ending[v] # NoWork /\ ending'[v].ids = ending[v].ids
                               /\ ending'[v].status = ending[v].status /\ ending'[v].counts = ending[v].counts
                               /\ ending'[v].met = ending[v].met \cup X
  BY <1>1, <1>12, MeetsOthers
<1>14. /\ births' \in [Urls -> Nat] /\ \A u \in Urls : births'[u] <= MaxBirths[u]
       /\ BornIds \subseteq BornIds' /\ IdsIn(sites) \subseteq BornIds'
  BY <1>1, <1>5 DEF BornIds
<1>15. PICK in : in = {}
  OBVIOUS
<1>17. Wishes({}, in) /\ {s.url : s \in sites} \subseteq Listed \cup in
  <2>1. raced = (IF lookers = {} THEN raced \ {} ELSE raced \cup {}) \ {}
    OBVIOUS
  <2> QED
    BY <1>1, <1>15, <2>1 DEF Wishes, Listed
<1>16. siteRuns' \in [1..m -> SiteRun] /\ lookers' = lookers /\ sites' = Written(sites, e.counts)
  BY <1>1, <1>4
<1> QED
  BY <1>2, <1>3, <1>5, <1>6, <1>8, <1>9, <1>10, <1>11, <1>13, <1>14, <1>16, <1>17, SitesMoved

\* Of a status that ends a run and is given as final too.
LEMMA RowOf ==
  ASSUME NEW id \in SiteIds, NEW status \in {"success", "failed"},
         NEW run, run = [site |-> id, status |-> status, final |-> status]
  PROVE  run \in SiteRun /\ run.site = id /\ run.status = status /\ run.status \notin {"queued", "running"}
<1>1. status \in Terminal /\ status \in Finals
  BY DEF Terminal, Success, Failure, External, Finals
<1> QED
  BY <1>1 DEF SiteRun

\* A run that has ended is recorded for a site, which may be new.
LEMMA SitesRecord ==
  ASSUME SitesInv, NEW u \in Urls, NEW status \in {"success", "failed"}, RecordResult(u, status)
  PROVE  SitesInv'
<1>0. PICK id, run, rows, ss, counts :
         /\ id = IdOf(u) /\ run = [site |-> id, status |-> status, final |-> status]
         /\ rows = Append1(run) /\ ss = Ensured({u}) /\ counts = {Counted(id, rows)}
  OBVIOUS
<1>1. /\ MayAppend /\ MayBear({u} \ Listed) /\ Born({u} \ Listed)
      /\ siteRuns' = rows /\ sites' = Written(ss, counts)
      /\ behind' = behind \ {id} /\ Wishes({}, {u}) /\ ending' = Meets({id}) /\ lookers' = lookers
  BY <1>0 DEF RecordResult
<1>2. /\ ss \in SUBSET Site /\ ApartIn(ss) /\ IdsIn(ss) \subseteq BornIds'
      /\ births' \in [Urls -> Nat] /\ \A v \in Urls : births'[v] <= MaxBirths[v]
      /\ BornIds \subseteq BornIds' /\ IdsIn(sites) \subseteq IdsIn(ss)
      /\ \A s \in ss : GoesOn(s) \/ Fresh(s)
      /\ {s.url : s \in ss} = Listed \cup {u}
  <2>1. {u} \subseteq Urls
    OBVIOUS
  <2> QED
    BY <1>0, <1>1, <2>1, SitesGrow
<1>3. id \in IdsIn(ss) /\ id \in SiteIds
  <2>1. IdsIn(ss) \subseteq SiteIds
    BY <1>2 DEF IdsIn, Site
  <2> QED
    BY <1>0, <2>1, IdOfKnown
<1>4. PICK m \in 0..MaxRuns : siteRuns \in [1..m -> SiteRun]
  BY RunFacts
<1>5. run \in SiteRun /\ run.site = id /\ run.status = status /\ run.status \notin {"queued", "running"}
  BY <1>0, <1>3, RowOf
<1>6. RowAdded(m, run, rows)
  <2>1. rows = Append1(run) /\ MayAppend /\ run \in SiteRun
    BY <1>0, <1>1, <1>5
  <2> QED
    BY <1>4, <2>1, RowMore, Zenon
<1>7. /\ rows \in [1..(m + 1) -> SiteRun] /\ m + 1 \in 0..MaxRuns /\ 1..m \subseteq 1..(m + 1) /\ m \in Nat
      /\ m + 1 \in Nat /\ \A i \in 1..(m + 1) : rows[i] = IF i \in 1..m THEN siteRuns[i] ELSE run
  BY <1>6 DEF RowAdded
<1>8. /\ counts \in SUBSET Count /\ SumsIn(counts) /\ \A c, d \in counts : c.id = d.id => c = d
      /\ IdsIn(counts) = {id} /\ \A c \in counts : c = Counted(c.id, rows)
  <2>1. PICK c : c = Counted(id, rows)
    OBVIOUS
  <2>2. c \in Count /\ c.id = id /\ c.passed + c.failed <= c.total
    BY <1>3, <1>7, <2>1, CountedFits
  <2>3. counts = {c}
    BY <1>0, <2>1
  <2> QED
    BY <2>1, <2>2, <2>3 DEF SumsIn, IdsIn
<1>9. SumsIn(ss)
  BY <1>2, SiteFacts DEF SumsIn, GoesOn, Fresh
<1>10. RunsGo(siteRuns, siteRuns', IdsIn(ss) \ {id})
  BY <1>1, <1>4, <1>5, <1>7 DEF RunsGo
<1>11. IdsIn(sites)' = IdsIn(ss)
  <2>1. PICK wr : wr = Written(ss, counts)
    OBVIOUS
  <2>2. WrittenFits(ss, counts, wr)
    BY <1>2, <1>8, <1>9, <2>1, WrittenSites, Zenon
  <2>3. IdsIn(wr) = IdsIn(ss)
    BY <2>2 DEF WrittenFits
  <2> QED
    BY <1>1, <2>1, <2>3 DEF IdsIn
<1>12. RunsPlaced'
  <2>1. \A i \in 1..m : /\ siteRuns[i].site \in IdsIn(sites) \cup {NoSite}
                        /\ siteRuns[i].status \in {"queued", "running"} => siteRuns[i].final = ""
    BY <1>4, SiteFacts DEF RunsPlaced
  <2> QED
    BY <1>1, <1>2, <1>3, <1>5, <1>7, <1>11, <2>1 DEF RunsPlaced
<1>13. \A c \in counts : c.id \in IdsIn(ss) /\ c.id \notin behind' => c = Counted(c.id, siteRuns')
  BY <1>1, <1>8
<1>14. \A k \in IdsIn(ss) : k \in behind => k \in behind' \/ k \in IdsIn(counts)
  BY <1>1, <1>8
<1>15. /\ ending' \in [Writers -> Work]
       /\ \A v \in Writers : \/ ending'[v] = NoWork
                            \/ /\ ending[v] # NoWork /\ ending'[v].ids = ending[v].ids
                               /\ ending'[v].status = ending[v].status /\ ending'[v].counts = ending[v].counts
                               /\ ending'[v].met = ending[v].met \cup {id}
  BY <1>1, <1>3, MeetsAll
<1>16. Wishes({}, {u}) /\ {s.url : s \in ss} \subseteq Listed \cup {u}
  BY <1>1, <1>2
<1>17. ss = {} => sites = {}
  BY <1>0 DEF Ensured
<1>18. /\ m \in Nat /\ siteRuns' \in [1..(m + 1) -> SiteRun] /\ {id} \subseteq IdsIn(counts)
       /\ lookers' = lookers /\ sites' = Written(ss, counts)
  BY <1>1, <1>7, <1>8
<1>19. PICK X, n : X = {id} /\ n = m + 1
  OBVIOUS
<1>20. /\ n \in 0..MaxRuns /\ siteRuns' \in [1..n -> SiteRun] /\ X \subseteq IdsIn(counts)
       /\ RunsGo(siteRuns, siteRuns', IdsIn(ss) \ X)
       /\ \A v \in Writers : \/ ending'[v] = NoWork
                            \/ /\ ending[v] # NoWork /\ ending'[v].ids = ending[v].ids
                               /\ ending'[v].status = ending[v].status /\ ending'[v].counts = ending[v].counts
                               /\ ending'[v].met = ending[v].met \cup X
  BY <1>7, <1>10, <1>15, <1>18, <1>19
<1>21. ending' \in [Writers -> Work] /\ siteRuns \in [1..m -> SiteRun]
  BY <1>4, <1>15
<1>22. counts \in SUBSET Count /\ SumsIn(counts) /\ \A c, d \in counts : c.id = d.id => c = d
  BY <1>8
<1>23. /\ ss \in SUBSET Site /\ ApartIn(ss) /\ IdsIn(ss) \subseteq BornIds'
       /\ births' \in [Urls -> Nat] /\ \A v \in Urls : births'[v] <= MaxBirths[v]
       /\ BornIds \subseteq BornIds' /\ IdsIn(sites) \subseteq IdsIn(ss)
       /\ \A s \in ss : GoesOn(s) \/ Fresh(s)
  BY <1>2
<1> QED
  BY <1>9, <1>12, <1>13, <1>14, <1>16, <1>17, <1>18, <1>20, <1>21, <1>22, <1>23, SitesMoved, Zenon

-----------------------------------------------------------------------------
(* The theorem.                                                            *)

LEMMA SitesFirst == SitesInit => SitesInv
<1> SUFFICES ASSUME SitesInit PROVE SitesInv
  OBVIOUS
<1>1. /\ sites = {} /\ births = [u \in Urls |-> 0] /\ siteRuns = <<>>
      /\ ending = [w \in Writers |-> NoWork] /\ lookers = {} /\ behind = {} /\ gone = {}
      /\ raced = {}
  BY DEF SitesInit
<1>2. MaxRuns \in Nat /\ MaxBirths \in [Urls -> Nat]
  BY SitesAssumption
<1>3. siteRuns \in [1..0 -> SiteRun] /\ 0 \in 0..MaxRuns /\ DOMAIN siteRuns = {}
  BY <1>1, <1>2
<1>4. NoWork \in Work /\ NoWork.ids = {} /\ NoWork.counts = {}
  BY DEF NoWork, Work
<1>5. SiteTypes
  <2>1. births \in [Urls -> Nat] /\ \A u \in Urls : births[u] <= MaxBirths[u]
    BY <1>1, <1>2
  <2> QED
    BY <1>1, <1>3, <1>4, <2>1 DEF SiteTypes
<1>6. ASSUME NEW w \in Writers PROVE TakenRight(w)
  <2>1. PICK e : e = ending[w]
    OBVIOUS
  <2>2. e.ids = {} /\ e.counts = {} /\ e = NoWork
    BY <1>1, <1>4, <2>1
  <2> QED
    BY <2>1, <2>2 DEF TakenRight, SitesOf, IdsIn, SumsIn
<1>7. SitesApart /\ RunsPlaced /\ CountsFit /\ RemovedStaysOut /\ SeedsOnce
  BY <1>1, <1>3 DEF SitesApart, ApartIn, SumsIn, IdsIn, RunsPlaced, CountsFit, RemovedStaysOut, SeedsOnce
<1> QED
  BY <1>5, <1>6, <1>7 DEF SitesInv

LEMMA SitesStill == SitesInv /\ UNCHANGED siteVars => SitesInv'
<1> SUFFICES ASSUME SitesInv, UNCHANGED siteVars PROVE SitesInv'
  OBVIOUS
<1>1. /\ sites' = sites /\ births' = births /\ siteRuns' = siteRuns /\ ending' = ending /\ behind' = behind
      /\ gone' = gone /\ raced' = raced /\ lookers' = lookers
  BY DEF siteVars
<1>2. SiteTypes'
  BY <1>1 DEF SitesInv, SiteTypes
<1>3. SitesApart' /\ RunsPlaced' /\ CountsFit' /\ RemovedStaysOut' /\ SeedsOnce'
  BY <1>1 DEF SitesInv, SitesApart, BornIds, RunsPlaced, CountsFit, RemovedStaysOut, SeedsOnce, Listed
<1>4. \A w \in Writers : TakenRight(w)'
  BY <1>1 DEF SitesInv, TakenRight, BornIds, Ended, SitesOf
<1> QED
  BY <1>2, <1>3, <1>4 DEF SitesInv

LEMMA SitesStep == SitesInv /\ [SitesNext]_siteVars => SitesInv'
<1> SUFFICES ASSUME SitesInv, [SitesNext]_siteVars PROVE SitesInv'
  OBVIOUS
<1>1. CASE UNCHANGED siteVars
  BY <1>1, SitesStill
<1>2. ASSUME NEW q \in Lookers, Look(q) \/ Import(q) \/ ImportClashes(q) PROVE SitesInv'
  BY <1>2, SitesLook, SitesImport
<1>3. ASSUME NEW u \in Urls, CreateSite(u) \/ CreateBatch(u) PROVE SitesInv'
  BY <1>3, SitesCreate, SitesBatch
<1>4. ASSUME NEW u \in Urls, NEW s \in sites, UpdateSite(s, u) PROVE SitesInv'
  BY <1>4, SitesRenamed
<1>5. ASSUME NEW ss \in SUBSET sites, DeleteSites(ss) PROVE SitesInv'
  BY <1>5, SitesDeleted
<1>6. ASSUME NEW i \in DOMAIN siteRuns, MarkRunning(i) PROVE SitesInv'
  BY <1>6, SitesRunning
<1>7. ASSUME NEW w \in Writers, BeginEnd(w) \/ CommitEnd(w) PROVE SitesInv'
  BY <1>7, SitesBegin, SitesCommit
<1>8. ASSUME NEW u \in Urls, NEW status \in {"success", "failed"}, RecordResult(u, status) PROVE SitesInv'
  BY <1>8, SitesRecord
<1> QED
  BY <1>1, <1>2, <1>3, <1>4, <1>5, <1>6, <1>7, <1>8, Zenon DEF SitesNext

LEMMA SitesSafe == SitesInv => SitesTrue
<1> SUFFICES ASSUME SitesInv PROVE SitesTrue
  OBVIOUS
<1>1. PICK m \in 0..MaxRuns : siteRuns \in [1..m -> SiteRun]
  BY RunFacts
<1>2. /\ sites \in SUBSET Site /\ ApartIn(sites) /\ SumsIn(sites) /\ births \in [Urls -> Nat]
      /\ \A u \in Urls : births[u] <= MaxBirths[u]
      /\ lookers \subseteq Lookers /\ gone \subseteq Urls /\ raced \subseteq Urls
      /\ RunsPlaced /\ CountsFit /\ RemovedStaysOut /\ MaxRuns \in Nat /\ MaxBirths \in [Urls -> Nat]
  BY SiteFacts, SitesAssumption DEF SitesInv, SiteTypes, SitesApart
<1>3. SitesTypeOK
  <2>1. \A s \in sites : s.url \in Urls /\ s.total \in 0..MaxRuns /\ s.passed + s.failed <= s.total
    BY <1>2 DEF Site, SumsIn
  <2>2. \A s, r \in sites : (s.id = r.id \/ s.url = r.url) => s = r
    BY <1>2 DEF ApartIn
  <2>3. \A u \in Urls : births[u] \in 0..MaxBirths[u]
    BY <1>2
  <2>4. \A i \in DOMAIN siteRuns :
           /\ siteRuns[i].status \in {"queued", "running"} \cup Terminal /\ siteRuns[i].final \in Finals \cup {""}
    BY <1>1 DEF SiteRun
  <2>5. \A i \in DOMAIN siteRuns : siteRuns[i].site \in {s.id : s \in sites} \cup {NoSite}
    BY <1>2 DEF RunsPlaced, IdsIn
  <2>6. \A i \in DOMAIN siteRuns :
           /\ siteRuns[i].site \in {s.id : s \in sites} \cup {NoSite}
           /\ siteRuns[i].status \in {"queued", "running"} \cup Terminal
           /\ siteRuns[i].final \in Finals \cup {""}
    BY <2>4, <2>5, Zenon
  <2>7. lookers \subseteq Lookers /\ gone \subseteq Urls /\ raced \subseteq Urls
    BY <1>2
  <2> QED
    BY <2>1, <2>2, <2>3, <2>6, <2>7, Zenon DEF SitesTypeOK
<1>4. CountsTrue
  <2> SUFFICES ASSUME NEW s \in sites, s.id \notin behind
               PROVE  LET End(run) == IF run.final = "" THEN run.status ELSE run.final
                          Ends(set) == Cardinality({i \in DOMAIN siteRuns :
                                          siteRuns[i].site = s.id /\ End(siteRuns[i]) \in set})
                      IN  /\ s.total = Ends(Terminal)
                          /\ s.passed = Ends(Success) /\ s.failed = Ends(Failure)
    BY DEF CountsTrue
  <2>1. CountRight(s, siteRuns)
    BY <1>2 DEF CountsFit
  <2>2. ASSUME NEW set
        PROVE  {i \in DOMAIN siteRuns : siteRuns[i].site = s.id /\ Outcome(siteRuns[i]) \in set}
               = {i \in DOMAIN siteRuns : /\ siteRuns[i].site = s.id
                     /\ (IF siteRuns[i].final = "" THEN siteRuns[i].status ELSE siteRuns[i].final) \in set}
    BY DEF Outcome
  <2>4. PICK c : c = Counted(s.id, siteRuns)
    OBVIOUS
  <2>5. s.total = c.total /\ s.passed = c.passed /\ s.failed = c.failed
    BY <2>1, <2>4 DEF CountRight
  <2>6. /\ c.total = Cardinality({i \in DOMAIN siteRuns : siteRuns[i].site = s.id /\ Outcome(siteRuns[i]) \in Terminal})
        /\ c.passed = Cardinality({i \in DOMAIN siteRuns : siteRuns[i].site = s.id /\ Outcome(siteRuns[i]) \in Success})
        /\ c.failed = Cardinality({i \in DOMAIN siteRuns : siteRuns[i].site = s.id /\ Outcome(siteRuns[i]) \in Failure})
    BY <2>4 DEF Counted
  <2>7. /\ {i \in DOMAIN siteRuns : siteRuns[i].site = s.id /\ Outcome(siteRuns[i]) \in Terminal}
           = {i \in DOMAIN siteRuns : /\ siteRuns[i].site = s.id
                 /\ (IF siteRuns[i].final = "" THEN siteRuns[i].status ELSE siteRuns[i].final) \in Terminal}
        /\ {i \in DOMAIN siteRuns : siteRuns[i].site = s.id /\ Outcome(siteRuns[i]) \in Success}
           = {i \in DOMAIN siteRuns : /\ siteRuns[i].site = s.id
                 /\ (IF siteRuns[i].final = "" THEN siteRuns[i].status ELSE siteRuns[i].final) \in Success}
        /\ {i \in DOMAIN siteRuns : siteRuns[i].site = s.id /\ Outcome(siteRuns[i]) \in Failure}
           = {i \in DOMAIN siteRuns : /\ siteRuns[i].site = s.id
                 /\ (IF siteRuns[i].final = "" THEN siteRuns[i].status ELSE siteRuns[i].final) \in Failure}
    BY <2>2
  <2> QED
    BY <2>5, <2>6, <2>7
<1> QED
  BY <1>2, <1>3, <1>4 DEF SitesTrue

\* The dataset counts its runs right and keeps removed sites out, for any number of
\* URLs, of requests and of runs; not out stays a site that was removed while a
\* request that had found the dataset empty was under way (RemovedStaysOut).
THEOREM SitesAreTrue == SitesSpec => []SitesTrue
<1>1. SitesInit => SitesInv
  BY SitesFirst
<1>2. SitesInv /\ [SitesNext]_siteVars => SitesInv'
  BY SitesStep
<1>3. SitesInv => SitesTrue
  BY SitesSafe
<1> QED
  BY <1>1, <1>2, <1>3, PTL DEF SitesSpec

-----------------------------------------------------------------------------
(* The memory of a site.                                                   *)

\* The runs a row blends; none where there is no row.
RateOf(row) == IF row = None THEN {} ELSE {row.rate[i] : i \in 1..Len(row.rate)}

\* A row, or no row, that blends runs that have written it, each once.
RateFits(row, k) ==
    /\ row # None => Len(row.rate) = Cardinality(RateOf(row))
    /\ \A r \in RateOf(row) : r \in MemoryRuns /\ phase[r] = "written" /\ page[r] = k

MemoryTypes ==
    /\ hint \in [PageTypes -> Row \cup {None}] /\ read \in [MemoryRuns -> Row \cup {None}]
    /\ phase \in [MemoryRuns -> Phases] /\ page \in [MemoryRuns -> PageTypes]
    /\ tooled \in [MemoryRuns -> BOOLEAN] /\ shown \in [MemoryRuns -> SUBSET Row]
    /\ tries \in [MemoryRuns -> 0..Attempts]
    /\ memoryOverlapped \subseteq MemoryRuns /\ pruned \subseteq MemoryRuns
    /\ day \in Nat /\ started \in Nat /\ started <= day

\* What is stored, and what a transaction has read, blends runs that have written.
RatesFit ==
    /\ \A k \in PageTypes : RateFits(hint[k], k)
    /\ \A r \in MemoryRuns : phase[r] = "found" => RateFits(read[r], page[r])

\* A row that was read stays while its reader lives; a retry is there because there is one.
RowStays ==
    \A r \in MemoryRuns :
        /\ phase[r] = "found" /\ read[r] # None => hint[page[r]] # None
        /\ phase[r] = "upserting" /\ tries[r] >= 1 => hint[page[r]] # None
        /\ phase[r] = "upserting" => tries[r] < Attempts
        /\ phase[r] = "found" /\ read[r] = None => tries[r] = 1
        /\ phase[r] \in {"new", "running"} => tries[r] = 0

\* Two that have looked and not written are known to overlap, and what a third has
\* written before they looked is in what they have read.
OverlapsKnown ==
    /\ \A q, r \in MemoryRuns :
          q # r /\ phase[q] = "found" /\ phase[r] = "found" /\ page[q] = page[r] => q \in memoryOverlapped
    /\ \A q, r \in MemoryRuns :
          phase[q] = "found" /\ phase[r] = "written" /\ page[q] = page[r] /\ r \notin memoryOverlapped
          => r \in RateOf(read[q]) \cup pruned

\* What was written by itself is in the row that is there.
WrittenKept ==
    \A r \in MemoryRuns :
        phase[r] = "written" /\ r \notin memoryOverlapped => r \in RateOf(hint[page[r]]) \cup pruned

\* Rows that had expired went when the server started.
RowsAlive == \A k \in PageTypes : hint[k] # None => hint[k].until >= started

MemoryInv ==
    MemoryTypes /\ RatesFit /\ NeverRefused /\ RowStays /\ OverlapsKnown /\ WrittenKept /\ RowsAlive /\ ShownAlive

\* A rate, and one run more.
LEMMA RateOne ==
  ASSUME NEW r \in MemoryRuns, NEW row, row # None, row.rate = <<r>>
  PROVE  RateOf(row) = {r} /\ Len(row.rate) = Cardinality(RateOf(row))
<1>1. Len(row.rate) = 1 /\ row.rate[1] = r
  OBVIOUS
<1>2. RateOf(row) = {row.rate[i] : i \in 1 .. 1}
  BY <1>1 DEF RateOf
<1>3. 1 .. 1 = {1}
  OBVIOUS
<1>4. RateOf(row) = {r}
  BY <1>1, <1>2, <1>3
<1> QED
  BY <1>1, <1>4, FS_Singleton

LEMMA RateMore ==
  ASSUME NEW old \in Row, NEW row, old # None, row # None, NEW r \in MemoryRuns,
         row.rate = Append(old.rate, r), r \notin RateOf(old), Len(old.rate) = Cardinality(RateOf(old))
  PROVE  RateOf(row) = RateOf(old) \cup {r} /\ Len(row.rate) = Cardinality(RateOf(row))
<1> PICK s : s = old.rate
  OBVIOUS
<1>1. s \in Seq(MemoryRuns) /\ Len(s) \in Nat
  BY DEF Row
<1>2. /\ Len(Append(s, r)) = Len(s) + 1
      /\ \A i \in 1 .. Len(s) + 1 : Append(s, r)[i] = IF i = Len(s) + 1 THEN r ELSE s[i]
  BY <1>1
<1>3. RateOf(old) = {s[i] : i \in 1 .. Len(s)}
  BY DEF RateOf
<1>4. RateOf(row) = {Append(s, r)[i] : i \in 1 .. Len(s) + 1}
  BY <1>2 DEF RateOf
<1>5. RateOf(row) = RateOf(old) \cup {r}
  <2>1. ASSUME NEW x \in RateOf(row) PROVE x \in RateOf(old) \cup {r}
    <3>1. PICK i \in 1 .. Len(s) + 1 : x = Append(s, r)[i]
      BY <1>4, <2>1
    <3>2. i = Len(s) + 1 \/ i \in 1 .. Len(s)
      BY <1>1
    <3> QED
      BY <1>2, <1>3, <3>1, <3>2
  <2>2. ASSUME NEW x \in RateOf(old) PROVE x \in RateOf(row)
    <3>1. PICK i \in 1 .. Len(s) : x = s[i]
      BY <1>3, <2>2
    <3>2. i \in 1 .. Len(s) + 1 /\ i # Len(s) + 1
      BY <1>1
    <3>3. x = Append(s, r)[i]
      BY <1>2, <3>1, <3>2
    <3> QED
      BY <1>4, <3>2, <3>3
  <2>3. r \in RateOf(row)
    <3>1. Len(s) + 1 \in 1 .. Len(s) + 1
      BY <1>1
    <3>2. r = Append(s, r)[Len(s) + 1]
      BY <1>2, <3>1
    <3> QED
      BY <1>4, <3>1, <3>2
  <2> QED
    BY <2>1, <2>2, <2>3
<1>6. IsFiniteSet(RateOf(old))
  <2>1. IsFiniteSet(1 .. Len(s))
    BY <1>1, FS_Interval
  <2>2. [i \in 1 .. Len(s) |-> s[i]] \in Surjection(1 .. Len(s), RateOf(old))
    BY <1>3 DEF Surjection
  <2> QED
    BY <2>1, <2>2, FS_Surjection
<1>7. Cardinality(RateOf(old) \cup {r}) = Cardinality(RateOf(old)) + 1
  BY <1>6, FS_AddElement
<1> QED
  BY <1>2, <1>5, <1>7

\* The types and what they give of the rows.
LEMMA MemoryFacts ==
  ASSUME MemoryInv
  PROVE  /\ hint \in [PageTypes -> Row \cup {None}] /\ read \in [MemoryRuns -> Row \cup {None}]
         /\ phase \in [MemoryRuns -> Phases] /\ page \in [MemoryRuns -> PageTypes]
         /\ tooled \in [MemoryRuns -> BOOLEAN] /\ shown \in [MemoryRuns -> SUBSET Row]
         /\ tries \in [MemoryRuns -> 0..Attempts]
         /\ memoryOverlapped \subseteq MemoryRuns /\ pruned \subseteq MemoryRuns
         /\ day \in Nat /\ started \in Nat /\ started <= day
BY DEF MemoryInv, MemoryTypes

\* Only the phase of a run changes, and it neither looks nor writes.
LEMMA MemoryQuiet ==
  ASSUME MemoryInv, NEW r \in MemoryRuns, NEW p \in Phases \ {"found", "written", "refused"},
         phase' = [phase EXCEPT ![r] = p], phase[r] # "written",
         p = "upserting" => tries[r] < Attempts /\ (tries[r] >= 1 => hint[page[r]] # None),
         p \in {"new", "running"} => tries[r] = 0,
         \A row \in shown'[r] : row.until >= started,
         shown' \in [MemoryRuns -> SUBSET Row], \A q \in MemoryRuns : q # r => shown'[q] = shown[q],
         hint' = hint, page' = page, tooled' = tooled, read' = read, tries' = tries,
         memoryOverlapped' = memoryOverlapped, pruned' = pruned, day' = day, started' = started
  PROVE  MemoryInv'
<1>1. /\ phase \in [MemoryRuns -> Phases]
  BY MemoryFacts
<1>2. /\ phase' \in [MemoryRuns -> Phases] /\ \A q \in MemoryRuns : phase'[q] = IF q = r THEN p ELSE phase[q]
  BY <1>1
<1>3. MemoryTypes'
  BY <1>2 DEF MemoryInv, MemoryTypes
<1>4. \A q \in MemoryRuns : /\ phase[q] = "written" => phase'[q] = "written"
                            /\ phase'[q] \in {"found", "written"} => phase'[q] = phase[q]
  BY <1>2
<1>5. RatesFit'
  BY <1>4 DEF MemoryInv, RatesFit, RateFits
<1>6. NeverRefused' /\ RowStays' /\ RowsAlive'
  BY <1>2 DEF MemoryInv, NeverRefused, RowStays, RowsAlive
<1>7. OverlapsKnown' /\ WrittenKept'
  BY <1>4 DEF MemoryInv, OverlapsKnown, WrittenKept
<1>8. ShownAlive'
  BY <1>2 DEF MemoryInv, ShownAlive
<1> QED
  BY <1>3, <1>5, <1>6, <1>7, <1>8 DEF MemoryInv

LEMMA MemoryStarts ==
  ASSUME MemoryInv, NEW r \in MemoryRuns, StartRun(r)
  PROVE  MemoryInv'
<1>1. /\ phase[r] = "new" /\ phase' = [phase EXCEPT ![r] = "running"]
      /\ shown' = [shown EXCEPT ![r] = Context(Role(page[r])) \cup Context(page[r])]
      /\ hint' = hint /\ page' = page /\ tooled' = tooled /\ read' = read /\ tries' = tries
      /\ memoryOverlapped' = memoryOverlapped /\ pruned' = pruned /\ day' = day /\ started' = started
  BY DEF StartRun
<1>2. ASSUME NEW kinds PROVE \A row \in HintsOf(kinds \cap PageTypes) : row \in Row /\ row.until >= started
  BY MemoryFacts DEF HintsOf, MemoryInv, RowsAlive
<1>3. ASSUME NEW k PROVE \A row \in Context(k) : row \in Row /\ row.until >= started
  <2>1. PageTypes \cap PageTypes = PageTypes
    OBVIOUS
  <2> QED
    BY <1>2, <2>1 DEF Context
<1> PICK rows : rows = Context(Role(page[r])) \cup Context(page[r])
  OBVIOUS
<1>4. rows \in SUBSET Row /\ \A row \in rows : row.until >= started
  BY <1>3
<1>5. shown \in [MemoryRuns -> SUBSET Row] /\ shown' = [shown EXCEPT ![r] = rows]
  BY <1>1, MemoryFacts
<1>6. /\ shown' \in [MemoryRuns -> SUBSET Row] /\ \A q \in MemoryRuns : q # r => shown'[q] = shown[q]
      /\ shown'[r] = rows
  BY <1>4, <1>5
<1>7. "running" \in Phases \ {"found", "written", "refused"} /\ phase[r] # "written" /\ tries[r] = 0
  BY <1>1 DEF Phases, MemoryInv, RowStays
<1> QED
  BY <1>1, <1>4, <1>6, <1>7, MemoryQuiet

LEMMA MemoryEnds ==
  ASSUME MemoryInv, NEW r \in MemoryRuns, EndRun(r) \/ InsertClashes(r) \/ WriteFails(r)
  PROVE  MemoryInv'
<1>1. /\ hint' = hint /\ page' = page /\ tooled' = tooled /\ read' = read /\ tries' = tries /\ shown' = shown
      /\ memoryOverlapped' = memoryOverlapped /\ pruned' = pruned /\ day' = day /\ started' = started
  BY DEF EndRun, InsertClashes, WriteFails
<1>2. /\ shown \in [MemoryRuns -> SUBSET Row] /\ tries \in [MemoryRuns -> 0..Attempts]
      /\ Attempts \in Nat \ {0, 1}
  BY MemoryFacts, MemoryAssumption
<1>3. CASE EndRun(r)
  <2>1. phase[r] = "running" /\ \E p \in {"upserting", "skipped"} : phase' = [phase EXCEPT ![r] = p]
    BY <1>3 DEF EndRun
  <2>2. tries[r] = 0
    BY <2>1 DEF MemoryInv, RowStays
  <2>3. PICK p \in {"upserting", "skipped"} : phase' = [phase EXCEPT ![r] = p]
    BY <2>1
  <2>4. p \in Phases \ {"found", "written", "refused"} /\ tries[r] < Attempts /\ ~(tries[r] >= 1)
        /\ phase[r] # "written" /\ p \notin {"new", "running"}
    BY <1>2, <2>1, <2>2 DEF Phases
  <2>5. \A row \in shown'[r] : row.until >= started
    BY <1>1, <2>1 DEF MemoryInv, ShownAlive
  <2> QED
    BY <1>1, <1>2, <2>3, <2>4, <2>5, MemoryQuiet
<1>4. CASE InsertClashes(r)
  <2>1. /\ phase[r] = "found" /\ read[r] = None /\ hint[page[r]] # None
        /\ phase' = [phase EXCEPT ![r] = AfterClash(tries[r])]
    BY <1>4 DEF InsertClashes
  <2>2. tries[r] = 1
    BY <2>1 DEF MemoryInv, RowStays
  <2>3. AfterClash(tries[r]) = "upserting" /\ tries[r] < Attempts
    BY <1>2, <2>2 DEF AfterClash
  <2> QED
    BY <1>1, <1>2, <2>1, <2>2, <2>3, MemoryQuiet DEF MemoryInv, ShownAlive, Phases
<1>5. CASE WriteFails(r)
  <2>1. phase[r] = "found" /\ phase' = [phase EXCEPT ![r] = "lost"]
    BY <1>5 DEF WriteFails
  <2> QED
    BY <1>1, <1>2, <2>1, MemoryQuiet DEF MemoryInv, ShownAlive, Phases
<1> QED
  BY <1>3, <1>4, <1>5

\* An attempt begins.
LEMMA MemoryLooks ==
  ASSUME MemoryInv, NEW r \in MemoryRuns, Find(r)
  PROVE  MemoryInv'
<1>1. /\ phase[r] = "upserting" /\ phase' = [phase EXCEPT ![r] = "found"]
      /\ read' = [read EXCEPT ![r] = hint[page[r]]] /\ tries' = [tries EXCEPT ![r] = @ + 1]
      /\ memoryOverlapped' = memoryOverlapped \cup (IF Writing(page[r]) = {} THEN {} ELSE Writing(page[r]) \cup {r})
      /\ hint' = hint /\ page' = page /\ tooled' = tooled /\ shown' = shown
      /\ pruned' = pruned /\ day' = day /\ started' = started
  BY DEF Find
<1>2. /\ hint \in [PageTypes -> Row \cup {None}] /\ read \in [MemoryRuns -> Row \cup {None}]
      /\ phase \in [MemoryRuns -> Phases] /\ page \in [MemoryRuns -> PageTypes]
      /\ tries \in [MemoryRuns -> 0..Attempts] /\ Attempts \in Nat
  BY MemoryFacts, MemoryAssumption
<1>3. tries[r] < Attempts /\ (tries[r] >= 1 => hint[page[r]] # None)
  BY <1>1 DEF MemoryInv, RowStays
<1>4. /\ Writing(page[r]) \subseteq MemoryRuns
      /\ \A q \in MemoryRuns : q \in Writing(page[r]) <=> phase[q] = "found" /\ page[q] = page[r]
  BY DEF Writing
<1>5. /\ memoryOverlapped \subseteq memoryOverlapped'
      /\ \A q \in MemoryRuns : phase[q] = "found" /\ page[q] = page[r] =>
            q \in memoryOverlapped' /\ r \in memoryOverlapped'
  BY <1>1, <1>4
<1>6. \A q \in MemoryRuns : /\ phase'[q] = (IF q = r THEN "found" ELSE phase[q])
                            /\ read'[q] = (IF q = r THEN hint[page[r]] ELSE read[q])
                            /\ tries'[q] = (IF q = r THEN tries[r] + 1 ELSE tries[q])
  BY <1>1, <1>2
<1>7. MemoryTypes'
  <2>1. tries[r] + 1 \in 0 .. Attempts
    BY <1>2, <1>3
  <2>2. tries' \in [MemoryRuns -> 0 .. Attempts]
    BY <1>1, <1>2, <2>1
  <2>3. phase' \in [MemoryRuns -> Phases] /\ read' \in [MemoryRuns -> Row \cup {None}]
    BY <1>1, <1>2 DEF Phases
  <2>4. memoryOverlapped' \subseteq MemoryRuns
    BY <1>1, <1>4, MemoryFacts
  <2> QED
    BY <1>1, <2>2, <2>3, <2>4 DEF MemoryInv, MemoryTypes
<1>8. RatesFit'
  <2>1. \A q \in MemoryRuns : phase[q] = "written" => phase'[q] = "written"
    BY <1>1, <1>6
  <2>3. \A k \in PageTypes : RateFits(hint[k], k)'
    BY <1>1, <2>1 DEF MemoryInv, RatesFit, RateFits
  <2> QED
    BY <1>1, <1>2, <1>6, <2>1, <2>3 DEF MemoryInv, RatesFit, RateFits
<1>9. NeverRefused' /\ RowsAlive'
  BY <1>1, <1>6 DEF MemoryInv, NeverRefused, RowsAlive
<1>10. RowStays'
  <2>1. tries[r] \in 0 .. Attempts
    BY <1>2
  <2>2. read'[r] = None => tries'[r] = 1
    BY <1>3, <1>6, <2>1
  <2> QED
    BY <1>1, <1>6, <2>2 DEF MemoryInv, RowStays
<1>11. WrittenKept'
  BY <1>1, <1>5, <1>6 DEF MemoryInv, WrittenKept
<1>12. OverlapsKnown'
  <2>1. ASSUME NEW q \in MemoryRuns, NEW u \in MemoryRuns, q # u, phase'[q] = "found", phase'[u] = "found", page[q] = page[u]
        PROVE  q \in memoryOverlapped'
    BY <1>5, <1>6, <2>1 DEF MemoryInv, OverlapsKnown
  <2>2. ASSUME NEW q \in MemoryRuns, NEW u \in MemoryRuns, phase'[q] = "found", phase'[u] = "written",
               page[q] = page[u], u \notin memoryOverlapped'
        PROVE  u \in RateOf(read'[q]) \cup pruned
    <3>1. phase[u] = "written" /\ u \notin memoryOverlapped
      BY <1>5, <1>6, <2>2
    <3>2. CASE q = r
      BY <1>6, <2>2, <3>1, <3>2 DEF MemoryInv, WrittenKept
    <3>3. CASE q # r
      BY <1>6, <2>2, <3>1, <3>3 DEF MemoryInv, OverlapsKnown
    <3> QED
      BY <3>2, <3>3
  <2> QED
    BY <1>1, <2>1, <2>2 DEF OverlapsKnown
<1>13. ShownAlive'
  BY <1>1, <1>6 DEF MemoryInv, ShownAlive
<1> QED
  BY <1>7, <1>8, <1>9, <1>10, <1>11, <1>12, <1>13 DEF MemoryInv

\* An observation is written over what was read.
LEMMA MemoryWritten ==
  ASSUME MemoryInv, NEW r \in MemoryRuns, NEW row \in Row, phase[r] = "found",
         hint' = [hint EXCEPT ![page[r]] = row], phase' = [phase EXCEPT ![r] = "written"],
         row # None, RateOf(row) = RateOf(read[r]) \cup {r}, Len(row.rate) = Cardinality(RateOf(row)),
         row.until >= started,
         page' = page, tooled' = tooled, shown' = shown, read' = read, tries' = tries,
         memoryOverlapped' = memoryOverlapped, pruned' = pruned, day' = day, started' = started
  PROVE  MemoryInv'
<1>1. /\ hint \in [PageTypes -> Row \cup {None}] /\ phase \in [MemoryRuns -> Phases]
      /\ page \in [MemoryRuns -> PageTypes]
  BY MemoryFacts
<1>2. /\ \A q \in MemoryRuns : phase'[q] = IF q = r THEN "written" ELSE phase[q]
      /\ \A k \in PageTypes : hint'[k] = IF k = page[r] THEN row ELSE hint[k]
      /\ hint' \in [PageTypes -> Row \cup {None}] /\ phase' \in [MemoryRuns -> Phases]
  BY <1>1 DEF Phases
<1>3. MemoryTypes'
  BY <1>2 DEF MemoryInv, MemoryTypes
<1>4. RatesFit'
  <2>1. \A q \in MemoryRuns : phase[q] = "written" => phase'[q] = "written"
    BY <1>2
  <2>2. ASSUME NEW k \in PageTypes PROVE RateFits(hint[k], k)'
    <3>1. CASE k = page[r]
      <4>1. RateFits(read[r], page[r])
        BY DEF MemoryInv, RatesFit
      <4>2. \A q \in RateOf(row) : q \in MemoryRuns /\ phase'[q] = "written" /\ page[q] = k
        BY <1>2, <2>1, <3>1, <4>1 DEF RateFits
      <4> QED
        BY <1>2, <3>1, <4>2 DEF RateFits
    <3>2. CASE k # page[r]
      BY <1>2, <2>1, <3>2 DEF MemoryInv, RatesFit, RateFits
    <3> QED
      BY <3>1, <3>2
  <2> QED
    BY <1>2, <2>1, <2>2 DEF MemoryInv, RatesFit, RateFits
<1>5. NeverRefused' /\ RowsAlive'
  BY <1>2 DEF MemoryInv, NeverRefused, RowsAlive
<1>6. RowStays'
  BY <1>1, <1>2 DEF MemoryInv, RowStays
<1>7. WrittenKept'
  <2>1. ASSUME NEW q \in MemoryRuns, phase'[q] = "written", q \notin memoryOverlapped
        PROVE  q \in RateOf(hint'[page[q]]) \cup pruned
    <3>1. CASE q = r
      BY <1>1, <1>2, <3>1
    <3>2. CASE q # r /\ page[q] = page[r]
      BY <1>1, <1>2, <2>1, <3>2 DEF MemoryInv, OverlapsKnown
    <3>3. CASE page[q] # page[r]
      BY <1>1, <1>2, <2>1, <3>3 DEF MemoryInv, WrittenKept
    <3> QED
      BY <3>1, <3>2, <3>3
  <2> QED
    BY <2>1 DEF WrittenKept
<1>8. OverlapsKnown'
  <2>1. ASSUME NEW q \in MemoryRuns, phase'[q] = "found", page[q] = page[r] PROVE r \in memoryOverlapped
    BY <1>2, <2>1 DEF MemoryInv, OverlapsKnown
  <2> QED
    BY <1>2, <2>1 DEF MemoryInv, OverlapsKnown
<1>9. ShownAlive'
  BY <1>2 DEF MemoryInv, ShownAlive
<1> QED
  BY <1>3, <1>4, <1>5, <1>6, <1>7, <1>8, <1>9 DEF MemoryInv

LEMMA MemoryWrites ==
  ASSUME MemoryInv, NEW r \in MemoryRuns, Insert(r) \/ Update(r)
  PROVE  MemoryInv'
<1>1. /\ hint \in [PageTypes -> Row \cup {None}] /\ read \in [MemoryRuns -> Row \cup {None}]
      /\ phase \in [MemoryRuns -> Phases] /\ page \in [MemoryRuns -> PageTypes]
      /\ day \in Nat /\ started \in Nat /\ started <= day /\ TTL \in Nat
      /\ None \notin MemoryRuns /\ None \notin Row
  BY MemoryFacts, MemoryAssumption
<1>2. /\ phase[r] = "found" /\ phase' = [phase EXCEPT ![r] = "written"]
      /\ page' = page /\ tooled' = tooled /\ shown' = shown /\ read' = read /\ tries' = tries
      /\ memoryOverlapped' = memoryOverlapped /\ pruned' = pruned /\ day' = day /\ started' = started
  BY DEF Insert, Update
<1>3. /\ StepsOf(r) \in MemoryRuns \cup {None} /\ day + TTL \in Nat /\ day + TTL >= started
      /\ <<r>> \in Seq(MemoryRuns)
  BY <1>1 DEF StepsOf
<1>4. Observation(r) \in Row
  BY <1>3 DEF Observation, Row
<1>5. CASE Insert(r)
  <2>1. read[r] = None /\ hint' = [hint EXCEPT ![page[r]] = Observation(r)]
    BY <1>5 DEF Insert
  <2>2. RateOf(read[r]) = {}
    BY <2>1 DEF RateOf
  <2>3. Observation(r).rate = <<r>> /\ Observation(r).until >= started /\ Observation(r) # None
    BY <1>1, <1>3, <1>4 DEF Observation
  <2>4. /\ RateOf(Observation(r)) = RateOf(read[r]) \cup {r}
        /\ Len(Observation(r).rate) = Cardinality(RateOf(Observation(r)))
    BY <2>2, <2>3, RateOne
  <2> QED
    BY <1>2, <1>4, <2>1, <2>3, <2>4, MemoryWritten
<1>6. CASE Update(r)
  <2>1. /\ read[r] # None
        /\ hint' = [hint EXCEPT ![page[r]] =
                      [Observation(r) EXCEPT !.steps = Keep(@, hint[page[r]].steps),
                                             !.rate = Append(read[r].rate, r)]]
    BY <1>6 DEF Update, Blend
  <2>2. hint[page[r]] # None
    BY <1>2, <2>1 DEF MemoryInv, RowStays
  <2>3. hint[page[r]] \in Row /\ read[r] \in Row
    BY <1>1, <2>1, <2>2
  <2>0. PICK row : row = [Observation(r) EXCEPT !.steps = Keep(@, hint[page[r]].steps), !.rate = Append(read[r].rate, r)]
    OBVIOUS
  <2>4. /\ Keep(StepsOf(r), hint[page[r]].steps) \in MemoryRuns \cup {None}
        /\ Append(read[r].rate, r) \in Seq(MemoryRuns)
    BY <1>3, <2>3 DEF Keep, Row
  <2>5. row = [by |-> r, steps |-> Keep(StepsOf(r), hint[page[r]].steps), rate |-> Append(read[r].rate, r),
               until |-> day + TTL]
    BY <2>0 DEF Observation
  <2>6. row \in Row /\ row.rate = Append(read[r].rate, r) /\ row.until >= started
    <3>0. PICK a, b, c : a = Keep(StepsOf(r), hint[page[r]].steps) /\ b = Append(read[r].rate, r) /\ c = day + TTL
      OBVIOUS
    <3>1. row = [by |-> r, steps |-> a, rate |-> b, until |-> c]
      BY <2>5, <3>0
    <3>2. a \in MemoryRuns \cup {None} /\ b \in Seq(MemoryRuns) /\ c \in Nat /\ c >= started
      BY <1>3, <2>4, <3>0
    <3>3. row \in Row
      BY <3>1, <3>2 DEF Row
    <3>4. row.rate = b /\ row.until = c
      BY <3>1
    <3> QED
      BY <3>0, <3>2, <3>3, <3>4
  <2>7. row # None
    BY <1>1, <2>6
  <2>8. RateFits(read[r], page[r])
    BY <1>2 DEF MemoryInv, RatesFit
  <2>9. r \notin RateOf(read[r]) /\ Len(read[r].rate) = Cardinality(RateOf(read[r]))
    BY <1>2, <2>1, <2>8 DEF RateFits
  <2>10. RateOf(row) = RateOf(read[r]) \cup {r} /\ Len(row.rate) = Cardinality(RateOf(row))
    BY <2>1, <2>3, <2>6, <2>7, <2>9, RateMore
  <2> QED
    BY <1>2, <2>0, <2>1, <2>6, <2>7, <2>10, MemoryWritten
<1> QED
  BY <1>5, <1>6

LEMMA MemoryDay ==
  ASSUME MemoryInv, NewDay
  PROVE  MemoryInv'
<1>1. /\ day' = day + 1 /\ hint' = hint /\ phase' = phase /\ page' = page /\ tooled' = tooled /\ shown' = shown
      /\ read' = read /\ tries' = tries /\ memoryOverlapped' = memoryOverlapped /\ pruned' = pruned
      /\ started' = started
  BY DEF NewDay
<1>2. MemoryTypes'
  BY <1>1 DEF MemoryInv, MemoryTypes
<1>3. RatesFit' /\ NeverRefused' /\ RowStays' /\ OverlapsKnown' /\ WrittenKept' /\ RowsAlive' /\ ShownAlive'
  BY <1>1 DEF MemoryInv, RatesFit, RateFits, NeverRefused, RowStays, OverlapsKnown, WrittenKept, RowsAlive, ShownAlive
<1> QED
  BY <1>2, <1>3 DEF MemoryInv

LEMMA MemoryRestarts ==
  ASSUME MemoryInv, MemoryRestart
  PROVE  MemoryInv'
<1>1. /\ started' = day
      /\ hint' = [k \in PageTypes |-> IF k \in Doomed THEN None ELSE hint[k]]
      /\ pruned' = pruned \cup {r \in MemoryRuns : phase[r] = "written" /\ page[r] \in Doomed}
      /\ phase' = [r \in MemoryRuns |-> IF phase[r] \in {"running", "upserting", "found"} THEN "killed" ELSE phase[r]]
      /\ page' = page /\ tooled' = tooled /\ shown' = shown /\ read' = read /\ tries' = tries
      /\ memoryOverlapped' = memoryOverlapped /\ day' = day
  BY DEF MemoryRestart
<1>2. /\ hint \in [PageTypes -> Row \cup {None}] /\ phase \in [MemoryRuns -> Phases]
      /\ page \in [MemoryRuns -> PageTypes] /\ pruned \subseteq MemoryRuns /\ day \in Nat
  BY MemoryFacts
<1>3. \A k \in PageTypes : k \notin Doomed /\ hint[k] # None => hint[k].until >= day
  BY <1>2 DEF Doomed, Expired, Row
<1>4. \A r \in MemoryRuns : /\ phase[r] = "written" <=> phase'[r] = "written"
                            /\ phase'[r] \notin {"running", "upserting", "found"}
                            /\ phase'[r] = phase[r] \/ phase'[r] = "killed"
  BY <1>1
<1>5. MemoryTypes'
  <2>1. phase' \in [MemoryRuns -> Phases] /\ hint' \in [PageTypes -> Row \cup {None}] /\ pruned' \subseteq MemoryRuns
    BY <1>1, <1>2 DEF Phases
  <2>2. started' \in Nat /\ day' \in Nat /\ started' <= day'
    BY <1>1, <1>2
  <2> QED
    BY <1>1, <2>1, <2>2 DEF MemoryInv, MemoryTypes
<1>6. RatesFit'
  <2>1. RateOf(None) = {}
    BY DEF RateOf
  <2> QED
    BY <1>1, <1>4, <2>1 DEF MemoryInv, RatesFit, RateFits
<1>7. NeverRefused' /\ RowsAlive' /\ ShownAlive' /\ OverlapsKnown'
  BY <1>1, <1>3, <1>4 DEF MemoryInv, NeverRefused, RowsAlive, ShownAlive, OverlapsKnown
<1>8. RowStays'
  BY <1>1, <1>4 DEF MemoryInv, RowStays
<1>9. WrittenKept'
  BY <1>1, <1>2, <1>4 DEF MemoryInv, WrittenKept
<1> QED
  BY <1>5, <1>6, <1>7, <1>8, <1>9 DEF MemoryInv

-----------------------------------------------------------------------------
LEMMA MemoryBegins ==
  ASSUME MemoryInit
  PROVE  MemoryInv
<1>1. /\ hint = [k \in PageTypes |-> None] /\ phase = [r \in MemoryRuns |-> "new"]
      /\ page \in [MemoryRuns -> PageTypes] /\ tooled \in [MemoryRuns -> BOOLEAN]
      /\ shown = [r \in MemoryRuns |-> {}] /\ read = [r \in MemoryRuns |-> None]
      /\ tries = [r \in MemoryRuns |-> 0] /\ memoryOverlapped = {} /\ pruned = {} /\ day = 0 /\ started = 0
  BY DEF MemoryInit
<1>2. 0 \in 0 .. Attempts
  BY MemoryAssumption
<1>3. MemoryTypes
  BY <1>1, <1>2 DEF MemoryTypes, Phases
<1>4. RateOf(None) = {}
  BY DEF RateOf
<1>5. RatesFit /\ NeverRefused /\ RowStays /\ OverlapsKnown /\ WrittenKept /\ RowsAlive /\ ShownAlive
  BY <1>1, <1>4 DEF RatesFit, RateFits, NeverRefused, RowStays, OverlapsKnown, WrittenKept, RowsAlive, ShownAlive
<1> QED
  BY <1>3, <1>5 DEF MemoryInv

LEMMA MemorySteps ==
  ASSUME MemoryInv, [MemoryNext]_memoryVars
  PROVE  MemoryInv'
<1>1. CASE \E r \in MemoryRuns : MemoryRun(r)
  BY <1>1, MemoryStarts, MemoryEnds, MemoryLooks, MemoryWrites DEF MemoryRun
<1>2. CASE UNCHANGED memoryVars
  <2>1. /\ day' = day /\ hint' = hint /\ phase' = phase /\ page' = page /\ tooled' = tooled /\ shown' = shown
        /\ read' = read /\ tries' = tries /\ memoryOverlapped' = memoryOverlapped /\ pruned' = pruned
        /\ started' = started
    BY <1>2 DEF memoryVars
  <2>2. MemoryTypes'
    BY <2>1 DEF MemoryInv, MemoryTypes
  <2>3. RatesFit' /\ NeverRefused' /\ RowStays' /\ OverlapsKnown' /\ WrittenKept' /\ RowsAlive' /\ ShownAlive'
    BY <2>1 DEF MemoryInv, RatesFit, RateFits, NeverRefused, RowStays, OverlapsKnown, WrittenKept, RowsAlive, ShownAlive
  <2> QED
    BY <2>2, <2>3 DEF MemoryInv
<1> QED
  BY <1>1, <1>2, MemoryDay, MemoryRestarts DEF MemoryNext

LEMMA MemoryIsTold ==
  ASSUME MemoryInv
  PROVE  MemoryTrue
<1>1. \A k : InRate(k) = RateOf(hint[k])
  BY DEF InRate, RateOf
<1>2. MemoryTypeOK
  <2>1. /\ phase \in [MemoryRuns -> Phases] /\ tries \in [MemoryRuns -> 0..Attempts]
        /\ hint \in [PageTypes -> Row \cup {None}]
    BY MemoryFacts
  <2> QED
    BY <1>1, <2>1 DEF MemoryInv, RatesFit, RateFits, MemoryTypeOK
<1>3. ObservationKept
  BY <1>1 DEF MemoryInv, WrittenKept, ObservationKept
<1> QED
  BY <1>2, <1>3 DEF MemoryInv, MemoryTrue

\* However many runs end together, and whenever the server restarts: no run is
\* blended twice or refused, what was written by itself is kept until its row is
\* pruned, and no hint is shown that had expired when the server started
\* (repositories.py:2704-2808, retention.py:80-97).
THEOREM MemoryIsTrue == MemorySpec => []MemoryTrue
<1>1. MemoryInit => MemoryInv
  BY MemoryBegins
<1>2. MemoryInv /\ [MemoryNext]_memoryVars => MemoryInv'
  BY MemorySteps
<1>3. MemoryInv => MemoryTrue
  BY MemoryIsTold
<1> QED
  BY <1>1, <1>2, <1>3, PTL DEF MemorySpec

-----------------------------------------------------------------------------
(* The decisions of a run.  A request that works off a list of events has  *)
(* found, for each key, what is there; only it adds automatic ones         *)
(* meanwhile, unless requests overlap.                                     *)

DecisionRow == [id : Nat \ {0}, key : Keys \cup {Manual}, edited : BOOLEAN]
NotesTyped ==
    /\ decisions \subseteq DecisionRow /\ items \in [Requests -> SUBSET Keys] /\ sent \in [Requests -> SUBSET Keys]
    /\ lastId \in Nat

\* No two requests at a time, unless there were.
OneRequest == ~overlapped => \A p, q \in working : p = q

\* What a request found is still all there is, but for what it worked off.
FoundAll(q) ==
    \A k \in Keys :
        /\ found[q][k] # 0 => \A d \in decisions : d.key = k => d.id = found[q][k]
        /\ found[q][k] = 0 /\ (k \in items[q] \/ k \notin sent[q]) => \A d \in decisions : d.key # k

\* What an undisturbed request found is still there, and what it worked off is as sent.
WorkedOff(q) ==
    \A k \in Keys :
        /\ found[q][k] # 0 => \A d \in decisions : d.id = found[q][k] => d.key = k
        /\ found[q][k] # 0 /\ k \in items[q] => IsStored(found[q][k])
        /\ k \in sent[q] \ items[q] =>
              (\E d \in decisions : d.key = k) /\ \A d \in decisions : d.key = k => ~d.edited

RequestsHold ==
    ~overlapped => \A q \in working : FoundAll(q) /\ (alone[q] => WorkedOff(q))

NotesInv == NotesTypeOK /\ NotesTyped /\ OneRequest /\ ListedOnce /\ RequestsHold

-----------------------------------------------------------------------------
LEMMA LeastKey ==
  ASSUME NEW S \in SUBSET Nat, S # {}
  PROVE  \E k \in S : \A j \in S : k <= j
<1>1. IsWellFoundedOn(OpToRel(<, Nat), Nat)
  BY NatLessThanWellFounded
<1>2. PICK k \in S : \A j \in S : ~(<<j, k>> \in OpToRel(<, Nat))
  BY <1>1, WFMin, Zenon
<1>3. \A j \in S : ~(j < k)
  BY <1>2 DEF OpToRel
<1> QED
  BY <1>3

LEMMA GreatestId ==
  ASSUME NEW n \in Nat, NEW S \in SUBSET (0..n), S # {}
  PROVE  \E i \in S : \A j \in S : j <= i
<1>1. PICK T \in SUBSET Nat : T = {n - i : i \in S}
  <2>1. \A i \in S : n - i \in Nat
    OBVIOUS
  <2> QED
    BY <2>1
<1>2. T # {}
  BY <1>1
<1>3. PICK k \in T : \A j \in T : k <= j
  BY <1>2, LeastKey
<1>4. PICK i \in S : k = n - i
  BY <1>1, <1>3
<1>5. \A j \in S : n - i <= n - j /\ j \in Nat /\ i \in Nat
  BY <1>1, <1>3, <1>4
<1> QED
  BY <1>5

LEMMA NotesFacts ==
  ASSUME NotesInv
  PROVE  /\ NotesTypeOK /\ NotesTyped /\ OneRequest /\ ListedOnce /\ RequestsHold
         /\ \A d \in decisions : d.id \in 1..lastId /\ d.key \in Keys \cup {Manual} /\ d.edited \in BOOLEAN
         /\ \A d, e \in decisions : d.id = e.id => d = e
         /\ lastId \in Nat /\ occurred \in 0..MaxDecisions /\ MaxDecisions \in Nat
         /\ \A q \in Requests : items[q] \subseteq sent[q] /\ sent[q] \subseteq 1..occurred /\ sent[q] \subseteq Keys
         /\ found \in [Requests -> [Keys -> 0..lastId]] /\ alone \in [Requests -> BOOLEAN] /\ overlapped \in BOOLEAN
         /\ working \subseteq Requests
BY NotesAssumption DEF NotesInv, NotesTypeOK, NotesTyped, Keys

\* A request works off one of its keys.
LEMMA FirstIs ==
  ASSUME NotesInv, NEW q \in Requests, items[q] # {}
  PROVE  First(q) \in items[q] /\ First(q) \in Keys
<1>1. items[q] \in SUBSET Nat /\ items[q] \subseteq Keys
  <2>1. items[q] \subseteq Keys
    BY NotesFacts
  <2>2. Keys \subseteq Nat
    BY NotesAssumption DEF Keys
  <2> QED
    BY <2>1, <2>2
<1>2. \E k \in items[q] : \A j \in items[q] : k <= j
  BY <1>1, LeastKey
<1> QED
  BY <1>1, <1>2 DEF First

\* The newest row of a key is one of them, if there is any.
LEMMA NewestIs ==
  ASSUME NotesInv, NEW k \in Keys
  PROVE  /\ Newest(k) \in 0..lastId
         /\ Newest(k) = 0 => \A d \in decisions : d.key # k
         /\ Newest(k) # 0 => \E d \in decisions : d.key = k /\ d.id = Newest(k)
<1>1. PICK ids : ids = {d.id : d \in {a \in Automatic : a.key = k}}
  OBVIOUS
<1>2. k # Manual
  BY DEF Keys, Manual
<1>3. \A i : i \in ids <=> \E d \in decisions : d.key = k /\ d.id = i
  BY <1>1, <1>2 DEF Automatic
<1>4. ids \in SUBSET (0..lastId) /\ 0 \notin ids
  BY <1>3, NotesFacts
<1>5. Newest(k) = IF ids = {} THEN 0 ELSE CHOOSE i \in ids : \A j \in ids : j <= i
  BY <1>1 DEF Newest
<1>6. CASE ids = {}
  <2>1. Newest(k) = 0
    BY <1>5, <1>6
  <2>2. lastId \in Nat
    BY NotesFacts
  <2> QED
    BY <1>3, <1>6, <2>1, <2>2
<1>7. CASE ids # {}
  <2>1. \E i \in ids : \A j \in ids : j <= i
    BY <1>4, <1>7, NotesFacts, GreatestId
  <2>2. Newest(k) \in ids
    BY <1>5, <1>7, <2>1
  <2> QED
    BY <1>3, <1>4, <2>2
<1> QED
  BY <1>6, <1>7

LEMMA DecisionIs ==
  ASSUME NEW id \in Nat \ {0}, NEW key \in Keys \cup {Manual}, NEW edited \in BOOLEAN
  PROVE  /\ Decision(id, key, edited) \in DecisionRow /\ Decision(id, key, edited).id = id
         /\ Decision(id, key, edited).key = key /\ Decision(id, key, edited).edited = edited
BY DEF Decision, DecisionRow

LEMMA OperatorsIs ==
  ASSUME NEW id \in Nat \ {0}, NEW key \in Keys \cup {Manual}
  PROVE  \E new \in DecisionRow : new = Decision(id, key, TRUE) /\ new.id = id /\ new.key = key
<1>1. PICK new : new = Decision(id, key, TRUE)
  OBVIOUS
<1>2. new = [id |-> id, key |-> key, edited |-> TRUE]
  BY <1>1 DEF Decision
<1>3. new \in DecisionRow /\ new.id = id /\ new.key = key /\ new.edited = TRUE
  BY <1>2 DEF DecisionRow
<1> QED
  BY <1>1, <1>3

LEMMA ConsoleIs ==
  ASSUME NEW id \in Nat \ {0}, NEW key \in Keys \cup {Manual}
  PROVE  \E new \in DecisionRow : /\ new = Decision(id, key, FALSE) /\ new.id = id /\ new.key = key
                                  /\ ~new.edited
<1>1. PICK new : new = Decision(id, key, FALSE)
  OBVIOUS
<1>2. new = [id |-> id, key |-> key, edited |-> FALSE]
  BY <1>1 DEF Decision
<1>3. new \in DecisionRow /\ new.id = id /\ new.key = key /\ ~new.edited
  BY <1>2 DEF DecisionRow
<1> QED
  BY <1>1, <1>3

\* The rows after one of them is written.
LEMMA NoteUpdated ==
  ASSUME NotesInv, NEW id \in Nat \ {0}, NEW key \in Keys
  PROVE  /\ UpdateNote(id, key) \subseteq DecisionRow
         /\ \A d \in UpdateNote(id, key) : \/ d \in decisions /\ d.id # id
                                           \/ d = Decision(id, key, FALSE) /\ IsStored(id)
         /\ \A d \in decisions : d.id # id => d \in UpdateNote(id, key)
         /\ IsStored(id) => Decision(id, key, FALSE) \in UpdateNote(id, key)
<1>1. decisions \subseteq DecisionRow
  BY NotesFacts DEF NotesTyped
<1>2. Decision(id, key, FALSE) \in DecisionRow
  BY DecisionIs
<1> QED
  BY <1>1, <1>2 DEF UpdateNote, IsStored

\* The parts of the invariant that say what is where.
NotesShaped == NotesTypeOK /\ NotesTyped /\ OneRequest

\* Only rows change, and one more may be numbered.
LEMMA RowsOnly ==
  ASSUME NotesInv, UNCHANGED <<occurred, working, sent, found, overlapped>>,
         lastId' \in lastId .. MaxDecisionRows, decisions' \subseteq DecisionRow,
         items' \in [Requests -> SUBSET Keys], \A q \in Requests : items'[q] \subseteq items[q],
         alone' \in [Requests -> BOOLEAN],
         \A d \in decisions' : d.id \in 1..lastId',
         \A d, e \in decisions' : d.id = e.id => d = e
  PROVE  NotesShaped'
<1>1. /\ lastId \in Nat /\ occurred \in 0..MaxDecisions /\ MaxDecisions \in Nat /\ MaxDecisionRows \in Nat
      /\ \A q \in Requests : items[q] \subseteq sent[q] /\ sent[q] \subseteq 1..occurred
      /\ found \in [Requests -> [Keys -> 0..lastId]] /\ overlapped \in BOOLEAN /\ working \subseteq Requests
      /\ sent \in [Requests -> SUBSET Keys]
  BY NotesFacts, NotesAssumption DEF NotesTyped
<1>2. lastId' \in Nat /\ lastId' \in 0..MaxDecisionRows /\ 0..lastId \subseteq 0..lastId'
  BY <1>1
<1>3. found' \in [Requests -> [Keys -> 0..lastId']]
  BY <1>1, <1>2
<1>4. \A d \in decisions' : d.key \in Keys \cup {Manual} /\ d.edited \in BOOLEAN
  BY DEF DecisionRow
<1>5. NotesTypeOK'
  BY <1>1, <1>2, <1>3, <1>4 DEF NotesTypeOK
<1>6. NotesTyped'
  BY <1>1, <1>2 DEF NotesTyped
<1>7. OneRequest'
  BY NotesFacts DEF OneRequest
<1> QED
  BY <1>5, <1>6, <1>7 DEF NotesShaped

\* No row is one of a key that it was not one of.
NoNewKeys == \A d \in decisions' : d.key # Manual => \E e \in decisions : e.key = d.key /\ e.id = d.id

LEMMA FewerKeys ==
  ASSUME NotesInv, UNCHANGED <<working, sent, found, overlapped, items>>, NoNewKeys,
         \A d, e \in decisions' : d.id = e.id => d = e
  PROVE  ListedOnce' /\ (~overlapped' => \A q \in working : FoundAll(q)')
<1>1. ListedOnce'
  <2> SUFFICES ASSUME ~overlapped, NEW d \in decisions', NEW e \in decisions', d.key # Manual, e.key # Manual,
                      d.key = e.key
               PROVE  d = e
    BY DEF ListedOnce, Automatic
  <2>1. PICK a \in decisions : a.key = d.key /\ a.id = d.id
    BY DEF NoNewKeys
  <2>2. PICK b \in decisions : b.key = e.key /\ b.id = e.id
    BY DEF NoNewKeys
  <2>3. a = b
    BY <2>1, <2>2, NotesFacts DEF ListedOnce, Automatic
  <2> QED
    BY <2>1, <2>2, <2>3
<1>2. ASSUME ~overlapped', NEW q \in working PROVE FoundAll(q)'
  <2>1. FoundAll(q) /\ found' = found /\ items' = items /\ sent' = sent
    BY <1>2, NotesFacts DEF RequestsHold
  <2>2. \A k \in Keys : k # Manual
    BY DEF Keys, Manual
  <2>3. \A k \in Keys, d \in decisions' : d.key = k => \E e \in decisions : e.key = k /\ e.id = d.id
    BY <2>2 DEF NoNewKeys
  <2> QED
    BY <2>1, <2>3 DEF FoundAll
<1> QED
  BY <1>1, <1>2

\* What an operator does.
LEMMA OperatorKeeps ==
  ASSUME NotesInv, Operator
  PROVE  NotesInv'
<1>1. /\ alone' = [q \in Requests |-> FALSE]
      /\ UNCHANGED <<occurred, working, items, sent, found, overlapped>>
  BY DEF Operator, OperatorCreates, OperatorUpdates, OperatorDeletes, Interferes
<1>2. /\ decisions \subseteq DecisionRow /\ lastId \in Nat /\ lastId <= MaxDecisionRows /\ MaxDecisionRows \in Nat
      /\ items \in [Requests -> SUBSET Keys]
  BY NotesFacts, NotesAssumption DEF NotesTyped, NotesTypeOK
<1>3. /\ \A d \in decisions : d.id \in 1..lastId /\ d.key \in Keys \cup {Manual} /\ d.edited \in BOOLEAN
      /\ \A d, e \in decisions : d.id = e.id => d = e
  BY NotesFacts
<1>4. /\ lastId' \in lastId .. MaxDecisionRows /\ decisions' \subseteq DecisionRow
      /\ \A d \in decisions' : d.id \in 1..lastId'
      /\ \A d, e \in decisions' : d.id = e.id => d = e
      /\ NoNewKeys
  <2>1. CASE OperatorCreates
    <3>1. /\ lastId < MaxDecisionRows /\ lastId' = lastId + 1
          /\ decisions' = decisions \cup {Decision(lastId + 1, Manual, TRUE)}
      BY <2>1 DEF OperatorCreates
    <3>2. PICK new \in DecisionRow : /\ new = Decision(lastId + 1, Manual, TRUE) /\ new.id = lastId + 1
                                     /\ new.key = Manual
      <4>1. lastId + 1 \in Nat \ {0}
        BY <1>2
      <4> QED
        BY <4>1, OperatorsIs
    <3>3. \A d \in decisions : d.id # new.id /\ d.id \in 1..(lastId + 1)
      <4>1. \A i \in 1..lastId : i # lastId + 1 /\ i \in 1..(lastId + 1)
        BY <1>2
      <4> QED
        BY <1>3, <3>2, <4>1
    <3>4. new.id \in 1..(lastId + 1) /\ lastId + 1 \in lastId .. MaxDecisionRows
      <4>1. lastId + 1 \in 1..(lastId + 1) /\ lastId + 1 \in lastId .. MaxDecisionRows
        BY <1>2, <3>1
      <4> QED
        BY <3>2, <4>1
    <3>5. decisions' = decisions \cup {new}
      BY <3>1, <3>2
    <3> QED
      BY <1>2, <1>3, <3>1, <3>2, <3>3, <3>4, <3>5 DEF NoNewKeys
  <2>2. ASSUME NEW e \in decisions, OperatorUpdates(e.id)
        PROVE  /\ lastId' \in lastId .. MaxDecisionRows /\ decisions' \subseteq DecisionRow
               /\ \A d \in decisions' : d.id \in 1..lastId'
               /\ \A d, f \in decisions' : d.id = f.id => d = f
               /\ NoNewKeys
    <3>1. lastId' = lastId
      BY <2>2 DEF OperatorUpdates
    <3>2. PICK keeps \in BOOLEAN :
            decisions' = {IF d.id = e.id THEN Decision(e.id, IF keeps THEN d.key ELSE Manual, TRUE) ELSE d :
                            d \in decisions}
      BY <2>2 DEF OperatorUpdates
    <3>3. PICK key \in Keys \cup {Manual} : key = (IF keeps THEN e.key ELSE Manual)
      BY <1>3
    <3>4. e.id \in Nat \ {0}
      BY <1>3
    <3>5. PICK new \in DecisionRow : /\ new = Decision(e.id, key, TRUE) /\ new.id = e.id /\ new.key = key
      BY <3>4, OperatorsIs
    <3>6. \A d \in decisions : d.id = e.id => d = e
      BY <1>3
    <3>7. \A d \in decisions' : d = new \/ (d \in decisions /\ d.id # e.id)
      BY <3>2, <3>3, <3>5, <3>6
    <3>8. lastId' \in lastId .. MaxDecisionRows /\ decisions' \subseteq DecisionRow
      BY <1>2, <3>1, <3>7
    <3>9. \A d \in decisions' : d.id \in 1..lastId'
      BY <1>3, <3>1, <3>5, <3>7
    <3>10. \A d, f \in decisions' : d.id = f.id => d = f
      BY <1>3, <3>5, <3>7
    <3>11. NoNewKeys
      BY <3>3, <3>5, <3>7 DEF NoNewKeys
    <3> QED
      BY <3>8, <3>9, <3>10, <3>11
  <2>3. ASSUME NEW e \in decisions, OperatorDeletes(e.id)
        PROVE  /\ lastId' \in lastId .. MaxDecisionRows /\ decisions' \subseteq DecisionRow
               /\ \A d \in decisions' : d.id \in 1..lastId'
               /\ \A d, f \in decisions' : d.id = f.id => d = f
               /\ NoNewKeys
    <3>1. lastId' = lastId /\ decisions' \subseteq decisions
      BY <2>3 DEF OperatorDeletes
    <3> QED
      BY <1>2, <1>3, <3>1 DEF NoNewKeys
  <2> QED
    BY <2>1, <2>2, <2>3 DEF Operator
<1>5. NotesShaped'
  <2>1. items' \in [Requests -> SUBSET Keys] /\ \A q \in Requests : items'[q] \subseteq items[q]
    BY <1>1, <1>2
  <2>2. alone' \in [Requests -> BOOLEAN]
    BY <1>1
  <2> QED
    BY <1>1, <1>4, <2>1, <2>2, RowsOnly
<1>6. ListedOnce' /\ (~overlapped' => \A q \in working : FoundAll(q)')
  BY <1>1, <1>4, FewerKeys
<1>7. RequestsHold'
  <2>1. \A q \in working : ~alone'[q]
    BY <1>1, NotesFacts
  <2> QED
    BY <1>1, <1>6, <2>1 DEF RequestsHold
<1> QED
  BY <1>5, <1>6, <1>7 DEF NotesInv, NotesShaped

\* What a request works off, and what that leaves of its list.
LEMMA TakenIs ==
  ASSUME NotesInv, NEW q \in Requests, items[q] # {}, Taken(q)
  PROVE  /\ First(q) \in items[q] /\ First(q) \in sent[q] /\ First(q) \in Keys /\ First(q) # Manual
         /\ items' \in [Requests -> SUBSET Keys] /\ items'[q] = items[q] \ {First(q)}
         /\ \A p \in Requests : items'[p] \subseteq items[p]
<1>1. First(q) \in items[q] /\ First(q) \in Keys
  BY FirstIs
<1>2. items \in [Requests -> SUBSET Keys] /\ items[q] \subseteq sent[q]
  BY NotesFacts DEF NotesTyped
<1>3. items' = [items EXCEPT ![q] = @ \ {First(q)}]
  BY DEF Taken
<1>4. First(q) # Manual
  BY <1>1 DEF Keys, Manual
<1> QED
  BY <1>1, <1>2, <1>3, <1>4

LEMMA CreateItemKeeps ==
  ASSUME NotesInv, NEW q \in Requests, CreateItem(q)
  PROVE  NotesInv'
<1>1. /\ q \in working /\ items[q] # {} /\ Taken(q) /\ found[q][First(q)] = 0 /\ lastId < MaxDecisionRows
      /\ decisions' = decisions \cup {Decision(lastId + 1, First(q), FALSE)} /\ lastId' = lastId + 1
      /\ UNCHANGED <<occurred, working, sent, found, alone, overlapped>>
  BY DEF CreateItem
<1>2. PICK k \in Keys : k = First(q)
  BY <1>1, FirstIs
<1>3. /\ k \in items[q] /\ k \in sent[q] /\ k # Manual /\ items' \in [Requests -> SUBSET Keys]
      /\ items'[q] = items[q] \ {k} /\ \A p \in Requests : items'[p] \subseteq items[p]
  BY <1>1, <1>2, TakenIs
<1>4. /\ decisions \subseteq DecisionRow /\ lastId \in Nat /\ MaxDecisionRows \in Nat /\ alone \in [Requests -> BOOLEAN]
      /\ found \in [Requests -> [Keys -> 0..lastId]]
      /\ \A d \in decisions : d.id \in 1..lastId
      /\ \A d, e \in decisions : d.id = e.id => d = e
  BY NotesFacts, NotesAssumption DEF NotesTyped
<1>5. PICK new \in DecisionRow : /\ new = Decision(lastId + 1, k, FALSE) /\ new.id = lastId + 1 /\ new.key = k
                                 /\ ~new.edited
  <2>1. lastId + 1 \in Nat \ {0}
    BY <1>4
  <2> QED
    BY <2>1, ConsoleIs, Zenon
<1>6. decisions' = decisions \cup {new}
  BY <1>1, <1>2, <1>5
<1>7. \A i \in 0..lastId : i # lastId + 1
  BY <1>4
<1>8. \A i \in 1..lastId : i \in 0..lastId /\ i \in 1..(lastId + 1)
  BY <1>4
<1>9. lastId + 1 \in 1..(lastId + 1) /\ lastId + 1 \in lastId .. MaxDecisionRows
  BY <1>1, <1>4
<1>10. NotesShaped'
  <2>1. \A d \in decisions' : d.id \in 1..lastId'
    BY <1>1, <1>4, <1>5, <1>6, <1>8, <1>9
  <2>2. \A d, e \in decisions' : d.id = e.id => d = e
    BY <1>4, <1>5, <1>6, <1>7, <1>8
  <2>3. lastId' \in lastId .. MaxDecisionRows /\ decisions' \subseteq DecisionRow /\ alone' \in [Requests -> BOOLEAN]
    BY <1>1, <1>4, <1>6, <1>9
  <2> QED
    BY <1>1, <1>3, <2>1, <2>2, <2>3, RowsOnly
<1>11. ~overlapped => FoundAll(q) /\ (alone[q] => WorkedOff(q))
  BY <1>1, NotesFacts DEF RequestsHold
<1>12. ~overlapped => \A d \in decisions : d.key # k
  BY <1>1, <1>2, <1>3, <1>11 DEF FoundAll
<1>13. ListedOnce'
  BY <1>1, <1>5, <1>6, <1>12, NotesFacts DEF ListedOnce, Automatic
<1>14. ASSUME ~overlapped' PROVE FoundAll(q)' /\ (alone'[q] => WorkedOff(q)')
  <2>1. FoundAll(q) /\ (alone[q] => WorkedOff(q)) /\ \A d \in decisions : d.key # k
    BY <1>1, <1>11, <1>12, <1>14
  <2>2. found' = found /\ sent' = sent /\ alone' = alone /\ found[q][k] = 0
    BY <1>1, <1>2
  <2>3. FoundAll(q)'
    <3> SUFFICES ASSUME NEW j \in Keys
                 PROVE  /\ found[q][j] # 0 => \A d \in decisions' : d.key = j => d.id = found[q][j]
                        /\ found[q][j] = 0 /\ (j \in items'[q] \/ j \notin sent[q]) => \A d \in decisions' : d.key # j
      BY <2>2 DEF FoundAll
    <3>1. /\ found[q][j] # 0 => \A d \in decisions : d.key = j => d.id = found[q][j]
          /\ found[q][j] = 0 /\ (j \in items[q] \/ j \notin sent[q]) => \A d \in decisions : d.key # j
      BY <2>1 DEF FoundAll
    <3>2. new.key = j => found[q][j] = 0 /\ j \notin items'[q] /\ j \in sent[q]
      BY <1>3, <1>5, <2>2
    <3> QED
      BY <1>3, <1>6, <3>1, <3>2
  <2>4. \A j \in Keys : found[q][j] # lastId + 1
    BY <1>4, <1>7
  <2>5. ASSUME WorkedOff(q) PROVE WorkedOff(q)'
    <3> SUFFICES ASSUME NEW j \in Keys
                 PROVE  /\ found[q][j] # 0 => \A d \in decisions' : d.id = found[q][j] => d.key = j
                        /\ found[q][j] # 0 /\ j \in items'[q] => IsStored(found[q][j])'
                        /\ j \in sent[q] \ items'[q] =>
                              (\E d \in decisions' : d.key = j) /\ \A d \in decisions' : d.key = j => ~d.edited
      BY <2>2 DEF WorkedOff
    <3>1. /\ found[q][j] # 0 => \A d \in decisions : d.id = found[q][j] => d.key = j
          /\ found[q][j] # 0 /\ j \in items[q] => IsStored(found[q][j])
          /\ j \in sent[q] \ items[q] =>
                (\E d \in decisions : d.key = j) /\ \A d \in decisions : d.key = j => ~d.edited
      BY <2>5 DEF WorkedOff
    <3>2. found[q][j] # 0 => \A d \in decisions' : d.id = found[q][j] => d.key = j
      BY <1>5, <1>6, <2>4, <3>1
    <3>3. found[q][j] # 0 /\ j \in items'[q] => IsStored(found[q][j])'
      BY <1>3, <1>6, <2>2, <3>1 DEF IsStored
    <3>4. j \in sent[q] \ items'[q] =>
             (\E d \in decisions' : d.key = j) /\ \A d \in decisions' : d.key = j => ~d.edited
      BY <1>3, <1>5, <1>6, <2>1, <3>1
    <3> QED
      BY <3>2, <3>3, <3>4
  <2> QED
    BY <2>1, <2>2, <2>3, <2>5
<1>15. RequestsHold'
  <2>1. ~overlapped => \A p \in working : p = q
    BY <1>1, NotesFacts DEF OneRequest
  <2> QED
    BY <1>1, <1>14, <2>1 DEF RequestsHold
<1> QED
  BY <1>10, <1>13, <1>15 DEF NotesInv, NotesShaped

LEMMA UpdateItemKeeps ==
  ASSUME NotesInv, NEW q \in Requests, UpdateItem(q)
  PROVE  NotesInv'
<1>1. /\ q \in working /\ items[q] # {} /\ Taken(q) /\ found[q][First(q)] # 0
      /\ decisions' = UpdateNote(found[q][First(q)], First(q)) /\ lastId' = lastId
      /\ UNCHANGED <<occurred, working, sent, found, alone, overlapped>>
  BY DEF UpdateItem
<1>2. PICK k \in Keys : k = First(q)
  BY <1>1, FirstIs
<1>3. /\ k \in items[q] /\ k \in sent[q] /\ k # Manual /\ items' \in [Requests -> SUBSET Keys]
      /\ items'[q] = items[q] \ {k} /\ \A p \in Requests : items'[p] \subseteq items[p]
  BY <1>1, <1>2, TakenIs
<1>4. /\ decisions \subseteq DecisionRow /\ lastId \in Nat /\ alone \in [Requests -> BOOLEAN]
      /\ lastId \in 0..MaxDecisionRows /\ MaxDecisionRows \in Nat
      /\ found \in [Requests -> [Keys -> 0..lastId]]
      /\ \A d \in decisions : d.id \in 1..lastId
      /\ \A d, e \in decisions : d.id = e.id => d = e
  BY NotesFacts, NotesAssumption DEF NotesTyped, NotesTypeOK
<1>5. PICK i \in Nat \ {0} : i = found[q][k]
  BY <1>1, <1>2, <1>4
<1>6. PICK new \in DecisionRow : /\ new = Decision(i, k, FALSE) /\ new.id = i /\ new.key = k
                                 /\ ~new.edited
  BY ConsoleIs, Zenon
<1>7. /\ decisions' \subseteq DecisionRow
      /\ \A d \in decisions' : \/ d \in decisions /\ d.id # i
                               \/ d = new /\ IsStored(i)
      /\ \A d \in decisions : d.id # i => d \in decisions'
      /\ IsStored(i) => new \in decisions'
  BY <1>1, <1>2, <1>5, <1>6, NoteUpdated
<1>8. NotesShaped'
  <2>1. IsStored(i) => i \in 1..lastId
    BY <1>4 DEF IsStored
  <2>2. \A d \in decisions' : d.id \in 1..lastId'
    BY <1>1, <1>4, <1>6, <1>7, <2>1
  <2>3. \A d, e \in decisions' : d.id = e.id => d = e
    BY <1>4, <1>6, <1>7
  <2>4. lastId' \in lastId .. MaxDecisionRows /\ alone' \in [Requests -> BOOLEAN]
    BY <1>1, <1>4
  <2> QED
    BY <1>1, <1>3, <1>7, <2>2, <2>3, <2>4, RowsOnly
<1>9. ~overlapped => FoundAll(q) /\ (alone[q] => WorkedOff(q))
  BY <1>1, NotesFacts DEF RequestsHold
<1>10. ~overlapped => \A d \in decisions : d.key = k => d.id = i
  BY <1>5, <1>9 DEF FoundAll
<1>11. ListedOnce'
  <2> SUFFICES ASSUME ~overlapped, NEW d \in decisions', NEW e \in decisions', d.key # Manual, e.key # Manual,
                      d.key = e.key
               PROVE  d = e
    BY <1>1 DEF ListedOnce, Automatic
  <2>1. \A a, b \in decisions : a.key # Manual /\ a.key = b.key => a = b
    BY NotesFacts DEF ListedOnce, Automatic
  <2> QED
    BY <1>6, <1>7, <1>10, <2>1
<1>12. ASSUME ~overlapped' PROVE FoundAll(q)' /\ (alone'[q] => WorkedOff(q)')
  <2>1. FoundAll(q) /\ (alone[q] => WorkedOff(q)) /\ \A d \in decisions : d.key = k => d.id = i
    BY <1>1, <1>9, <1>10, <1>12
  <2>2. found' = found /\ sent' = sent /\ alone' = alone /\ found[q][k] = i
    BY <1>1, <1>5
  <2>3. FoundAll(q)'
    <3> SUFFICES ASSUME NEW j \in Keys
                 PROVE  /\ found[q][j] # 0 => \A d \in decisions' : d.key = j => d.id = found[q][j]
                        /\ found[q][j] = 0 /\ (j \in items'[q] \/ j \notin sent[q]) => \A d \in decisions' : d.key # j
      BY <2>2 DEF FoundAll
    <3>1. /\ found[q][j] # 0 => \A d \in decisions : d.key = j => d.id = found[q][j]
          /\ found[q][j] = 0 /\ (j \in items[q] \/ j \notin sent[q]) => \A d \in decisions : d.key # j
      BY <2>1 DEF FoundAll
    <3>2. new.key = j => found[q][j] = i
      BY <1>6, <2>2
    <3> QED
      BY <1>3, <1>6, <1>7, <3>1, <3>2
  <2>4. ASSUME WorkedOff(q) PROVE WorkedOff(q)'
    <3> SUFFICES ASSUME NEW j \in Keys
                 PROVE  /\ found[q][j] # 0 => \A d \in decisions' : d.id = found[q][j] => d.key = j
                        /\ found[q][j] # 0 /\ j \in items'[q] => IsStored(found[q][j])'
                        /\ j \in sent[q] \ items'[q] =>
                              (\E d \in decisions' : d.key = j) /\ \A d \in decisions' : d.key = j => ~d.edited
      BY <2>2 DEF WorkedOff
    <3>1. /\ found[q][j] # 0 => \A d \in decisions : d.id = found[q][j] => d.key = j
          /\ found[q][j] # 0 /\ j \in items[q] => IsStored(found[q][j])
          /\ j \in sent[q] \ items[q] =>
                (\E d \in decisions : d.key = j) /\ \A d \in decisions : d.key = j => ~d.edited
      BY <2>4 DEF WorkedOff
    <3>2. IsStored(i) /\ \A d \in decisions : d.id = i => d.key = k
      BY <1>3, <2>2, <2>4 DEF WorkedOff
    <3>3. PICK old \in decisions : old.id = i /\ old.key = k
      BY <3>2 DEF IsStored
    <3>4. found[q][j] # 0 => \A d \in decisions' : d.id = found[q][j] => d.key = j
      BY <1>6, <1>7, <3>1, <3>3
    <3>5. new \in decisions'
      BY <1>7, <3>2
    <3>6. found[q][j] # 0 /\ j \in items'[q] => IsStored(found[q][j])'
      <4>1. found[q][j] # 0 /\ j \in items'[q] => \E d \in decisions : d.id = found[q][j]
        BY <1>3, <3>1 DEF IsStored
      <4>2. found[q][j] # 0 /\ j \in items'[q] => \E d \in decisions' : d.id = found[q][j]
        BY <1>6, <1>7, <3>5, <4>1
      <4> QED
        BY <2>2, <4>2 DEF IsStored
    <3>7. CASE j = k
      <4>1. \A d \in decisions' : d.key = k => d = new
        BY <1>7, <2>1
      <4>2. (\E d \in decisions' : d.key = j) /\ \A d \in decisions' : d.key = j => ~d.edited
        BY <1>6, <3>5, <3>7, <4>1
      <4> QED
        BY <3>4, <3>6, <4>2
    <3>8. CASE j # k
      <4>1. j \in sent[q] \ items'[q] => j \in sent[q] \ items[q]
        BY <1>3, <3>8
      <4>2. \A d \in decisions : d.key = j => d \in decisions'
        BY <1>7, <3>2, <3>8
      <4>3. \A d \in decisions' : d.key = j => d \in decisions
        BY <1>6, <1>7, <3>8
      <4> QED
        BY <3>1, <3>4, <3>6, <4>1, <4>2, <4>3
    <3> QED
      BY <3>7, <3>8
  <2> QED
    BY <2>1, <2>2, <2>3, <2>4
<1>13. RequestsHold'
  <2>1. ~overlapped => \A p \in working : p = q
    BY <1>1, NotesFacts DEF OneRequest
  <2> QED
    BY <1>1, <1>12, <2>1 DEF RequestsHold
<1> QED
  BY <1>8, <1>11, <1>13 DEF NotesInv, NotesShaped

LEMMA DeleteUnseenKeeps ==
  ASSUME NotesInv, NEW q \in Requests, DeleteUnseen(q)
  PROVE  NotesInv'
<1>1. /\ q \in working /\ items[q] = {} /\ lastId' = lastId
      /\ UNCHANGED <<occurred, working, items, sent, found, alone, overlapped>>
  BY DEF DeleteUnseen
<1>2. PICK id \in Unseen(q) : decisions' = {d \in decisions : d.id # id}
  BY DEF DeleteUnseen
<1>3. PICK k \in Keys \ sent[q] : id = found[q][k] /\ IsStored(id)
  BY <1>2 DEF Unseen
<1>4. /\ decisions \subseteq DecisionRow /\ lastId \in Nat /\ alone \in [Requests -> BOOLEAN]
      /\ lastId \in 0..MaxDecisionRows /\ MaxDecisionRows \in Nat /\ items \in [Requests -> SUBSET Keys]
      /\ \A d \in decisions : d.id \in 1..lastId
      /\ \A d, e \in decisions : d.id = e.id => d = e
  BY NotesFacts, NotesAssumption DEF NotesTyped, NotesTypeOK
<1>5. id # 0
  BY <1>3, <1>4 DEF IsStored
<1>6. NotesShaped'
  <2>1. /\ lastId' \in lastId .. MaxDecisionRows /\ decisions' \subseteq DecisionRow
        /\ alone' \in [Requests -> BOOLEAN] /\ \A d \in decisions' : d.id \in 1..lastId'
        /\ \A d, e \in decisions' : d.id = e.id => d = e
    BY <1>1, <1>2, <1>4
  <2>2. items' \in [Requests -> SUBSET Keys] /\ \A p \in Requests : items'[p] \subseteq items[p]
    BY <1>1, <1>4
  <2> QED
    BY <1>1, <2>1, <2>2, RowsOnly
<1>7. ListedOnce' /\ (~overlapped' => \A p \in working : FoundAll(p)')
  <2>1. NoNewKeys /\ \A d, e \in decisions' : d.id = e.id => d = e
    BY <1>2, <1>4 DEF NoNewKeys
  <2> QED
    BY <1>1, <2>1, FewerKeys
<1>8. ASSUME ~overlapped, alone[q] PROVE WorkedOff(q)'
  <2>1. WorkedOff(q)
    BY <1>1, <1>8, NotesFacts DEF RequestsHold
  <2>2. \A d \in decisions : d.id = id => d.key = k
    BY <1>3, <1>5, <2>1 DEF WorkedOff
  <2> SUFFICES ASSUME NEW j \in Keys
               PROVE  /\ found[q][j] # 0 => \A d \in decisions' : d.id = found[q][j] => d.key = j
                      /\ j \in sent[q] =>
                            (\E d \in decisions' : d.key = j) /\ \A d \in decisions' : d.key = j => ~d.edited
    BY <1>1 DEF WorkedOff
  <2>3. /\ found[q][j] # 0 => \A d \in decisions : d.id = found[q][j] => d.key = j
        /\ j \in sent[q] => (\E d \in decisions : d.key = j) /\ \A d \in decisions : d.key = j => ~d.edited
    BY <1>1, <2>1 DEF WorkedOff
  <2>4. j \in sent[q] => \A d \in decisions : d.key = j => d \in decisions'
    BY <1>2, <1>3, <2>2
  <2> QED
    BY <1>2, <2>3, <2>4
<1>9. RequestsHold'
  <2>1. ~overlapped => \A p \in working : p = q
    BY <1>1, NotesFacts DEF OneRequest
  <2> QED
    BY <1>1, <1>7, <1>8, <2>1 DEF RequestsHold
<1> QED
  BY <1>6, <1>7, <1>9 DEF NotesInv, NotesShaped

LEMMA HappenKeeps ==
  ASSUME NotesInv, Happen
  PROVE  NotesInv'
<1>1. /\ occurred' = occurred + 1 /\ occurred < MaxDecisions /\ decisions' = decisions /\ lastId' = lastId
      /\ working' = working /\ items' = items /\ sent' = sent /\ found' = found /\ alone' = alone
      /\ overlapped' = overlapped
  BY DEF Happen
<1>2. occurred \in 0..MaxDecisions /\ MaxDecisions \in Nat
  BY NotesFacts
<1>3. occurred' \in 0..MaxDecisions /\ 1..occurred \subseteq 1..occurred'
  BY <1>1, <1>2
<1>4. NotesTypeOK'
  <2>1. \A q \in Requests : items[q] \subseteq sent[q] /\ sent[q] \subseteq 1..occurred'
    BY <1>3, NotesFacts
  <2> QED
    BY <1>1, <1>3, <2>1, NotesFacts DEF NotesTypeOK
<1>5. NotesTyped' /\ OneRequest' /\ ListedOnce'
  BY <1>1, NotesFacts DEF NotesTyped, OneRequest, ListedOnce, Automatic
<1>6. \A q : FoundAll(q)' = FoundAll(q) /\ WorkedOff(q)' = WorkedOff(q)
  BY <1>1 DEF FoundAll, WorkedOff, IsStored
<1>7. RequestsHold'
  BY <1>1, <1>6, NotesFacts DEF RequestsHold
<1> QED
  BY <1>4, <1>5, <1>7 DEF NotesInv

LEMMA PostKeeps ==
  ASSUME NotesInv, NEW q \in Requests, NEW n \in 0..occurred, Post(q, n)
  PROVE  NotesInv'
<1>1. /\ q \notin working /\ working' = working \cup {q}
      /\ items' = [items EXCEPT ![q] = 1..n] /\ sent' = [sent EXCEPT ![q] = 1..n]
      /\ found' = [found EXCEPT ![q] = [k \in Keys |-> Newest(k)]]
      /\ alone' = [p \in Requests |-> p = q /\ working = {}]
      /\ overlapped' = (overlapped \/ working # {})
      /\ decisions' = decisions /\ lastId' = lastId /\ occurred' = occurred
  BY DEF Post
<1>2. /\ items \in [Requests -> SUBSET Keys] /\ sent \in [Requests -> SUBSET Keys]
      /\ found \in [Requests -> [Keys -> 0..lastId]] /\ occurred \in 0..MaxDecisions /\ MaxDecisions \in Nat
      /\ overlapped \in BOOLEAN
  BY NotesFacts DEF NotesTyped
<1>3. 1..n \subseteq 1..occurred /\ 1..n \subseteq Keys
  BY <1>2 DEF Keys
<1>4. \A k \in Keys : Newest(k) \in 0..lastId
  BY NewestIs
<1>5. [k \in Keys |-> Newest(k)] \in [Keys -> 0..lastId]
  BY <1>4
<1>6. /\ items'[q] = 1..n /\ sent'[q] = 1..n /\ \A k \in Keys : found'[q][k] = Newest(k)
      /\ \A p \in Requests \ {q} : items'[p] = items[p] /\ sent'[p] = sent[p]
  BY <1>1, <1>2
<1>7. NotesTypeOK'
  <2>1. found' \in [Requests -> [Keys -> 0..lastId]] /\ alone' \in [Requests -> BOOLEAN]
        /\ overlapped' \in BOOLEAN
    BY <1>1, <1>2, <1>5
  <2>2. \A p \in Requests : items'[p] \subseteq sent'[p] /\ sent'[p] \subseteq 1..occurred
    <3> SUFFICES ASSUME NEW p \in Requests PROVE items'[p] \subseteq sent'[p] /\ sent'[p] \subseteq 1..occurred
      OBVIOUS
    <3>1. CASE p = q
      BY <1>3, <1>6, <3>1
    <3>2. CASE p # q
      BY <1>6, <3>2, NotesFacts
    <3> QED
      BY <3>1, <3>2
  <2>3. working' \subseteq Requests
    BY <1>1, NotesFacts
  <2> QED
    BY <1>1, <2>1, <2>2, <2>3, NotesFacts DEF NotesTypeOK
<1>8. NotesTyped'
  BY <1>1, <1>2, <1>3, NotesFacts DEF NotesTyped
<1>9. OneRequest' /\ ListedOnce'
  BY <1>1, NotesFacts DEF OneRequest, ListedOnce, Automatic
<1>10. ASSUME ~overlapped' PROVE FoundAll(q)' /\ WorkedOff(q)'
  <2>1. ~overlapped
    BY <1>1, <1>10
  <2>2. \A k \in Keys : k # Manual
    BY DEF Keys, Manual
  <2>3. \A k \in Keys, d, e \in decisions : d.key = k /\ e.key = k => d = e
    BY <2>1, <2>2, NotesFacts DEF ListedOnce, Automatic
  <2>4. FoundAll(q)'
    <3> SUFFICES ASSUME NEW k \in Keys
                 PROVE  /\ found'[q][k] # 0 => \A d \in decisions' : d.key = k => d.id = found'[q][k]
                        /\ found'[q][k] = 0 => \A d \in decisions' : d.key # k
      BY DEF FoundAll
    <3>1. /\ Newest(k) = 0 => \A d \in decisions : d.key # k
          /\ Newest(k) # 0 => \E d \in decisions : d.key = k /\ d.id = Newest(k)
      BY NewestIs
    <3> QED
      BY <1>1, <1>6, <2>3, <3>1
  <2>5. WorkedOff(q)'
    <3> SUFFICES ASSUME NEW k \in Keys
                 PROVE  /\ found'[q][k] # 0 => \A d \in decisions' : d.id = found'[q][k] => d.key = k
                        /\ found'[q][k] # 0 => \E d \in decisions' : d.id = found'[q][k]
      BY <1>6 DEF WorkedOff, IsStored
    <3>1. Newest(k) # 0 => \E d \in decisions : d.key = k /\ d.id = Newest(k)
      BY NewestIs
    <3>2. \A d, e \in decisions : d.id = e.id => d = e
      BY NotesFacts
    <3>3. found'[q][k] # 0 => \A d \in decisions' : d.id = found'[q][k] => d.key = k
      BY <1>1, <1>6, <3>1, <3>2
    <3>4. found'[q][k] # 0 => \E d \in decisions' : d.id = found'[q][k]
      BY <1>1, <1>6, <3>1
    <3> QED
      BY <3>3, <3>4
  <2> QED
    BY <2>4, <2>5
<1>11. RequestsHold'
  <2>1. ~overlapped' => working' = {q}
    BY <1>1
  <2> QED
    BY <1>10, <2>1 DEF RequestsHold
<1> QED
  BY <1>7, <1>8, <1>9, <1>11 DEF NotesInv

LEMMA NotesEndedKeeps ==
  ASSUME NotesInv, NEW q \in Requests, NotesEnded(q)
  PROVE  NotesInv'
<1>1. /\ working' = working \ {q}
      /\ items' = [items EXCEPT ![q] = {}] /\ sent' = [sent EXCEPT ![q] = {}]
      /\ found' = [found EXCEPT ![q] = NoItem]
      /\ decisions' = decisions /\ lastId' = lastId /\ occurred' = occurred /\ alone' = alone
      /\ overlapped' = overlapped
  BY DEF NotesEnded
<1>2. /\ items \in [Requests -> SUBSET Keys] /\ sent \in [Requests -> SUBSET Keys] /\ lastId \in Nat
      /\ found \in [Requests -> [Keys -> 0..lastId]]
  BY NotesFacts DEF NotesTyped
<1>3. NoItem \in [Keys -> 0..lastId]
  BY <1>2 DEF NoItem
<1>4. /\ items'[q] = {} /\ sent'[q] = {}
      /\ \A p \in Requests \ {q} : items'[p] = items[p] /\ sent'[p] = sent[p] /\ found'[p] = found[p]
  BY <1>1, <1>2
<1>5. NotesTypeOK'
  <2>1. found' \in [Requests -> [Keys -> 0..lastId]]
    BY <1>1, <1>2, <1>3
  <2>2. \A p \in Requests : items'[p] \subseteq sent'[p] /\ sent'[p] \subseteq 1..occurred
    BY <1>4, NotesFacts
  <2> QED
    BY <1>1, <2>1, <2>2, NotesFacts DEF NotesTypeOK
<1>6. NotesTyped'
  BY <1>1, <1>2, NotesFacts DEF NotesTyped
<1>7. OneRequest' /\ ListedOnce'
  BY <1>1, NotesFacts DEF OneRequest, ListedOnce, Automatic
<1>8. ASSUME ~overlapped', NEW p \in working' PROVE FoundAll(p)' /\ (alone'[p] => WorkedOff(p)')
  <2>1. p \in Requests \ {q} /\ FoundAll(p) /\ (alone[p] => WorkedOff(p))
    BY <1>1, <1>8, NotesFacts DEF RequestsHold
  <2>2. items'[p] = items[p] /\ sent'[p] = sent[p] /\ found'[p] = found[p]
    BY <1>4, <2>1
  <2>3. FoundAll(p)'
    BY <1>1, <2>1, <2>2 DEF FoundAll
  <2>4. WorkedOff(p) => WorkedOff(p)'
    BY <1>1, <2>2 DEF WorkedOff, IsStored
  <2> QED
    BY <1>1, <2>1, <2>3, <2>4
<1>9. RequestsHold'
  BY <1>8 DEF RequestsHold
<1> QED
  BY <1>5, <1>6, <1>7, <1>9 DEF NotesInv

LEMMA NotesStart == NotesInit => NotesInv
<1> SUFFICES ASSUME NotesInit PROVE NotesInv
  OBVIOUS
<1>1. MaxDecisions \in Nat /\ MaxDecisionRows \in Nat
  BY NotesAssumption
<1>2. NoItem \in [Keys -> 0..0]
  BY DEF NoItem
<1>3. NotesTypeOK
  <2>1. found \in [Requests -> [Keys -> 0..lastId]] /\ lastId \in 0..MaxDecisionRows /\ occurred \in 0..MaxDecisions
    BY <1>1, <1>2 DEF NotesInit
  <2>2. alone \in [Requests -> BOOLEAN] /\ overlapped \in BOOLEAN /\ working = {} /\ decisions = {}
    BY DEF NotesInit
  <2>3. \A q \in Requests : items[q] \subseteq sent[q] /\ sent[q] \subseteq 1..occurred
    BY DEF NotesInit
  <2> QED
    BY <2>1, <2>2, <2>3 DEF NotesTypeOK
<1> QED
  BY <1>3 DEF NotesInit, NotesInv, NotesTyped, OneRequest, ListedOnce, Automatic, RequestsHold

\* Nothing of an operator's own goes, but by an operator.
OwnStay == ~Operator => Untouched \subseteq decisions'

\* Who is answered undisturbed leaves his list.
ListLeft ==
  \A q \in Requests : Answered(q) /\ alone[q] /\ ~overlapped =>
     Automatic = {d \in Automatic : d.key \in sent[q] /\ ~d.edited} /\ {d.key : d \in Automatic} = sent[q]

LEMMA OwnStays == NotesInv /\ [NotesNext]_noteVars => OwnStay
<1> SUFFICES ASSUME NotesInv, NotesNext, ~Operator, NEW e \in Untouched PROVE e \in decisions'
  BY DEF OwnStay, Untouched, noteVars
<1>1. e \in decisions /\ \A q \in working, k \in Keys : found[q][k] # e.id
  BY DEF Untouched
<1>2. CASE Happen
  BY <1>1, <1>2 DEF Happen
<1>3. ASSUME NEW q \in Requests, \E n \in 0..occurred : Post(q, n) PROVE e \in decisions'
  BY <1>1, <1>3 DEF Post
<1>4. ASSUME NEW q \in Requests, CreateItem(q) PROVE e \in decisions'
  BY <1>1, <1>4 DEF CreateItem
<1>5. ASSUME NEW q \in Requests, UpdateItem(q) PROVE e \in decisions'
  <2>1. /\ q \in working /\ items[q] # {} /\ found[q][First(q)] # 0
        /\ decisions' = UpdateNote(found[q][First(q)], First(q))
    BY <1>5 DEF UpdateItem
  <2>2. First(q) \in Keys
    BY <2>1, FirstIs
  <2>3. found[q][First(q)] \in Nat \ {0}
    <3>1. found[q][First(q)] \in 0..lastId /\ lastId \in Nat
      BY <2>2, NotesFacts
    <3> QED
      BY <2>1, <3>1
  <2> QED
    BY <1>1, <2>1, <2>2, <2>3, NoteUpdated
<1>6. ASSUME NEW q \in Requests, DeleteUnseen(q) PROVE e \in decisions'
  BY <1>1, <1>6 DEF DeleteUnseen, Unseen
<1>7. ASSUME NEW q \in Requests, Answered(q) \/ Fails(q) PROVE e \in decisions'
  BY <1>1, <1>7 DEF Answered, Fails, NotesEnded
<1> QED
  BY <1>2, <1>3, <1>4, <1>5, <1>6, <1>7 DEF NotesNext

LEMMA ListIsLeft == NotesInv => ListLeft
<1> SUFFICES ASSUME NotesInv, NEW q \in Requests, Answered(q), alone[q], ~overlapped
             PROVE  /\ Automatic = {d \in Automatic : d.key \in sent[q] /\ ~d.edited}
                    /\ {d.key : d \in Automatic} = sent[q]
  BY DEF ListLeft
<1>1. q \in working /\ items[q] = {} /\ Unseen(q) = {}
  BY DEF Answered
<1>2. FoundAll(q) /\ WorkedOff(q)
  BY <1>1, NotesFacts DEF RequestsHold
<1>3. sent[q] \subseteq Keys /\ \A k \in Keys : k # Manual
  BY NotesFacts DEF Keys, Manual
<1>4. \A d \in decisions : d.key \in Keys \cup {Manual} /\ d.id # 0
  BY NotesFacts
<1>5. ASSUME NEW d \in Automatic PROVE d.key \in sent[q] /\ ~d.edited
  <2>1. d \in decisions /\ d.key \in Keys
    BY <1>4 DEF Automatic
  <2>2. d.key \in sent[q]
    <3> SUFFICES ASSUME d.key \notin sent[q] PROVE FALSE
      OBVIOUS
    <3>1. found[q][d.key] # 0
      BY <1>2, <2>1 DEF FoundAll
    <3>2. d.id = found[q][d.key]
      BY <1>2, <2>1, <3>1 DEF FoundAll
    <3>3. d.id \in Unseen(q)
      BY <2>1, <3>2 DEF Unseen, IsStored
    <3> QED
      BY <1>1, <3>3
  <2> QED
    BY <1>1, <1>2, <2>1, <2>2 DEF WorkedOff
<1>6. ASSUME NEW k \in sent[q] PROVE \E d \in Automatic : d.key = k
  <2>1. k \in Keys /\ k \in sent[q] \ items[q]
    BY <1>1, <1>3
  <2>2. \E d \in decisions : d.key = k
    BY <1>2, <2>1 DEF WorkedOff
  <2> QED
    BY <1>3, <2>1, <2>2 DEF Automatic
<1> QED
  BY <1>5, <1>6

LEMMA NotesStep == NotesInv /\ [NotesNext]_noteVars => NotesInv'
<1> SUFFICES ASSUME NotesInv, [NotesNext]_noteVars PROVE NotesInv'
  OBVIOUS
<1>1. CASE UNCHANGED noteVars
  <2>1. /\ occurred' = occurred /\ decisions' = decisions /\ lastId' = lastId /\ working' = working
        /\ items' = items /\ sent' = sent /\ found' = found /\ alone' = alone /\ overlapped' = overlapped
    BY <1>1 DEF noteVars
  <2>2. \A q : FoundAll(q)' = FoundAll(q) /\ WorkedOff(q)' = WorkedOff(q)
    BY <2>1 DEF FoundAll, WorkedOff, IsStored
  <2>3. NotesTypeOK' /\ NotesTyped' /\ OneRequest' /\ ListedOnce'
    BY <2>1, NotesFacts DEF NotesTypeOK, NotesTyped, OneRequest, ListedOnce, Automatic
  <2>4. RequestsHold'
    BY <2>1, <2>2, NotesFacts DEF RequestsHold
  <2> QED
    BY <2>3, <2>4 DEF NotesInv
<1>2. CASE Happen \/ Operator
  BY <1>2, HappenKeeps, OperatorKeeps
<1>3. ASSUME NEW q \in Requests, \E n \in 0..occurred : Post(q, n) PROVE NotesInv'
  BY <1>3, PostKeeps
<1>4. ASSUME NEW q \in Requests, CreateItem(q) \/ UpdateItem(q) \/ DeleteUnseen(q) PROVE NotesInv'
  BY <1>4, CreateItemKeeps, UpdateItemKeeps, DeleteUnseenKeeps
<1>5. ASSUME NEW q \in Requests, Answered(q) \/ Fails(q) PROVE NotesInv'
  BY <1>5, NotesEndedKeeps DEF Answered, Fails
<1> QED
  BY <1>1, <1>2, <1>3, <1>4, <1>5 DEF NotesNext

(* Whatever lists are worked off, by however many tabs at a time, and      *)
(* whatever operators do meanwhile: what is an operator's own stays, no    *)
(* event is listed twice unless two requests overlapped, and a request     *)
(* that nobody disturbed leaves exactly its list                           *)
(* (ui_repository.py _sync_auto_decisions).                                *)
THEOREM NotesAreTrue == NotesSpec => NotesTrue
<1>1. NotesSpec => []NotesInv
  BY NotesStart, NotesStep, PTL DEF NotesSpec
<1>2. NotesInv => NotesTypeOK /\ ListedOnce
  BY DEF NotesInv
<1>3. NotesSpec => [](NotesTypeOK /\ ListedOnce)
  BY <1>1, <1>2, PTL
<1>4. NotesSpec => ManualKept
  <2>1. NotesInv /\ [NotesNext]_noteVars => [~Operator => Untouched \subseteq decisions']_noteVars
    BY OwnStays DEF OwnStay
  <2> QED
    BY <1>1, <2>1, PTL DEF NotesSpec, ManualKept
<1>5. NotesSpec => SyncExact
  <2>1. NotesInv /\ [NotesNext]_noteVars =>
          [\A q \in Requests : Answered(q) /\ alone[q] /\ ~overlapped =>
              Automatic = {d \in Automatic : d.key \in sent[q] /\ ~d.edited}
              /\ {d.key : d \in Automatic} = sent[q]]_noteVars
    BY ListIsLeft DEF ListLeft
  <2> QED
    BY <1>1, <2>1, PTL DEF NotesSpec, SyncExact
<1> QED
  BY <1>3, <1>4, <1>5 DEF NotesTrue
=============================================================================
