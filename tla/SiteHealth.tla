----------------------------- MODULE SiteHealth -----------------------------
(***************************************************************************)
(* A health check of sites: every site is probed with up to two URLs, the  *)
(* next one only if the one before did not work, and a bounded number of   *)
(* sites at a time.  What is reported decides which sites the operator is  *)
(* offered for deletion.                                                   *)
(***************************************************************************)
EXTENDS Naturals, FiniteSets, Sequences

CONSTANTS
    Candidates,      \* sites of one check
    Slots            \* _SITE_HEALTH_CONCURRENCY

ASSUME HealthAssumption == Slots \in Nat \ {0}

\* What an attempt may come to: a page; an answer that says the site is there
\* but guarded (401, 403, 407, 429, an anti-bot page); any other answer (an error
\* status, a parked, seized or empty page, a file); no answer in time or at all.
Answers  == {"page", "guarded", "useless"}
Silences == {"timeout", "unreachable"}

Working == {"page", "guarded"}

VARIABLES
    urlsLeft,    \* of each candidate: the URLs still to be tried
    probing,     \* candidates that hold a slot
    tried,       \* the outcomes so far
    best,        \* best_result, "" before there is one
    reported,    \* candidates whose result is there
    collapsed    \* the whole request failed

healthVars == <<urlsLeft, probing, tried, best, reported, collapsed>>

\* _health_probe_urls: none for what is no web address, two for https and for an
\* address without a scheme.
HealthInit ==
    /\ urlsLeft \in [Candidates -> 0..2]
    /\ probing = {} /\ reported = {} /\ collapsed = FALSE
    /\ tried = [c \in Candidates |-> <<>>] /\ best = [c \in Candidates |-> ""]

FreeSlot == Cardinality(probing) < Slots

Enter(c) ==
    /\ ~collapsed /\ c \notin probing \cup reported
    /\ FreeSlot
    /\ IF urlsLeft[c] = 0
       THEN /\ best' = [best EXCEPT ![c] = "unreachable"]
            /\ reported' = reported \cup {c} /\ UNCHANGED probing
       ELSE probing' = probing \cup {c} /\ UNCHANGED <<best, reported>>
    /\ UNCHANGED <<urlsLeft, tried, collapsed>>

KeepFirst(old, new) == IF old = "" THEN new ELSE old   \* mutant of Better
\* The first result is replaced only by one that has an HTTP status, and only
\* while there is none yet that has one.
Better(old, new) ==
    IF old = "" \/ (old \notin Answers /\ new \in Answers) THEN new ELSE old

Attempt(c, outcome) ==
    /\ c \in probing /\ ~collapsed
    /\ tried' = [tried EXCEPT ![c] = Append(@, outcome)]
    /\ urlsLeft' = [urlsLeft EXCEPT ![c] = @ - 1]
    /\ best' = [best EXCEPT ![c] = IF outcome \in Working THEN outcome ELSE Better(@, outcome)]
    /\ IF outcome \in Working \/ urlsLeft[c] = 1
       THEN probing' = probing \ {c} /\ reported' = reported \cup {c}
       ELSE UNCHANGED <<probing, reported>>
    /\ UNCHANGED collapsed

\* An error that is no httpx.HTTPError (an invalid URL) is not caught in the probe;
\* gather hands the error on: no site of the check gets a result.
Collapse(c) ==
    /\ c \in probing /\ ~collapsed
    /\ collapsed' = TRUE
    /\ UNCHANGED <<urlsLeft, probing, tried, best, reported>>

HealthStep == \E c \in Candidates : Enter(c) \/ \E o \in Answers \cup Silences : Attempt(c, o)

HealthNext == HealthStep \/ \E c \in Candidates : Collapse(c)

\* An attempt ends: its client has a time-out.
HealthSpec == HealthInit /\ [][HealthNext]_healthVars /\ WF_healthVars(HealthStep)

-----------------------------------------------------------------------------
HealthTypeOK ==
    /\ urlsLeft \in [Candidates -> 0..2] /\ probing \subseteq Candidates
    /\ reported \subseteq Candidates /\ probing \cap reported = {}
    /\ best \in [Candidates -> Answers \cup Silences \cup {""}]
    /\ \A c \in Candidates : Len(tried[c]) <= 2 /\ (c \in reported => best[c] # "")

Outcomes(c) == {tried[c][i] : i \in DOMAIN tried[c]}

\* delete_candidate: a site is offered for deletion only if no attempt reached a
\* page or a guard, and then with an HTTP status if any attempt was answered.
OfferedRightly ==
    \A c \in reported :
        /\ best[c] \in Working <=> Outcomes(c) \cap {"page", "guarded"} # {}
        /\ Outcomes(c) \cap Answers # {} => best[c] \in Answers

\* Every check ends, with a result for every site unless it fails as a whole.
CheckEnds == <>(collapsed \/ reported = Candidates)

\* What a check reports of a site is the best of its attempts.
HealthSafe == HealthTypeOK /\ OfferedRightly
=============================================================================
