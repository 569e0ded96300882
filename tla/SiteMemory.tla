----------------------------- MODULE SiteMemory -----------------------------
(***************************************************************************)
(* The long-term memory of one site: one row of site_hints per page type,  *)
(* read by every agent run when it starts and written by every run that    *)
(* ends well.  Runs of several sites' pages end together in one process,   *)
(* each in a transaction of its own (repositories.py upsert_hint); rows    *)
(* are pruned only when the server starts (app.py lifespan).               *)
(*                                                                         *)
(* A run's entry (long_term.py build_site_memory_entry) is abstracted to   *)
(* the run it describes and to whether it used tools.  A success rate is   *)
(* the sequence of the runs it blends, oldest first.  Another site has     *)
(* other rows and no influence on these.                                   *)
(***************************************************************************)
EXTENDS Naturals, Sequences, FiniteSets

CONSTANTS
  MemoryRuns, \* agent runs on pages of the site
  PageTypes,  \* the page types of the agents, "landing_page" among them
  None,       \* no row, no run
  TTL,        \* days a hint lives (entry_ttl_days)
  Attempts,   \* tries of one upsert: one, and its retry
  MaxDay      \* BOUND: the last day

Row == [by: MemoryRuns, steps: MemoryRuns \cup {None}, rate: Seq(MemoryRuns), until: Nat]

ASSUME MemoryAssumption ==
  /\ None \notin MemoryRuns /\ None \notin Row
  /\ TTL \in Nat /\ Attempts \in Nat \ {0, 1} /\ MaxDay \in Nat

VARIABLES
  hint,        \* hint[k]: the row of page type k, or None
  phase,       \* phase[r]: where run r is
  page,        \* page[r]: its page type
  tooled,      \* tooled[r]: it called tools, so its entry has steps
  shown,       \* shown[r]: the rows in its first prompt
  read,        \* read[r]: the row its transaction found, or None
  tries,       \* tries[r]: upsert attempts begun
  memoryOverlapped, \* runs whose write another write of the row overlapped (ghost)
  pruned,      \* runs whose observation went with its row (ghost)
  day,         \* the current day
  started      \* the day the server started

memoryVars == <<hint, phase, page, tooled, shown, read, tries, memoryOverlapped, pruned, day, started>>

Phases == {"new", "running", "upserting", "found", "written", "skipped", "refused", "lost", "killed"}

MemoryInit ==
  /\ hint = [k \in PageTypes |-> None]
  /\ phase = [r \in MemoryRuns |-> "new"]
  /\ page \in [MemoryRuns -> PageTypes]
  /\ tooled \in [MemoryRuns -> BOOLEAN]
  /\ shown = [r \in MemoryRuns |-> {}]
  /\ read = [r \in MemoryRuns |-> None]
  /\ tries = [r \in MemoryRuns |-> 0]
  /\ memoryOverlapped = {} /\ pruned = {}
  /\ day = 0 /\ started = 0

HintsOf(kinds) == {hint[k] : k \in {k \in kinds : hint[k] # None}}

(* Hints of a page type, or those of the whole site when it has none.      *)
Context(k) ==
  LET own == HintsOf({k} \cap PageTypes)
  IN  IF own # {} THEN own ELSE HintsOf(PageTypes)

(* The pools ask for the handoff's hint under the name of the worker role, *)
(* which is no page type: a handoff always holds the whole site's hints.   *)
Role(k) == CASE k = "hosting_page" -> "hosting" [] k = "embedded_page" -> "embedded" [] OTHER -> k

(* A run starts with the hints as they are, expired or not.                *)
StartRun(r) ==
  /\ phase[r] = "new"
  /\ phase' = [phase EXCEPT ![r] = "running"]
  /\ shown' = [shown EXCEPT ![r] = Context(Role(page[r])) \cup Context(page[r])]
  /\ UNCHANGED <<hint, page, tooled, read, tries, memoryOverlapped, pruned, day, started>>

(* Which ends are remembered: good ones, and failures of a landing page    *)
(* that still found something to reuse.                                    *)
HintAfter(r, status, signals) ==
  \/ status \in {"success", "partial"}
  \/ status \in {"failed", "timeout"} /\ signals /\ page[r] = "landing_page"

EndRun(r) ==
  /\ phase[r] = "running"
  /\ \E status \in {"success", "partial", "failed", "timeout", "cancelled"}, signals \in BOOLEAN :
       phase' = [phase EXCEPT ![r] = IF HintAfter(r, status, signals) THEN "upserting" ELSE "skipped"]
  /\ UNCHANGED <<hint, page, tooled, shown, read, tries, memoryOverlapped, pruned, day, started>>

Writing(k) == {r \in MemoryRuns : phase[r] = "found" /\ page[r] = k}

(* One attempt begins: the transaction looks for the row.                  *)
Find(r) ==
  /\ phase[r] = "upserting"
  /\ phase' = [phase EXCEPT ![r] = "found"]
  /\ read' = [read EXCEPT ![r] = hint[page[r]]]
  /\ tries' = [tries EXCEPT ![r] = @ + 1]
  /\ memoryOverlapped' = memoryOverlapped \cup (IF Writing(page[r]) = {} THEN {} ELSE Writing(page[r]) \cup {r})
  /\ UNCHANGED <<hint, page, tooled, shown, pruned, day, started>>

(* What an update keeps of the row: an empty list of steps overwrites      *)
(* nothing, and the new observation joins the rate that was read.          *)
StepsOf(r) == IF tooled[r] THEN r ELSE None
Keep(new, old) == IF new = None THEN old ELSE new
BlendFirst(old, r) == <<r>>                 \* mutant of Blend: overwrites the rate
Blend(old, r) == Append(old, r)

(* write_site_hint: what the end of run r has to say.                       *)
Observation(r) == [by |-> r, steps |-> StepsOf(r), rate |-> <<r>>, until |-> day + TTL]

Insert(r) ==
  /\ phase[r] = "found" /\ read[r] = None /\ hint[page[r]] = None
  /\ hint' = [hint EXCEPT ![page[r]] = Observation(r)]
  /\ phase' = [phase EXCEPT ![r] = "written"]
  /\ UNCHANGED <<page, tooled, shown, read, tries, memoryOverlapped, pruned, day, started>>

(* The unique constraint refuses a second row: the attempt rolls back, and *)
(* the next one finds the row, if one is left.                             *)
AfterClash(n) == IF n < Attempts THEN "upserting" ELSE "refused"

InsertClashes(r) ==
  /\ phase[r] = "found" /\ read[r] = None /\ hint[page[r]] # None
  /\ phase' = [phase EXCEPT ![r] = AfterClash(tries[r])]
  /\ UNCHANGED <<hint, page, tooled, shown, read, tries, memoryOverlapped, pruned, day, started>>

(* Only the columns the run assigned are written; the rate is computed     *)
(* from the row as it was read.                                            *)
Update(r) ==
  /\ phase[r] = "found" /\ read[r] # None
  /\ hint' = [hint EXCEPT ![page[r]] =
                [Observation(r) EXCEPT !.steps = Keep(@, hint[page[r]].steps),
                                       !.rate = Blend(read[r].rate, r)]]
  /\ phase' = [phase EXCEPT ![r] = "written"]
  /\ UNCHANGED <<page, tooled, shown, read, tries, memoryOverlapped, pruned, day, started>>

(* Any other error of the database: the transaction rolls back, and the end *)
(* of the run goes on without the hint (remember logs the error).           *)
WriteFails(r) ==
  /\ phase[r] = "found"
  /\ phase' = [phase EXCEPT ![r] = "lost"]
  /\ UNCHANGED <<hint, page, tooled, shown, read, tries, memoryOverlapped, pruned, day, started>>

NewDay ==
  /\ day < MaxDay
  /\ day' = day + 1
  /\ UNCHANGED <<hint, phase, page, tooled, shown, read, tries, memoryOverlapped, pruned, started>>

Expired(row) == row.until < day

Doomed == {k \in PageTypes : hint[k] # None /\ Expired(hint[k])}

(* The process stops with whatever its runs are doing and starts again,    *)
(* which prunes the expired rows before it serves anything.                *)
MemoryRestart ==
  /\ started' = day
  /\ hint' = [k \in PageTypes |-> IF k \in Doomed THEN None ELSE hint[k]]
  /\ pruned' = pruned \cup {r \in MemoryRuns : phase[r] = "written" /\ page[r] \in Doomed}
  /\ phase' = [r \in MemoryRuns |-> IF phase[r] \in {"running", "upserting", "found"} THEN "killed" ELSE phase[r]]
  /\ UNCHANGED <<page, tooled, shown, read, tries, memoryOverlapped, day>>

MemoryRun(r) ==
  \/ StartRun(r)
  \/ EndRun(r)
  \/ Find(r)
  \/ Insert(r)
  \/ InsertClashes(r)
  \/ Update(r)
  \/ WriteFails(r)

MemoryNext == NewDay \/ MemoryRestart \/ \E r \in MemoryRuns : MemoryRun(r)

MemorySpec == MemoryInit /\ [][MemoryNext]_memoryVars

-----------------------------------------------------------------------------
InRate(k) == IF hint[k] = None THEN {} ELSE {hint[k].rate[i] : i \in 1..Len(hint[k].rate)}

(* Types: a row blends each run at most once.  A second blend of one run   *)
(* by the retry of its upsert would weigh it twice in the success rate     *)
(* agents are shown (repositories.py:2704-2773).                           *)
MemoryTypeOK ==
  /\ \A k \in PageTypes : hint[k] # None =>
       /\ hint[k] \in Row
       /\ Len(hint[k].rate) = Cardinality(InRate(k))
       /\ \A r \in InRate(k) : phase[r] = "written" /\ page[r] = k
  /\ phase \in [MemoryRuns -> Phases]
  /\ tries \in [MemoryRuns -> 0..Attempts]

(* A run that lost the race for the first row of its page type is not      *)
(* refused by the second attempt: "the upsert retries once as an update    *)
(* instead of crashing" (repositories.py:2722-2724).                       *)
NeverRefused == \A r \in MemoryRuns : phase[r] # "refused"

(* Every run that wrote while no other did is in the rate for as long as   *)
(* the row lives, whatever writes before and after it overlap.             *)
ObservationKept ==
  \A r \in MemoryRuns : phase[r] = "written" /\ r \notin memoryOverlapped =>
    r \in InRate(page[r]) \cup pruned

(* No agent is shown a hint that had expired when the server started; one  *)
(* that expires while it is up is still shown, as nothing else prunes      *)
(* (retention.py:80-97, repositories.py:2793-2808).                        *)
ShownAlive ==
  \A r \in MemoryRuns : phase[r] \in {"running", "upserting", "found"} =>
    \A row \in shown[r] : row.until >= started

(* Hints survive concurrent writers, and expired ones are not shown.        *)
MemoryTrue == MemoryTypeOK /\ NeverRefused /\ ObservationKept /\ ShownAlive
=============================================================================
