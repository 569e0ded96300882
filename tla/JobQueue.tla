------------------------------ MODULE JobQueue ------------------------------
(***************************************************************************)
(* The durable background-job queue: the rows of background_jobs and of a   *)
(* dataset batch (storage/repositories.py, storage/dataset_repository.py),  *)
(* the API process that claims and executes jobs (api/app.py), the three    *)
(* cancel endpoints, and the crash, shutdown and restart of that process.   *)
(*                                                                          *)
(* The rows survive a crash, everything else does not.  All coroutines of   *)
(* the process share one loop and every database call is synchronous, so a  *)
(* step is what one coroutine does between two awaits; a crash may also     *)
(* fall between the commits of one step.                                    *)
(***************************************************************************)
EXTENDS Naturals, FiniteSets

CONSTANTS
  Run,            \* the runs of one dataset batch
  None,           \* no run
  MaxAttempts,    \* max_attempts of a job
  Limit,          \* settings.background_job_concurrency
  Verdict,        \* final_status values a finished pipeline may report
  MaxCrashes,     \* bound on the number of crashes and shutdowns
  EarlyRestart,   \* may the process restart before the leases expire?
  CancelEarly     \* may a batch be cancelled while it is being created?

ASSUME JobQueueAssumption ==
  /\ IsFiniteSet(Run) /\ Run # {} /\ None \notin Run
  /\ MaxAttempts \in Nat \ {0} /\ Limit \in Nat \ {0} /\ MaxCrashes \in Nat
  /\ Verdict \subseteq {"success", "failed", "no_target"} /\ Verdict # {}
  /\ EarlyRestart \in BOOLEAN /\ CancelEarly \in BOOLEAN

VARIABLES
  job,        \* background_jobs.status, or "absent"
  attempts,   \* background_jobs.attempts
  site,       \* dataset_site_runs.status, or "absent"
  final,      \* dataset_site_runs.final_status, "" until set
  batch,      \* dataset_batches.status, or "absent"
  up,         \* "up", "stopping" (lifespan shutdown) or "down"
  crashes,    \* how often the process went down
  creating,   \* the runs whose jobs the create_batch handler still enqueues
  exec,       \* the task that executes a claimed job
  outcome,    \* what the workflow of that task returned
  flag,       \* cancel_requested of the run's live trace
  single,     \* runs whose POST .../cancel waits for the task to end
  at,         \* the run a bulk or batch cancel is tearing down, or None
  sweep       \* the runs it has still to tear down

rowVars  == <<job, attempts, site, final, batch>>
taskVars == <<exec, outcome, flag>>
callVars == <<creating, single, at, sweep>>
procVars == <<up, crashes>>
vars == <<rowVars, taskVars, callVars, procVars>>

JobActive   == {"queued", "running", "retrying"}
JobTerminal == {"succeeded", "dead_letter", "cancelled"}
JobStatus   == JobActive \cup JobTerminal \cup {"absent"}

(* TERMINAL_SITE_RUN_STATUSES with its members merged: "success" stands for *)
(* success and partial, "failed" for every failure status.                  *)
SiteTerminal == {"success", "failed", "cancelled"}
SiteStatus   == SiteTerminal \cup Verdict \cup {"absent", "queued", "running"}
BatchStatus  == {"absent", "queued", "running", "cancelled", "success", "partial", "failed"}
Outcome      == Verdict \cup {"error", "cancelled", ""}

(* No task; created but not begun; awaiting the workflow; CancelledError    *)
(* delivered to the workflow; the workflow returned, the rows not written.  *)
TaskState == {"none", "created", "running", "unwinding", "returned"}

Init ==
  /\ job = [r \in Run |-> "absent"] /\ attempts = [r \in Run |-> 0]
  /\ site = [r \in Run |-> "absent"] /\ final = [r \in Run |-> ""]
  /\ batch = "absent"
  /\ up = "up" /\ crashes = 0
  /\ creating = {}
  /\ exec = [r \in Run |-> "none"] /\ outcome = [r \in Run |-> ""]
  /\ flag = [r \in Run |-> FALSE]
  /\ single = {} /\ at = None /\ sweep = {}

-----------------------------------------------------------------------------
(* The rows of the batch.                                                   *)

(* final_status if set, else status.                                        *)
Current(s, f) == IF f # "" THEN f ELSE s

(* _refresh_batch_metrics, over statuses s and final statuses f.            *)
Refreshed(s, f) ==
  LET value(r)  == Current(s[r], f[r])
      completed == {r \in Run : value(r) \in SiteTerminal}
  IN  CASE \E r \in Run : s[r] = "running" -> "running"
        [] (\A r \in Run : s[r] # "running") /\ (\E r \in Run : s[r] = "queued") -> "queued"
        [] OTHER ->
             IF completed # Run THEN "running"
             ELSE IF \A r \in Run : value(r) = "cancelled" THEN "cancelled"
             ELSE IF \A r \in Run : value(r) = "success" THEN "success"
             ELSE IF \E r \in Run : value(r) = "success" THEN "partial"
             ELSE "failed"

(* mark_site_run_running.                                                   *)
SiteRunning(r) ==
  /\ site' = [site EXCEPT ![r] = "running"]
  /\ batch' = "running"
  /\ UNCHANGED final

(* Mutant: the batch is not refreshed.                                      *)
SitesBecomeQuietly(rs, s) ==
  /\ site' = [r \in Run |-> IF r \in rs THEN s ELSE site[r]]
  /\ final' = [r \in Run |-> IF r \in rs THEN s ELSE final[r]]
  /\ UNCHANGED batch

(* finalize_site_run, mark_site_run_cancelled and the loop of cancel_batch: *)
(* both status fields of the rows rs, whatever they were, then the batch.   *)
SitesBecome(rs, s) ==
  /\ site' = [r \in Run |-> IF r \in rs THEN s ELSE site[r]]
  /\ final' = [r \in Run |-> IF r \in rs THEN s ELSE final[r]]
  /\ batch' = Refreshed(site', final')

(* Mutant: mark_succeeded overwrites a cancelled job.                       *)
SucceededAnyway(s) == "succeeded"

(* The job row after mark_cancelled, mark_succeeded and mark_failed.        *)
Cancelled(s) == IF s \in JobActive THEN "cancelled" ELSE s
Succeeded(s) == IF s = "cancelled" THEN s ELSE "succeeded"

(* Mutant: the attempt just made is not counted.                            *)
ExhaustedLate(n) == n > MaxAttempts
Exhausted(n) == n >= MaxAttempts

(* Mutant: mark_failed does not tell a retry from a dead letter.            *)
FailedForGood(s, n) == IF s = "cancelled" THEN s ELSE "failed"
Failed(s, n) == IF s = "cancelled" THEN s
                ELSE IF Exhausted(n) THEN "dead_letter" ELSE "retrying"

-----------------------------------------------------------------------------
(* POST /api/datasets/batches: a handler on a worker thread.  One commit    *)
(* for the batch and its rows, then one commit per job.                     *)
CreateBatch ==
  /\ up = "up" /\ batch = "absent"
  /\ site' = [r \in Run |-> "queued"]
  /\ batch' = "queued"
  /\ creating' = Run
  /\ UNCHANGED <<job, attempts, final, taskVars, single, at, sweep, procVars>>

Enqueue(r) ==
  /\ r \in creating
  /\ job' = [job EXCEPT ![r] = "queued"]
  /\ creating' = creating \ {r}
  /\ UNCHANGED <<attempts, site, final, batch, taskVars, single, at, sweep, procVars>>

-----------------------------------------------------------------------------
(* The worker loop.                                                         *)

(* Mutant: a running row may be claimed once more.                          *)
ClaimableRunning(s) == s \in {"queued", "retrying", "running"}
Claimable(s) == s \in {"queued", "retrying"}

(* claim_next: one UPDATE ... RETURNING on a row that is queued or retrying.*)
(* Any such row: the order of created_at is left out.                       *)
ClaimRow(r) ==
  /\ up = "up"
  /\ Claimable(job[r])
  /\ Cardinality({q \in Run : exec[q] # "none"}) < Limit
  /\ job' = [job EXCEPT ![r] = "running"]
  /\ attempts' = [attempts EXCEPT ![r] = @ + 1]

Claim(r) ==
  /\ ClaimRow(r)
  /\ SiteRunning(r)
  /\ exec' = [exec EXCEPT ![r] = "created"]
  /\ UNCHANGED <<outcome, flag, callVars, procVars>>

(* _execute_background_job reaches its first await: the trace is created,   *)
(* with the cancel flag down, and the workflow task replaces the outer one  *)
(* in _active_run_tasks.                                                    *)
Start(r) ==
  /\ exec[r] = "created"
  /\ exec' = [exec EXCEPT ![r] = "running"]
  /\ flag' = [flag EXCEPT ![r] = FALSE]
  /\ UNCHANGED <<rowVars, outcome, callVars, procVars>>

(* _background_workflow returns: a result; an error; or, with the flag up   *)
(* or CancelledError delivered, a cancellation.  From here on the trace is  *)
(* completed and takes no flag; closing the persistence loop is merged in.  *)
Finish(r, o) ==
  /\ exec[r] \in {"running", "unwinding"}
  /\ IF exec[r] = "unwinding" THEN o = "cancelled"
     ELSE IF flag[r] THEN o \in {"cancelled", "error"}
     ELSE o \in Verdict \cup {"error"}
  /\ exec' = [exec EXCEPT ![r] = "returned"]
  /\ outcome' = [outcome EXCEPT ![r] = o]
  /\ UNCHANGED <<rowVars, flag, callVars, procVars>>

(* The rest of _execute_background_job: first the job row...                *)
JobAfter(r) ==
  IF outcome[r] = "cancelled" \/ flag[r] THEN Cancelled(job[r])
  ELSE IF outcome[r] = "error" THEN Failed(job[r], attempts[r])
  ELSE Succeeded(job[r])

(* ...then the site row.                                                    *)
SiteAfter(r) ==
  IF outcome[r] = "cancelled" \/ flag[r] THEN SitesBecome({r}, "cancelled")
  ELSE IF outcome[r] # "error" THEN SitesBecome({r}, outcome[r])
  ELSE IF JobAfter(r) = "retrying" THEN SiteRunning(r)
  ELSE SitesBecome({r}, "failed")

Conclude(r) ==
  /\ exec[r] = "returned"
  /\ job' = [job EXCEPT ![r] = JobAfter(r)]
  /\ SiteAfter(r)
  /\ exec' = [exec EXCEPT ![r] = "none"]
  /\ outcome' = [outcome EXCEPT ![r] = ""]
  /\ flag' = [flag EXCEPT ![r] = FALSE]
  /\ UNCHANGED <<attempts, callVars, procVars>>

-----------------------------------------------------------------------------
(* The cancel endpoints.                                                    *)

(* Until its first await: request_cancel, which only a live trace accepts,  *)
(* and task.cancel() of a task that has not begun (there are no pools yet). *)
RaiseFlag(r) ==
  /\ flag' = [flag EXCEPT ![r] = @ \/ exec[r] \in {"running", "unwinding"}]
  /\ exec' = [exec EXCEPT ![r] = IF @ = "created" THEN "none" ELSE @]
  /\ UNCHANGED outcome

(* Mutant: the endpoint waits for the row to end, not for the task.         *)
TaskEndedByRow(r) == job[r] \notin JobActive

TearingDown(r) == r \in single \/ at = r
TaskEnded(r)   == exec[r] \in {"none", "returned"}

(* The rows of one run, if its job has not ended.                           *)
CancelRowsOf(r) ==
  IF job[r] \in JobActive
  THEN /\ job' = [job EXCEPT ![r] = Cancelled(@)]
       /\ SitesBecome({r}, "cancelled")
       /\ UNCHANGED attempts
  ELSE UNCHANGED rowVars

(* POST /ui/runs/{run_id}/cancel without a task to wait for: rows at once.  *)
CancelIdle(r) ==
  /\ up = "up" /\ r \notin single /\ TaskEnded(r)
  /\ CancelRowsOf(r)
  /\ UNCHANGED <<taskVars, callVars, procVars>>

(* With a task: flag and teardown first, the rows at the end.               *)
CancelRun(r) ==
  /\ up = "up" /\ r \notin single /\ ~TaskEnded(r)
  /\ RaiseFlag(r)
  /\ single' = single \cup {r}
  /\ UNCHANGED <<rowVars, creating, at, sweep, procVars>>

CancelRows(r) ==
  /\ r \in single /\ TaskEnded(r)
  /\ single' = single \ {r}
  /\ CancelRowsOf(r)
  /\ UNCHANGED <<taskVars, creating, at, sweep, procVars>>

(* cancel_run_pools came back: task.cancel() reaches the workflow.          *)
CancelTask(r) ==
  /\ TearingDown(r) /\ exec[r] = "running"
  /\ exec' = [exec EXCEPT ![r] = "unwinding"]
  /\ UNCHANGED <<rowVars, outcome, flag, callVars, procVars>>

(* The teardown loop over rs, in some order: it passes over the runs that   *)
(* have no task and suspends at the first one that has.                     *)
SweepOn(rs) ==
  LET tasks == {r \in rs : ~TaskEnded(r)} IN
  IF tasks = {} THEN at' = None /\ sweep' = {} /\ UNCHANGED taskVars
  ELSE \E r \in tasks, rest \in SUBSET rs :
         /\ tasks \ {r} \subseteq rest /\ r \notin rest
         /\ at' = r /\ sweep' = rest
         /\ RaiseFlag(r)

(* POST /ui/runs/cancel-active: the rows of every active job first, then    *)
(* the tasks one by one.  One bulk or batch cancel at a time.               *)
Active == {r \in Run : job[r] \in JobActive}
CancelActive ==
  /\ up = "up" /\ at = None
  /\ job' = [r \in Run |-> Cancelled(job[r])]
  /\ IF Active = {} THEN UNCHANGED <<site, final, batch>> ELSE SitesBecome(Active, "cancelled")
  /\ SweepOn(Active \cup {r \in Run : ~TaskEnded(r)})
  /\ UNCHANGED <<attempts, creating, single, procVars>>

(* POST /api/datasets/batches/{batch_id}/cancel: the same, over the batch's *)
(* rows that are not terminal.                                              *)
Open == {r \in Run : Current(site[r], final[r]) \notin SiteTerminal}
MayCancelBatch == at = None /\ batch # "absent" /\ (CancelEarly \/ creating = {})
CancelBatch ==
  /\ up = "up" /\ MayCancelBatch
  /\ SitesBecome(Open, "cancelled")
  /\ job' = [r \in Run |-> IF r \in Open THEN Cancelled(job[r]) ELSE job[r]]
  /\ SweepOn(Open)
  /\ UNCHANGED <<attempts, creating, single, procVars>>

SweepNext ==
  /\ at # None /\ TaskEnded(at)
  /\ SweepOn(sweep)
  /\ UNCHANGED <<rowVars, creating, single, procVars>>

-----------------------------------------------------------------------------
(* The process.                                                             *)

GoDown ==
  /\ up' = "down"
  /\ exec' = [r \in Run |-> "none"] /\ outcome' = [r \in Run |-> ""]
  /\ flag' = [r \in Run |-> FALSE]
  /\ creating' = {} /\ single' = {} /\ at' = None /\ sweep' = {}

Crash ==
  /\ up # "down" /\ crashes < MaxCrashes
  /\ crashes' = crashes + 1
  /\ GoDown
  /\ UNCHANGED rowVars

(* Between the commit of the job row and that of the site row.              *)
CrashInClaim(r) ==
  /\ crashes < MaxCrashes
  /\ ClaimRow(r)
  /\ crashes' = crashes + 1
  /\ GoDown
  /\ UNCHANGED <<site, final, batch>>

CrashInConclude(r) ==
  /\ exec[r] = "returned" /\ crashes < MaxCrashes
  /\ job' = [job EXCEPT ![r] = JobAfter(r)]
  /\ crashes' = crashes + 1
  /\ GoDown
  /\ UNCHANGED <<attempts, site, final, batch>>

(* Among the commits of a cancel endpoint, which writes the job of a run    *)
(* before its site row, or the site rows of the batch before the jobs.      *)
CancelledSoFar(js, ss) ==
  \/ \E r \in single : TaskEnded(r) /\ js = {r} /\ ss = {}
  \/ \E r \in Run : r \notin single /\ TaskEnded(r) /\ js = {r} /\ ss = {}
  \/ at = None /\ js \subseteq Active /\ ss \subseteq js /\ Cardinality(js \ ss) = 1
  \/ MayCancelBatch /\ ss = Open /\ js \subseteq Open

CrashInCancel ==
  /\ up = "up" /\ crashes < MaxCrashes
  /\ \E js, ss \in SUBSET Run :
       /\ CancelledSoFar(js, ss)
       /\ job' = [r \in Run |-> IF r \in js THEN Cancelled(job[r]) ELSE job[r]]
       /\ IF ss = {} THEN UNCHANGED <<site, final, batch>> ELSE SitesBecome(ss, "cancelled")
  /\ crashes' = crashes + 1
  /\ GoDown
  /\ UNCHANGED attempts

(* Lifespan shutdown, when the requests have been served: the worker loop   *)
(* cancels its tasks.  A workflow that runs is unwound and its rows are     *)
(* written, and so are those of a workflow that is just closing its trace   *)
(* (it swallows the cancellation); a task that has not begun, or that was   *)
(* about to resume with the outcome, just ends.                             *)
Shutdown ==
  /\ up = "up" /\ crashes < MaxCrashes
  /\ creating = {} /\ single = {} /\ at = None
  /\ up' = "stopping"
  /\ crashes' = crashes + 1
  /\ \E kept \in SUBSET {r \in Run : exec[r] = "returned"} :
       /\ exec' = [r \in Run |-> IF exec[r] \in {"running", "unwinding"} THEN "unwinding"
                                 ELSE IF r \in kept THEN "returned" ELSE "none"]
       /\ outcome' = [r \in Run |-> IF r \in kept THEN outcome[r] ELSE ""]
  /\ UNCHANGED <<rowVars, flag, callVars>>

Stopped ==
  /\ up = "stopping" /\ \A r \in Run : exec[r] = "none"
  /\ GoDown
  /\ UNCHANGED <<rowVars, crashes>>

(* Mutant: no recovery at startup.                                          *)
RestartForgets(stale) ==
  /\ up = "down"
  /\ up' = "up"
  /\ UNCHANGED <<rowVars, taskVars, callVars, crashes>>

(* recover_stale_running: stale are the rows whose lease or heartbeat is    *)
(* too old.                                                                 *)
Recovered(stale) ==
  [r \in Run |-> IF r \in stale /\ job[r] = "running" THEN Failed(job[r], attempts[r]) ELSE job[r]]

(* Recovery at startup; _sweep_process_restart_orphans says of the recovered*)
(* rows once more that they failed.                                         *)
Restart(stale) ==
  /\ up = "down"
  /\ EarlyRestart \/ stale = Run
  /\ up' = "up"
  /\ job' = Recovered(stale)
  /\ UNCHANGED <<attempts, site, final, batch, taskVars, callVars, crashes>>

-----------------------------------------------------------------------------
WorkerStep(r) ==
  \/ Start(r)
  \/ \E o \in Outcome : Finish(r, o)
  \/ Conclude(r)
  \/ CancelTask(r)
  \/ CancelRows(r)

Next ==
  \/ CreateBatch
  \/ \E r \in Run : Enqueue(r)
  \/ \E r \in Run : Claim(r)
  \/ \E r \in Run : WorkerStep(r)
  \/ \E r \in Run : CancelIdle(r)
  \/ \E r \in Run : CancelRun(r)
  \/ CancelActive
  \/ CancelBatch
  \/ SweepNext
  \/ Crash
  \/ \E r \in Run : CrashInClaim(r)
  \/ \E r \in Run : CrashInConclude(r)
  \/ CrashInCancel
  \/ Shutdown
  \/ Stopped
  \/ \E stale \in SUBSET Run : Restart(stale)

Spec == Init /\ [][Next]_vars

(* The worker loop polls, every task runs and every pipeline has a global   *)
(* deadline; a process that is down is started again.  Nobody has to create *)
(* a batch, cancel anything or crash.                                       *)
Fairness ==
  /\ \A r \in Run : WF_vars(Enqueue(r)) /\ WF_vars(Claim(r)) /\ WF_vars(WorkerStep(r))
  /\ WF_vars(SweepNext)
  /\ WF_vars(Stopped)
  /\ WF_vars(\E stale \in SUBSET Run : Restart(stale))

FairSpec == Spec /\ Fairness

-----------------------------------------------------------------------------
(* Properties.                                                              *)

TypeOK ==
  /\ job \in [Run -> JobStatus] /\ attempts \in [Run -> Nat]
  /\ site \in [Run -> SiteStatus] /\ final \in [Run -> SiteStatus \cup {""}]
  /\ batch \in BatchStatus
  /\ up \in {"up", "stopping", "down"} /\ crashes \in 0 .. MaxCrashes
  /\ creating \in SUBSET Run /\ single \in SUBSET Run /\ sweep \in SUBSET Run
  /\ exec \in [Run -> TaskState] /\ outcome \in [Run -> Outcome]
  /\ flag \in [Run -> BOOLEAN]
  /\ at \in Run \cup {None}

(* A job is attempted at most max_attempts times, although claim_next does  *)
(* not look at the counter: whoever puts a row back has to.                 *)
AttemptsBounded == \A r \in Run : attempts[r] <= MaxAttempts

(* The status a batch shows is the one its rows have, after every commit    *)
(* of every writer and in spite of crashes between commits.                 *)
BatchInStep == batch # "absent" => batch = Refreshed(site, final)

(* What every state of the queue has to show.                               *)
QueueSafe == TypeOK /\ AttemptsBounded /\ BatchInStep

(* A run that has a task is never claimed again, through retries,           *)
(* cancellations, crashes and restarts: no pipeline runs twice at once.     *)
NotClaimedTwice == [][\A r \in Run : attempts'[r] # attempts[r] => exec[r] = "none"]_vars

(* A job that ended never changes its status again: not by the task that    *)
(* still runs it, a second cancel, a heartbeat or the restart sweep.        *)
TerminalIsFinal ==
  [][\A r \in Run : job[r] \in JobTerminal => job'[r] = job[r]]_vars

(* Every job ends, whatever is cancelled, fails or crashes.                 *)
JobsEnd == \A r \in Run : job[r] = "queued" ~> job[r] \in JobTerminal

(* Every batch ends and stays as it ended, if the process does not die and  *)
(* no run ends as no_target: TERMINAL_SITE_RUN_STATUSES does not have that  *)
(* status, and a batch with such a row stays running.                       *)
BatchEnds ==
  batch = "queued" ~> \/ [](batch \in {"cancelled", "success", "partial", "failed"})
                      \/ crashes > 0
                      \/ \E r \in Run : final[r] = "no_target"

(* Every cancel endpoint answers.                                           *)
CancelAnswers ==
  /\ \A r \in Run : r \in single ~> r \notin single
  /\ \A r \in Run : at = r ~> at # r

(* Jobs end, the endpoints that cancel them answer, and their batch ends,   *)
(* in spite of crashes and restarts.                                        *)
QueueEnds == JobsEnd /\ CancelAnswers /\ BatchEnds

(* "the final status is `cancelled`, not FAILED/TIMEOUT"                    *)
(* (docs/architecture/streaming-role-contracts-spike.md:307): the site row  *)
(* of a cancelled job whose task has ended.                                 *)
CancelledRunShowsCancelled ==
  \A r \in Run : job[r] = "cancelled" /\ exec[r] = "none" => final[r] = "cancelled"
=============================================================================
