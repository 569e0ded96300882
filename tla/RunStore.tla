------------------------------- MODULE RunStore -------------------------------
(***************************************************************************)
(* What the database holds of one run, and what the console shows of it.   *)
(*                                                                         *)
(* The coroutine that executes the run's job writes a snapshot of the live *)
(* trace every second, and the whole result at the end, each in one        *)
(* transaction; the job row is written after that, in a transaction of its *)
(* own.  DELETE /ui/runs/{run_id} runs on a worker thread: it looks at the *)
(* registry, then at the job row, then deletes.  The process may crash     *)
(* between any two of these steps, and the job is then executed again.     *)
(*                                                                         *)
(* An attempt's number stands for the data that the attempt produced.      *)
(***************************************************************************)
EXTENDS Naturals

CONSTANTS
    StoreAttempts, \* max_attempts of the job
    MaxCrashes,    \* bound on the number of crashes
    Kinds,         \* job types: "workflow", "agent"
    Verdicts       \* final_status values a finished attempt may report

SuccessStatuses == {"success", "partial"}

ASSUME StoreAssumption ==
    /\ StoreAttempts \in Nat \ {0} /\ MaxCrashes \in Nat
    /\ Kinds \subseteq {"workflow", "agent"}
    /\ Verdicts \subseteq {"success", "partial", "failed", "no_streams"}

VARIABLES
    kind,      \* background_jobs.job_type
    job,       \* background_jobs.status, or "absent"
    attempts,  \* background_jobs.attempts
    task,      \* the coroutine that executes the job
    outcome,   \* what it will tell the job row: "ok", "error", "cancelled"
    trace,     \* the run in run_registry: "none", "open" or how it finished
    flag,      \* cancel_requested of that trace
    row,       \* the pipeline row and its children, or NoRow
    memories,  \* attempts whose site memory entries were written
    deleting,  \* how far the delete handler has come
    deleted,   \* a delete has removed the run
    swept,     \* cancel-active has ended the job of a task that had not ended
    up,        \* the process runs
    crashes

jobVars  == <<kind, job, attempts>>
taskVars == <<task, outcome>>
liveVars == <<trace, flag>>
rowVars  == <<row, memories>>
delVars  == <<deleting, deleted, swept>>
procVars == <<up, crashes>>
storeVars == <<jobVars, taskVars, liveVars, rowVars, delVars, procVars>>

JobActive   == {"queued", "running", "retrying"}
JobTerminal == {"succeeded", "failed", "dead_letter", "cancelled"}

NoRow == [status |-> "absent", finished |-> FALSE, agents |-> 0, snapshot |-> 0, streams |-> 0]
Stored == row # NoRow

StoreInit ==
    /\ kind \in Kinds /\ job = "queued" /\ attempts = 0
    /\ task = "none" /\ outcome = "none"
    /\ trace = "none" /\ flag = FALSE
    /\ row = NoRow /\ memories = {}
    /\ deleting = "idle" /\ deleted = FALSE /\ swept = FALSE
    /\ up = TRUE /\ crashes = 0

-----------------------------------------------------------------------------
\* The two writers.

\* The row and its children after the result of attempt n, whatever was there.
ResultRow(n, status) ==
    [status |-> status, finished |-> TRUE, agents |-> n, snapshot |-> n, streams |-> n]

Remembered(n, status) == IF status \in SuccessStatuses THEN {n} ELSE {}

SaveResult(n, status) ==
    /\ row' = ResultRow(n, status)
    /\ memories' = memories \cup Remembered(n, status)

\* The status save_trace_snapshot reads off a trace.
SnapshotStatus(t, cancelled) ==
    CASE t = "open" -> "running"
      [] t # "open" /\ (cancelled \/ t = "cancelled") -> "cancelled"
      [] t # "open" /\ ~cancelled /\ t # "cancelled" -> t

\* save_trace_snapshot: status, agent runs, events and usage are those of the
\* trace; the lists in the document and the stream rows stay what they were.
Snapshot(t, cancelled) ==
    [row EXCEPT !.status = SnapshotStatus(t, cancelled), !.finished = (t # "open"),
                !.agents = attempts]

\* A failing write is logged and skipped.
TrySnapshot(t, cancelled) ==
    /\ row' \in {row, Snapshot(t, cancelled)}
    /\ UNCHANGED memories

-----------------------------------------------------------------------------
\* The worker.
Claim ==
    /\ up /\ task = "none" /\ job \in {"queued", "retrying"}
    /\ job' = "running" /\ attempts' = attempts + 1
    /\ task' = "created"
    /\ UNCHANGED <<kind, outcome, liveVars, rowVars, delVars, procVars>>

\* run_registry.create: a trace that is still open, one that was restored, is
\* taken over with its flag.
Start ==
    /\ task = "created"
    /\ task' = "running"
    /\ trace' = "open" /\ flag' = (trace = "open" /\ flag)
    /\ UNCHANGED <<jobVars, outcome, rowVars, delVars, procVars>>

\* One turn of _trace_persist_loop.
PersistTrace ==
    /\ task = "running"
    /\ TrySnapshot(trace, flag)
    /\ UNCHANGED <<jobVars, taskVars, liveVars, delVars, procVars>>

Ok(status) == kind = "workflow" \/ status \in SuccessStatuses

\* The attempt finishes: the trace is closed and the result saved, with no
\* await between the two.
Complete(status) ==
    /\ task = "running" /\ ~flag
    /\ trace' = status
    /\ SaveResult(attempts, status)
    /\ task' = "returned" /\ outcome' = (IF Ok(status) THEN "ok" ELSE "error")
    /\ UNCHANGED <<jobVars, flag, delVars, procVars>>

CloseFailed  == task' = "returned" /\ outcome' = "error"

\* The attempt raises or times out, or its save does.
Raise ==
    /\ task = "running" /\ ~flag
    /\ trace' = "failed"
    /\ TrySnapshot("failed", FALSE)
    /\ CloseFailed
    /\ UNCHANGED <<jobVars, flag, delVars, procVars>>

\* The flag is seen, or the task is cancelled.
Unwind ==
    /\ task = "running" /\ flag
    /\ trace' = "cancelled"
    /\ TrySnapshot("cancelled", TRUE)
    /\ task' = "returned" /\ outcome' = "cancelled"
    /\ UNCHANGED <<jobVars, flag, delVars, procVars>>

JobFailed == IF attempts >= StoreAttempts THEN "dead_letter" ELSE "retrying"
JobAfter ==
    CASE job \in {"absent", "cancelled"} -> job
      [] job \notin {"absent", "cancelled"} /\ (outcome = "cancelled" \/ flag) -> "cancelled"
      [] job \notin {"absent", "cancelled"} /\ ~flag /\ outcome = "ok" -> "succeeded"
      [] OTHER -> JobFailed

\* The rest of _execute_background_job.
Conclude ==
    /\ task = "returned"
    /\ job' = JobAfter
    /\ task' = "none" /\ outcome' = "none"
    /\ UNCHANGED <<kind, attempts, liveVars, rowVars, delVars, procVars>>

-----------------------------------------------------------------------------
\* The console.

\* POST /ui/runs/{run_id}/cancel: the flag of an open trace; a task that has
\* not begun never begins; the job row follows at once unless a task runs, and
\* in Conclude if one does.
CancelRun ==
    /\ up
    /\ flag' = (flag \/ trace = "open")
    /\ task' = (IF task = "created" THEN "none" ELSE task)
    /\ job' = (IF task # "running" /\ job \in JobActive THEN "cancelled" ELSE job)
    /\ UNCHANGED <<kind, attempts, outcome, trace, rowVars, delVars, procVars>>

\* POST /ui/runs/cancel-active: the job row first, the task when its turn comes.
CancelRowFirst ==
    /\ up /\ job \in JobActive
    /\ job' = "cancelled"
    /\ swept' = (swept \/ task \in {"created", "running"})
    /\ UNCHANGED <<kind, attempts, taskVars, liveVars, rowVars, deleting, deleted, procVars>>

CancelTaskLater ==
    /\ job = "cancelled" /\ task \in {"created", "running"}
    /\ task' = (IF task = "created" THEN "none" ELSE task)
    /\ flag' = (flag \/ trace = "open")
    /\ UNCHANGED <<jobVars, outcome, trace, rowVars, delVars, procVars>>

\* _restore_trace_from_db, when a run is looked at after a restart: the trace
\* comes back open as long as the job has not ended.
View ==
    /\ up /\ trace = "none" /\ Stored /\ job \in JobActive
    /\ trace' = "open" /\ flag' = FALSE
    /\ UNCHANGED <<jobVars, taskVars, rowVars, delVars, procVars>>

\* Mutant: the registry alone says whether the run is over.
MayDeleteUnchecked == TRUE
MayDelete == job \notin JobActive

\* ui_delete_run
DeleteSeesTrace ==
    /\ up /\ deleting = "idle" /\ trace # "open"
    /\ deleting' = "trace"
    /\ UNCHANGED <<jobVars, taskVars, liveVars, rowVars, deleted, swept, procVars>>

DeleteSeesJob ==
    /\ deleting = "trace"
    /\ deleting' = (IF MayDelete THEN "job" ELSE "idle")
    /\ UNCHANGED <<jobVars, taskVars, liveVars, rowVars, deleted, swept, procVars>>

\* hard_delete_run: everything of the run but its memory entries, and the job.
DeleteRun ==
    /\ deleting = "job"
    /\ deleting' = "idle" /\ deleted' = TRUE
    /\ row' = NoRow /\ job' = "absent"
    /\ UNCHANGED <<kind, attempts, taskVars, liveVars, memories, swept, procVars>>

-----------------------------------------------------------------------------
\* The process.
Crash ==
    /\ up /\ crashes < MaxCrashes
    /\ up' = FALSE /\ crashes' = crashes + 1
    /\ task' = "none" /\ outcome' = "none" /\ trace' = "none" /\ flag' = FALSE
    /\ deleting' = "idle"
    /\ UNCHANGED <<jobVars, rowVars, deleted, swept>>

\* cleanup_old_artifacts of a row whose window is over: the document goes, the
\* stream rows stay.
Cleanup(r) == [r EXCEPT !.snapshot = 0]

\* Startup: jobs that were running are failed, and what is old is cleaned up.
Restart(old) ==
    /\ ~up /\ up' = TRUE
    /\ job' = (IF job = "running" THEN JobFailed ELSE job)
    /\ old => Stored /\ row.finished
    /\ row' = (IF old THEN Cleanup(row) ELSE row)
    /\ UNCHANGED <<kind, attempts, taskVars, liveVars, memories, delVars, crashes>>

StoreNext ==
    \/ Claim \/ Start \/ PersistTrace
    \/ \E status \in Verdicts : Complete(status)
    \/ Raise \/ Unwind \/ Conclude
    \/ CancelRun \/ CancelRowFirst \/ CancelTaskLater \/ View
    \/ DeleteSeesTrace \/ DeleteSeesJob \/ DeleteRun
    \/ Crash
    \/ \E old \in BOOLEAN : Restart(old)

StoreSpec == StoreInit /\ [][StoreNext]_storeVars

-----------------------------------------------------------------------------
\* What the console shows.

RunActive == {"queued", "running", "retrying", "leased"}

\* normalize_job_display_status
JobShown ==
    CASE job = "succeeded"               -> "success"
      [] job \in {"running", "retrying"} -> "running"
      [] job = "dead_letter"             -> "failed"
      [] OTHER                           -> job

\* The run's page: normalize_run_display_status with the job's status.
DetailStatus == IF JobShown \in {"queued", "running", "cancelled", "failed"} THEN JobShown
                ELSE row.status

\* The list of runs: a stored end wins over the job.
ListStatus == IF row.status \in RunActive /\ job # "absent" THEN JobShown ELSE row.status

\* The streams of the run's page: the document's, else the rows'.
ShownStreams == IF row.snapshot # 0 THEN row.snapshot ELSE row.streams

-----------------------------------------------------------------------------
StoreTypeOK ==
    /\ kind \in Kinds /\ job \in JobActive \cup JobTerminal \cup {"absent"}
    /\ attempts \in 0..StoreAttempts
    /\ task \in {"none", "created", "running", "returned"}
    /\ outcome \in {"none", "ok", "error", "cancelled"}
    /\ trace \in {"none", "open", "success", "partial", "failed", "no_streams", "cancelled"}
    /\ row \in [status : {"absent", "running", "cancelled"} \cup {"success", "partial", "failed", "no_streams"},
                finished : BOOLEAN, agents : 0..StoreAttempts,
                snapshot : 0..StoreAttempts, streams : 0..StoreAttempts]
    /\ memories \subseteq 1..StoreAttempts
    /\ deleting \in {"idle", "trace", "job"}
    /\ flag \in BOOLEAN /\ deleted \in BOOLEAN /\ swept \in BOOLEAN
    /\ up \in BOOLEAN /\ crashes \in 0..MaxCrashes

\* A job that says succeeded has its whole result in the store: status, agent
\* runs and streams of its last attempt, also after a crash between the two
\* commits and a second execution.
SucceededIsStored ==
    job = "succeeded" => /\ row.status \in Verdicts
                         /\ row.agents = attempts /\ row.streams = attempts

\* The streams the console shows of a run are lost only with the run, or to the
\* result of a later attempt: not to the snapshots of a retry, not to clean-up.
ShownStreamsSurvive ==
    [][ShownStreams # 0 => row' = NoRow \/ ShownStreams' >= ShownStreams]_storeVars

\* The page of a stored run says that it goes on exactly while its job does,
\* and the list never says that an ended run goes on.
ShownStatusTrue ==
    Stored /\ job # "absent" =>
        /\ DetailStatus \in RunActive <=> job \in JobActive
        /\ job \in JobTerminal => ListStatus \notin RunActive

\* A run that was deleted does not come back, though a snapshot writes its row
\* anew when there is none.  cancel-active is excepted: it ends the job before
\* the task, and a delete that falls between the two is granted.
DeletedStaysDeleted == deleted /\ ~swept => ~Stored

\* The stored run agrees with its job, through retries, crashes and deletes.
StoreTrue ==
    /\ [](StoreTypeOK /\ SucceededIsStored /\ ShownStatusTrue /\ DeletedStaysDeleted)
    /\ ShownStreamsSurvive
=============================================================================
