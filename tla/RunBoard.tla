------------------------------- MODULE RunBoard -------------------------------
(***************************************************************************)
(* The pages that show all runs: the list of runs with its status filter   *)
(* (ui_runs), one run's page and where it is read from (ui_run_detail), and *)
(* the totals of the overview (get_overview), while jobs are enqueued,      *)
(* executed, retried, cancelled, deleted and interrupted.                   *)
(*                                                                         *)
(* A run is known by up to three records that are written at different      *)
(* times: its job row, its run row and its trace in the registry.  Each     *)
(* page merges them in a way of its own.                                    *)
(***************************************************************************)
EXTENDS Naturals, FiniteSets

CONSTANTS
    BoardRun,       \* runs
    BoardVerdict,   \* final_status values of results
    BoardAttempts   \* max_attempts of a job

ASSUME BoardAssumption ==
    /\ IsFiniteSet(BoardRun)
    /\ BoardAttempts \in Nat \ {0}
    /\ BoardVerdict \subseteq {"success", "partial", "failed", "no_streams", "no_target"}

VARIABLES
    boardJob,     \* background_jobs.status
    boardTry,     \* background_jobs.attempts
    boardTask,    \* the coroutine that executes the job: "none", "running", or how it returned
    boardRow,     \* pipeline_runs.final_status, "none" without a row
    boardMode,    \* what failure_mode says of the provider: "", "rate", "down"
    boardSigns,   \* what the stored events say of the provider
    boardFound,   \* the row counts streams or provider analyses
    boardTrace    \* the registry: "none", "open" or how the trace was completed

boardJobVars == <<boardJob, boardTry, boardTask>>
boardRowVars == <<boardRow, boardMode, boardSigns, boardFound>>
boardVars    == <<boardJobVars, boardRowVars, boardTrace>>

BoardActive    == {"queued", "running", "retrying"}
BoardSuccess   == {"success", "partial"}
BoardFailure   == {"failed", "no_streams", "llm_rate_limited", "llm_api_down"}
BoardTerminal  == BoardSuccess \cup BoardFailure \cup {"cancelled"}
BoardJobEnded  == {"succeeded", "failed", "dead_letter", "cancelled"}

BoardSign == {"rate", "down"}

BoardInit ==
    /\ boardJob   = [r \in BoardRun |-> "absent"]
    /\ boardTry   = [r \in BoardRun |-> 0]
    /\ boardTask  = [r \in BoardRun |-> "none"]
    /\ boardRow   = [r \in BoardRun |-> "none"]
    /\ boardMode  = [r \in BoardRun |-> ""]
    /\ boardSigns = [r \in BoardRun |-> {}]
    /\ boardFound = [r \in BoardRun |-> FALSE]
    /\ boardTrace = [r \in BoardRun |-> "none"]

-----------------------------------------------------------------------------
\* The life of a run.

\* A run that was deleted is not enqueued again: ids are fresh.
BoardEnqueue(r) ==
    /\ boardJob[r] = "absent" /\ boardTry[r] = 0
    /\ boardJob' = [boardJob EXCEPT ![r] = "queued"]
    /\ UNCHANGED <<boardTry, boardTask, boardRowVars, boardTrace>>

BoardStart(r) ==
    /\ boardJob[r] \in {"queued", "retrying"} /\ boardTask[r] = "none"
    /\ boardJob'   = [boardJob EXCEPT ![r] = "running"]
    /\ boardTry'   = [boardTry EXCEPT ![r] = @ + 1]
    /\ boardTask'  = [boardTask EXCEPT ![r] = "running"]
    /\ boardTrace' = [boardTrace EXCEPT ![r] = "open"]
    /\ UNCHANGED boardRowVars

\* The row says what the trace says; its events replace those stored before.
BoardSave(r, status, mode, signs, found) ==
    /\ boardRow'   = [boardRow EXCEPT ![r] = status]
    /\ boardMode'  = [boardMode EXCEPT ![r] = mode]
    /\ boardSigns' = [boardSigns EXCEPT ![r] = signs]
    /\ boardFound' = [boardFound EXCEPT ![r] = found]

\* A snapshot of the live trace keeps what the row has found.
BoardSnapshot(r, signs) ==
    /\ boardTask[r] = "running"
    /\ BoardSave(r, "running", "", signs, boardFound[r])
    /\ UNCHANGED <<boardJobVars, boardTrace>>

\* A result, saved as a whole.
BoardComplete(r, verdict, mode, signs, found) ==
    /\ boardTask[r] = "running"
    /\ (mode # "" => verdict = "failed") /\ (verdict \in BoardSuccess => found)
    /\ BoardSave(r, verdict, mode, signs, found)
    /\ boardTrace' = [boardTrace EXCEPT ![r] = verdict]
    /\ boardTask'  = [boardTask EXCEPT ![r] = "ok"]
    /\ UNCHANGED <<boardJob, boardTry>>

\* An attempt that raises, or is cancelled; its last snapshot may fail.
BoardRaise(r, how, mode, signs) ==
    /\ boardTask[r] = "running"
    /\ how = "cancelled" => mode = ""
    /\ \/ BoardSave(r, how, mode, signs, boardFound[r])
       \/ UNCHANGED boardRowVars
    /\ boardTrace' = [boardTrace EXCEPT ![r] = how]
    /\ boardTask'  = [boardTask EXCEPT ![r] = how]
    /\ UNCHANGED <<boardJob, boardTry>>

BoardJobFailed(r) == IF boardTry[r] >= BoardAttempts THEN "dead_letter" ELSE "retrying"

\* The job row follows in a transaction of its own.
BoardConclude(r) ==
    /\ boardTask[r] \in {"ok", "failed", "cancelled"}
    /\ boardJob'  = [boardJob EXCEPT ![r] =
           CASE @ \in {"absent", "cancelled"} -> @
             [] @ = "running" /\ boardTask[r] = "ok" -> "succeeded"
             [] @ = "running" /\ boardTask[r] = "cancelled" -> "cancelled"
             [] @ = "running" /\ boardTask[r] = "failed" -> BoardJobFailed(r)]
    /\ boardTask' = [boardTask EXCEPT ![r] = "none"]
    /\ UNCHANGED <<boardTry, boardRowVars, boardTrace>>

\* cancel-active: the job row at once, whatever the task does.
BoardCancel(r) ==
    /\ boardJob[r] \in BoardActive
    /\ boardJob' = [boardJob EXCEPT ![r] = "cancelled"]
    /\ UNCHANGED <<boardTry, boardTask, boardRowVars, boardTrace>>

\* A restart: tasks and traces are gone, jobs that were running have failed.
BoardRestart ==
    /\ boardTask'  = [r \in BoardRun |-> "none"]
    /\ boardTrace' = [r \in BoardRun |-> "none"]
    /\ boardJob'   = [r \in BoardRun |->
           IF boardJob[r] = "running" THEN BoardJobFailed(r) ELSE boardJob[r]]
    /\ UNCHANGED <<boardTry, boardRowVars>>

\* A run that is looked at after a restart comes back into the registry open,
\* as long as its job has not ended.
BoardRestore(r) ==
    /\ boardTrace[r] = "none" /\ boardRow[r] # "none" /\ boardJob[r] \in BoardActive
    /\ boardTrace' = [boardTrace EXCEPT ![r] = "open"]
    /\ UNCHANGED <<boardJobVars, boardRowVars>>

BoardDelete(r) ==
    /\ boardTask[r] = "none" /\ boardTrace[r] # "open" /\ boardJob[r] \in BoardJobEnded
    /\ boardJob' = [boardJob EXCEPT ![r] = "absent"]
    /\ BoardSave(r, "none", "", {}, FALSE)
    /\ UNCHANGED <<boardTry, boardTask, boardTrace>>

BoardRunNext(r) ==
    \/ BoardEnqueue(r) \/ BoardStart(r) \/ BoardConclude(r)
    \/ BoardCancel(r) \/ BoardRestore(r) \/ BoardDelete(r)
    \/ \E signs \in SUBSET BoardSign :
         \/ BoardSnapshot(r, signs)
         \/ \E mode \in BoardSign \cup {""} :
              \/ \E verdict \in BoardVerdict, found \in BOOLEAN :
                   BoardComplete(r, verdict, mode, signs, found)
              \/ \E how \in {"failed", "cancelled"} : BoardRaise(r, how, mode, signs)

BoardNext == BoardRestart \/ \E r \in BoardRun : BoardRunNext(r)

BoardSpec == BoardInit /\ [][BoardNext]_boardVars

-----------------------------------------------------------------------------
\* The words of the pages.

\* normalize_job_display_status
BoardJobShown(r) ==
    CASE boardJob[r] = "succeeded"                 -> "success"
      [] boardJob[r] \in {"running", "retrying"}   -> "running"
      [] boardJob[r] \in {"failed", "dead_letter"} -> "failed"
      [] OTHER                                     -> boardJob[r]

\* _derived_failed_run_status: what a failed row is called.
BoardDerived(r) ==
    CASE boardMode[r] = "rate" -> "llm_rate_limited"
      [] boardMode[r] = "down" -> "llm_api_down"
      [] boardMode[r] = "" /\ ~boardFound[r] -> "no_streams"
      [] OTHER -> "failed"

\* _run_row without a job.
BoardRowShown(r) == IF boardRow[r] = "failed" THEN BoardDerived(r) ELSE boardRow[r]

\* _run_row with a job: normalize_run_display_status.
BoardDetail(r) ==
    LET said == IF BoardJobShown(r) \in {"queued", "running", "cancelled", "failed"}
                THEN BoardJobShown(r) ELSE boardRow[r]
    IN  IF said = "failed" THEN BoardDerived(r) ELSE said

\* _background_job_row: the result a job carries once it has succeeded.
BoardJobRow(r) == IF boardJob[r] = "succeeded" THEN boardRow[r] ELSE BoardJobShown(r)

\* _build_trace_detail_payload
BoardTraceShown(r) == IF boardTrace[r] = "open" THEN "running" ELSE boardTrace[r]

\* ui_run_detail: the stored run, else its trace, else its job, else not found.
BoardPage(r) ==
    CASE boardRow[r] # "none" -> BoardDetail(r)
      [] boardRow[r] = "none" /\ boardTrace[r] # "none" -> BoardTraceShown(r)
      [] OTHER -> BoardJobRow(r)

-----------------------------------------------------------------------------
\* The list of runs.

\* Mutant: the derived words are looked up in the stored column too.
BoardFetchedAsStored(filter) ==
    {r \in BoardRun : /\ boardRow[r] # "none"
                      /\ filter \in {"", "queued", boardRow[r]}}

\* list_runs: three statuses are looked up as they are stored, the others
\* after they are put into words.
BoardFetched(filter) ==
    {r \in BoardRun : /\ boardRow[r] # "none"
                      /\ CASE filter \in {"", "queued"} -> TRUE
                           [] filter \in {"success", "partial", "cancelled"} -> boardRow[r] = filter
                           [] OTHER -> BoardRowShown(r) = filter}

\* ui_runs: an end that is stored wins over the job, the job over the rest.
BoardMerged(r) ==
    IF boardJob[r] = "absent" \/ boardRow[r] \in BoardTerminal
    THEN BoardRowShown(r) ELSE BoardJobShown(r)

\* Jobs whose runs were not fetched are listed as rows of their own.
BoardPending(filter) ==
    {r \in BoardRun : boardJob[r] # "absent"} \ BoardFetched(filter)

BoardList(filter) ==
    {r \in BoardFetched(filter) : filter \in {"", BoardMerged(r)}}
      \cup {r \in BoardPending(filter) : filter \in {"", BoardJobRow(r)}}

\* What the list without a filter calls a run.
BoardListed(r) == IF boardRow[r] # "none" THEN BoardMerged(r) ELSE BoardJobRow(r)

-----------------------------------------------------------------------------
\* The overview.

BoardCount(statuses) == Cardinality({r \in BoardRun : boardRow[r] \in statuses})

BoardFailures == BoardFailure
BoardEnded    == BoardCount(BoardSuccess) + BoardCount(BoardFailures) + BoardCount({"cancelled"})
BoardRunning  == BoardCount({"running"})
BoardTotal    == Cardinality({r \in BoardRun : boardRow[r] # "none"})

\* remember() of _llm_provider_blocker_rollup: a limit, once seen, stays.
BoardRemember(old, sign) ==
    CASE old = "rate" \/ sign = "" -> old
      [] OTHER -> sign

\* The failure mode of a failed run first, then its events in any order.
BoardBlocker(r, order) ==
    LET first  == BoardRemember("", boardMode[r])
        sign(i) == IF order[i] \in boardSigns[r] THEN order[i] ELSE ""
    IN  BoardRemember(BoardRemember(first, sign(1)), sign(2))

BoardBlocked(order, sign) ==
    {r \in BoardRun : boardRow[r] \in BoardFailure /\ BoardBlocker(r, order) = sign}

-----------------------------------------------------------------------------
BoardTypeOK ==
    /\ boardJob   \in [BoardRun -> BoardActive \cup BoardJobEnded \cup {"absent"}]
    /\ boardTry   \in [BoardRun -> 0 .. BoardAttempts]
    /\ boardTask  \in [BoardRun -> {"none", "running", "ok", "failed", "cancelled"}]
    /\ boardRow   \in [BoardRun -> BoardVerdict \cup {"none", "running", "failed", "cancelled"}]
    /\ boardMode  \in [BoardRun -> BoardSign \cup {""}]
    /\ boardSigns \in [BoardRun -> SUBSET BoardSign]
    /\ boardFound \in [BoardRun -> BOOLEAN]
    /\ boardTrace \in [BoardRun -> BoardVerdict \cup {"none", "open", "failed", "cancelled"}]

\* A run is found under the status that the list shows for it: filtering the
\* list by that word keeps the run, though the filter is applied to the stored
\* word, to the derived one or to the job's depending on the word.  Runs that
\* ended as no_target are excepted: the list calls them by their job.
FilterFinds ==
    \A r \in BoardRun :
        /\ boardJob[r] # "absent" \/ boardRow[r] # "none"
        /\ boardRow[r] # "no_target"
        => r \in BoardList(BoardListed(r))

\* Whichever of the three records a page is read from, it does not say that a
\* run goes on once its job has ended and its task is gone.
PageTells ==
    \A r \in BoardRun :
        boardJob[r] \in BoardJobEnded /\ boardTask[r] = "none"
          => BoardPage(r) \notin BoardActive

\* The totals of the overview add up: a stored run is running or ended, but for
\* those that ended as no_target.
OverviewAdds == BoardTotal = BoardEnded + BoardRunning + BoardCount({"no_target"})

\* A failed run counts once among the runs the provider blocked, as limited if
\* anything says so, in whichever order its failure mode and events are read.
BlockedOnce ==
    \A order \in {<<"rate", "down">>, <<"down", "rate">>} :
        /\ BoardBlocked(order, "rate") =
             {r \in BoardRun : boardRow[r] \in BoardFailure
                                 /\ "rate" \in boardSigns[r] \cup {boardMode[r]}}
        /\ BoardBlocked(order, "down") =
             {r \in BoardRun : boardRow[r] \in BoardFailure
                                 /\ "rate" \notin boardSigns[r] \cup {boardMode[r]}
                                 /\ "down" \in boardSigns[r] \cup {boardMode[r]}}

\* The list, its filters, a run's page and the totals of the overview agree.
BoardTells == BoardTypeOK /\ FilterFinds /\ PageTells /\ OverviewAdds /\ BlockedOnce
=============================================================================
