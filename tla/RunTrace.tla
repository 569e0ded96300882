------------------------------ MODULE RunTrace ------------------------------
(***************************************************************************)
(* The trace of one run: its numbered events in the in-memory registry      *)
(* (utils/observability.py), their copy in runtime_events, and the console  *)
(* that follows them over SSE (_stream_trace of api/app.py and              *)
(* web/lib/use-run-stream.ts), while the job queue executes, cancels,       *)
(* retries and recovers the run.                                            *)
(*                                                                          *)
(* The module extends JobQueue: each of its steps is taken together with    *)
(* what the same code does to the trace.  An event's number is its position *)
(* in the log, so a log is the sequence of the epochs its events come from. *)
(* The registry holds fewer than max_runs traces: none is evicted.          *)
(***************************************************************************)
EXTENDS JobQueue, Sequences, SequencesExt

CONSTANTS
  Followed,     \* the run whose trace is followed
  MaxEvents     \* bound on the length of a log before its final events

ASSUME RunTraceAssumption == Run = {Followed} /\ MaxEvents \in Nat

VARIABLES
  trace,    \* the registry's _RunState of the run: "absent", "open", "completed"
  log,      \* its events
  asked,    \* its cancel_requested
  disk,     \* the rows of runtime_events
  stream,   \* the SSE connection: "closed", "open"
  sent,     \* last_seq of the generator that serves it
  shown,    \* the events the console has folded in
  told      \* the console knows that the run is completed, and stops for good

logVars    == <<trace, log, asked>>
streamVars == <<stream, sent, shown, told>>
traceVars  == <<logVars, disk, streamVars>>
allVars    == <<vars, traceVars>>

(* Every attempt and every life of the process is an epoch of its own, so   *)
(* epoch and number identify an event.  0: made up by the stream.           *)
Epoch     == attempts[Followed] + crashes
Synthetic == 0

TraceInit ==
  /\ Init
  /\ trace = "absent" /\ log = <<>> /\ asked = FALSE
  /\ disk = <<>>
  /\ stream = "closed" /\ sent = 0 /\ shown = <<>> /\ told = FALSE

Later(s, n) == SubSeq(s, n + 1, Len(s))
Larger(m, n) == IF m > n THEN m ELSE n

-----------------------------------------------------------------------------
(* The registry.                                                            *)

(* RunRegistry.restore of the persisted events: a trace that is not         *)
(* completed, whatever it was when it was persisted.                        *)
Restore ==
  /\ trace' = "open" /\ log' = disk /\ asked' = FALSE

(* Mutant: _restore_trace_from_db does not look at the job.                 *)
RestorableAlways == disk # <<>>

(* _restore_trace_from_db: the job has not ended and left events.           *)
Restorable == job[Followed] \notin JobTerminal /\ disk # <<>>

(* RunRegistry.create as _execute_background_job and _background_workflow   *)
(* call it: a new log, unless there is a trace that is not completed, or    *)
(* none and one can be restored.                                            *)
Create ==
  IF trace = "absent" /\ Restorable THEN Restore
  ELSE IF trace = "open" THEN UNCHANGED logVars
  ELSE trace' = "open" /\ log' = <<>> /\ asked' = FALSE

(* request_cancel: once, and only before the trace is completed.            *)
RequestCancel ==
  IF trace = "open" /\ ~asked
  THEN asked' = TRUE /\ log' = Append(log, Epoch) /\ UNCHANGED trace
  ELSE UNCHANGED logVars

-----------------------------------------------------------------------------
(* The run.                                                                 *)

TraceStart ==
  /\ Start(Followed)
  /\ Create
  /\ UNCHANGED <<disk, streamVars>>

Emit ==
  /\ exec[Followed] \in {"running", "unwinding"}
  /\ Len(log) < MaxEvents
  /\ log' = Append(log, Epoch)
  /\ UNCHANGED <<vars, trace, asked, disk, streamVars>>

(* A round of _trace_persist_loop: save_trace_snapshot replaces all rows.   *)
Persist ==
  /\ exec[Followed] \in {"running", "unwinding"}
  /\ disk # log
  /\ disk' = log
  /\ UNCHANGED <<vars, logVars, streamVars>>

(* The final event, finish() and the last snapshot.  A pipeline that ended  *)
(* with the flag up has emitted its own final event before run_cancelled.   *)
TraceFinish(o) ==
  /\ Finish(Followed, o)
  /\ \E k \in 1 .. 2 :
       /\ k = 2 => o = "cancelled" /\ exec[Followed] = "running"
       /\ log' = log \o [i \in 1 .. k |-> Epoch]
  /\ trace' = "completed"
  /\ disk' = log'
  /\ UNCHANGED <<asked, streamVars>>

(* The cancel endpoints ask the trace, also that of a run without a task.   *)
TraceCancel ==
  /\ \/ CancelIdle(Followed)
     \/ CancelRun(Followed)
     \/ CancelActive /\ (Active # {} \/ ~TaskEnded(Followed))
     \/ CancelBatch /\ Open # {}
  /\ RequestCancel
  /\ UNCHANGED <<disk, streamVars>>

(* The rows of the batch appear; there is no trace yet.                     *)
TraceCreateBatch == CreateBatch /\ UNCHANGED traceVars

(* Steps of the queue that do not touch the trace.                          *)
QueueStep ==
  /\ \/ Enqueue(Followed)
     \/ Claim(Followed)
     \/ Conclude(Followed)
     \/ CancelTask(Followed)
     \/ CancelRows(Followed)
     \/ SweepNext
     \/ \E stale \in SUBSET Run : Restart(stale)
  /\ UNCHANGED traceVars

(* A process that stops accepts no connection and closes those it has.      *)
TraceShutdown ==
  /\ Shutdown
  /\ stream' = "closed" /\ sent' = 0
  /\ UNCHANGED <<logVars, disk, shown, told>>

(* The registry dies with the process.                                      *)
TraceDown ==
  /\ \/ Crash
     \/ CrashInClaim(Followed)
     \/ CrashInConclude(Followed)
     \/ CrashInCancel
     \/ Stopped
  /\ trace' = "absent" /\ log' = <<>> /\ asked' = FALSE
  /\ stream' = "closed" /\ sent' = 0
  /\ UNCHANGED <<disk, shown, told>>

-----------------------------------------------------------------------------
(* The stream.                                                              *)

(* A connection of the console: the server replays from 0.                  *)
Connect ==
  /\ up = "up" /\ stream = "closed" /\ ~told
  /\ job[Followed] # "absent"
  /\ stream' = "open" /\ sent' = 0
  /\ UNCHANGED <<vars, logVars, disk, shown, told>>

Disconnect ==
  /\ stream = "open"
  /\ stream' = "closed" /\ sent' = 0
  /\ UNCHANGED <<vars, logVars, disk, shown, told>>

(* Mutant: replayed events are folded in again.                             *)
FoldAll(events, from) == shown \o Later(events, from)

(* applyRunStreamPayload: of the events after number from, those with a     *)
(* greater number than everything folded in before.                         *)
Fold(events, from) == shown \o Later(events, Larger(from, Len(shown)))

Deliver(events, completed) ==
  /\ shown' = Fold(events, sent)
  /\ sent' = IF completed THEN 0 ELSE Larger(sent, Len(events))
  /\ told' = completed
  /\ stream' = IF completed THEN "closed" ELSE "open"

(* One round of _stream_trace: from the registry...                         *)
TickTrace ==
  /\ stream = "open" /\ trace # "absent"
  /\ Deliver(log, trace = "completed")
  /\ UNCHANGED <<vars, logVars, disk>>

(* ...or first restoring the registry's trace from the database...          *)
TickRestore ==
  /\ stream = "open" /\ trace = "absent" /\ Restorable
  /\ Restore
  /\ UNCHANGED <<vars, disk, streamVars>>

(* ...or from the rows of a run that is over...                             *)
TickRows ==
  /\ stream = "open" /\ trace = "absent" /\ ~Restorable /\ disk # <<>>
  /\ Deliver(disk, TRUE)
  /\ UNCHANGED <<vars, logVars, disk>>

(* ...or, without any event, from the job row: when it has ended, with a    *)
(* terminal event of the stream's own.  (Before, it only repeats the status.)*)
TickJob ==
  /\ stream = "open" /\ trace = "absent" /\ disk = <<>>
  /\ job[Followed] \in JobTerminal
  /\ Deliver(<<Synthetic>>, TRUE)
  /\ UNCHANGED <<vars, logVars, disk>>

Tick == TickTrace \/ TickRestore \/ TickRows \/ TickJob

-----------------------------------------------------------------------------
RunStep == TraceStart \/ (\E o \in Outcome : TraceFinish(o))

TraceNext ==
  \/ RunStep
  \/ Emit
  \/ Persist
  \/ TraceCancel
  \/ TraceCreateBatch
  \/ QueueStep
  \/ TraceShutdown
  \/ TraceDown
  \/ Connect
  \/ Disconnect
  \/ Tick

TraceSpec == TraceInit /\ [][TraceNext]_allVars

(* The fairness of JobQueue; the console reconnects for as long as it was   *)
(* not told the end, and the network lets a round through again and again.  *)
TraceFairness ==
  /\ WF_allVars(RunStep)
  /\ WF_allVars(QueueStep)
  /\ WF_allVars(Stopped /\ TraceDown)
  /\ WF_allVars(Connect)
  /\ SF_allVars(Tick)

FairTraceSpec == TraceSpec /\ TraceFairness

-----------------------------------------------------------------------------
(* Properties.                                                              *)

EpochOf == 0 .. (MaxAttempts + MaxCrashes)

(* Types; and the flag the queue acts on is that of the trace.              *)
TraceTypeOK ==
  /\ trace \in {"absent", "open", "completed"}
  /\ log \in Seq(EpochOf) /\ disk \in Seq(EpochOf) /\ shown \in Seq(EpochOf)
  /\ asked \in BOOLEAN /\ told \in BOOLEAN
  /\ stream \in {"closed", "open"} /\ sent \in 0 .. Len(shown)
  /\ exec[Followed] \in {"running", "unwinding"} => trace = "open" /\ flag[Followed] = asked

(* A run that is executed once by a process that stays up is shown whole:   *)
(* whatever disconnects the console, its list is a beginning of the log,    *)
(* and it is the whole log when the console stops.                          *)
ShownWhole ==
  attempts[Followed] <= 1 /\ crashes = 0 /\ trace # "absent" =>
    /\ IsPrefix(shown, log)
    /\ told => shown = log

(* The stream of a job that ended comes to an end, after retries, crashes   *)
(* and restarts; except that of a job cancelled after a crash, whose        *)
(* restored trace nobody completes.                                         *)
StreamEnds ==
  job[Followed] \in JobTerminal ~> told \/ (crashes > 0 /\ job[Followed] = "cancelled")

(* The log of a run and the console that follows it agree.                  *)
TraceSafe == TraceTypeOK /\ ShownWhole
=============================================================================
