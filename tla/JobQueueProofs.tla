--------------------------- MODULE JobQueueProofs ---------------------------
(***************************************************************************)
(* For every set of runs, every max_attempts, every worker concurrency and *)
(* any number of crashes and restarts: what holds of the durable queue,    *)
(* and of the trace of a run that the queue executes.                      *)
(*   TypeCorrect, AttemptsAreBounded, NeverClaimedTwice,                   *)
(*   BatchStaysInStep, EndedJobsStay    JobQueue,  by IInv                 *)
(*   TraceIsSafe                        RunTrace,  by TraceInv             *)
(*                                                                         *)
(* IInv adds Held: a run that has a task has a row that nobody can claim,  *)
(* and a process that is down has no task; and Bounded: a row that can be  *)
(* claimed has an attempt left.                                            *)
(***************************************************************************)
EXTENDS RunTrace, SequenceTheorems, TLAPS

Held ==
  /\ \A r \in Run : exec[r] # "none" => job[r] \in {"running", "cancelled"}
  /\ \A r \in Run : exec[r] = "returned" => outcome[r] # ""
  /\ \A r \in creating : job[r] = "absent"
  /\ batch = "absent" => creating = {} /\ \A r \in Run : job[r] = "absent"
  /\ up = "down" => \A r \in Run : exec[r] = "none"

Bounded ==
  \A r \in Run : /\ attempts[r] <= MaxAttempts
                 /\ Claimable(job[r]) \/ job[r] = "absent" => attempts[r] < MaxAttempts

IInv == TypeOK /\ Held /\ Bounded

-----------------------------------------------------------------------------
(* The effect of the helpers that write rows.                               *)

(* A batch that exists always has a status other than "absent".             *)
LEMMA RefreshedType ==
  ASSUME NEW s, NEW f
  PROVE  Refreshed(s, f) \in BatchStatus \ {"absent"}
BY DEF Refreshed, BatchStatus

(* SitesBecome keeps the rows well typed and the batch in step.             *)
LEMMA SitesBecomeEffect ==
  ASSUME TypeOK, NEW rs, NEW s \in SiteStatus, SitesBecome(rs, s)
  PROVE  /\ site' \in [Run -> SiteStatus]
         /\ final' \in [Run -> SiteStatus \cup {""}]
         /\ batch' \in BatchStatus \ {"absent"}
         /\ batch' = Refreshed(site', final')
BY RefreshedType DEF TypeOK, SitesBecome

(* SiteRunning too: a batch with a running row is running.                  *)
LEMMA SiteRunningEffect ==
  ASSUME TypeOK, NEW r \in Run, SiteRunning(r)
  PROVE  /\ site' \in [Run -> SiteStatus]
         /\ final' \in [Run -> SiteStatus \cup {""}]
         /\ batch' \in BatchStatus \ {"absent"}
         /\ batch' = Refreshed(site', final')
<1>1. site'[r] = "running" /\ batch' = "running" /\ final' = final
  BY DEF TypeOK, SiteRunning
<1>2. Refreshed(site', final') = "running"
  BY <1>1 DEF Refreshed
<1> QED
  BY <1>1, <1>2 DEF TypeOK, SiteRunning, SiteStatus, BatchStatus

(* The rows after a cancel endpoint's write: only active jobs change.       *)
LEMMA CancelRowsEffect ==
  ASSUME TypeOK, NEW r \in Run, CancelRowsOf(r)
  PROVE  /\ site' \in [Run -> SiteStatus]
         /\ final' \in [Run -> SiteStatus \cup {""}]
         /\ batch' \in BatchStatus
         /\ batch' = Refreshed(site', final') \/ UNCHANGED <<site, final, batch>>
         /\ batch' = "absent" => batch = "absent"
         /\ attempts' = attempts
         /\ \A q \in Run : job'[q] = Cancelled(job[q]) \/ job'[q] = job[q]
         /\ job' \in [Run -> JobStatus]
<1>1. CASE job[r] \in JobActive
  <2>1. SitesBecome({r}, "cancelled")
    BY <1>1 DEF CancelRowsOf
  <2>2. "cancelled" \in SiteStatus /\ "cancelled" \in JobStatus
    BY DEF SiteStatus, SiteTerminal, JobStatus, JobTerminal
  <2>3. /\ site' \in [Run -> SiteStatus]
        /\ final' \in [Run -> SiteStatus \cup {""}]
        /\ batch' \in BatchStatus \ {"absent"}
        /\ batch' = Refreshed(site', final')
    BY <2>1, <2>2, SitesBecomeEffect
  <2>4. job' = [job EXCEPT ![r] = "cancelled"] /\ UNCHANGED attempts
    BY <1>1 DEF CancelRowsOf, Cancelled
  <2> QED
    BY <1>1, <2>2, <2>3, <2>4 DEF Cancelled, TypeOK
<1>2. CASE job[r] \notin JobActive
  BY <1>2 DEF CancelRowsOf, rowVars, TypeOK
<1> QED
  BY <1>1, <1>2

(* RaiseFlag only ends tasks that had not begun.                            *)
LEMMA RaiseFlagEffect ==
  ASSUME TypeOK, NEW r \in Run, RaiseFlag(r)
  PROVE  /\ exec' \in [Run -> TaskState] /\ flag' \in [Run -> BOOLEAN]
         /\ outcome' = outcome
         /\ \A q \in Run : exec'[q] = exec[q] \/ exec'[q] = "none"
BY DEF TypeOK, RaiseFlag, TaskState

(* So does the teardown loop.                                               *)
LEMMA SweepEffect ==
  ASSUME TypeOK, NEW rs \in SUBSET Run, SweepOn(rs)
  PROVE  /\ exec' \in [Run -> TaskState] /\ flag' \in [Run -> BOOLEAN]
         /\ outcome' = outcome
         /\ at' \in Run \cup {None} /\ sweep' \in SUBSET Run
         /\ \A q \in Run : exec'[q] = exec[q] \/ exec'[q] = "none"
<1>1. CASE {r \in rs : ~TaskEnded(r)} = {}
  BY <1>1 DEF SweepOn, taskVars, TypeOK
<1>2. CASE {r \in rs : ~TaskEnded(r)} # {}
  <2>1. PICK r \in rs, rest \in SUBSET rs : at' = r /\ sweep' = rest /\ RaiseFlag(r)
    BY <1>2 DEF SweepOn
  <2> QED
    BY <2>1, RaiseFlagEffect
<1> QED
  BY <1>1, <1>2

(* What Conclude writes in the site row and the batch.                      *)
LEMMA ConcludeEffect ==
  ASSUME TypeOK, Held, NEW r \in Run, Conclude(r)
  PROVE  /\ site' \in [Run -> SiteStatus]
         /\ final' \in [Run -> SiteStatus \cup {""}]
         /\ batch' \in BatchStatus \ {"absent"}
         /\ batch' = Refreshed(site', final')
<1>1. PICK s \in SiteStatus : SitesBecome({r}, s) \/ SiteRunning(r)
  <2>1. outcome[r] \in Verdict \/ outcome[r] \in {"error", "cancelled"}
    BY DEF TypeOK, Held, Conclude, Outcome
  <2> QED
    BY <2>1 DEF Conclude, SiteAfter, SiteStatus, SiteTerminal
<1> QED
  BY <1>1, SitesBecomeEffect, SiteRunningEffect

(* The job row that Conclude writes, for a task whose row is held.          *)
LEMMA JobAfterEffect ==
  ASSUME TypeOK, Held, NEW r \in Run, exec[r] = "returned"
  PROVE  /\ JobAfter(r) \in {"cancelled", "succeeded", "dead_letter", "retrying"}
         /\ job[r] = "cancelled" => JobAfter(r) = "cancelled"
         /\ JobAfter(r) = "retrying" => attempts[r] < MaxAttempts
<1>1. job[r] \in {"running", "cancelled"}
  BY DEF Held
<1>2. attempts[r] \in Nat /\ MaxAttempts \in Nat
  BY JobQueueAssumption DEF TypeOK
<1> QED
  BY <1>1, <1>2 DEF JobAfter, Cancelled, Succeeded, Failed, Exhausted, JobActive

-----------------------------------------------------------------------------
(* The inductive invariant.                                                 *)

(* It holds at the start.                                                   *)
LEMMA InitIInv == Init => IInv
<1> SUFFICES ASSUME Init PROVE IInv
  OBVIOUS
<1>1. MaxAttempts \in Nat /\ 0 < MaxAttempts /\ 0 \in 0 .. MaxCrashes
  BY JobQueueAssumption
<1>2. TypeOK
  <2>1. /\ "absent" \in JobStatus /\ "absent" \in SiteStatus /\ "absent" \in BatchStatus
        /\ "none" \in TaskState /\ "" \in Outcome
    BY DEF JobStatus, SiteStatus, BatchStatus, Outcome, TaskState
  <2> QED
    BY <1>1, <2>1 DEF Init, TypeOK
<1>3. Held
  BY DEF Init, Held
<1>4. Bounded
  <2> SUFFICES ASSUME NEW r \in Run PROVE attempts[r] <= MaxAttempts /\ attempts[r] < MaxAttempts
    BY DEF Bounded
  <2>1. attempts[r] = 0
    BY DEF Init
  <2> QED
    BY <1>1, <2>1
<1> QED
  BY <1>2, <1>3, <1>4 DEF IInv

(* Creating a batch and its jobs.                                           *)
LEMMA NextCreate ==
  ASSUME IInv, CreateBatch \/ \E r \in Run : Enqueue(r)
  PROVE  IInv'
<1> USE DEF IInv, callVars, taskVars, procVars
<1>1. CASE CreateBatch
  <2>1. TypeOK'
    BY <1>1 DEF CreateBatch, TypeOK, SiteStatus, BatchStatus
  <2>2. Held'
    BY <1>1 DEF CreateBatch, Held
  <2>3. Bounded'
    BY <1>1 DEF CreateBatch, Bounded
  <2> QED
    BY <2>1, <2>2, <2>3
<1>2. ASSUME NEW r \in Run, Enqueue(r) PROVE IInv'
  <2>1. TypeOK'
    BY <1>2 DEF Enqueue, TypeOK, JobStatus, JobActive
  <2>2. job[r] = "absent" /\ exec[r] = "none" /\ batch # "absent"
    BY <1>2 DEF Enqueue, Held
  <2>3. Held'
    BY <1>2, <2>2 DEF Enqueue, Held, TypeOK
  <2>4. Bounded'
    BY <1>2, <2>2 DEF Enqueue, Bounded, TypeOK, Claimable
  <2> QED
    BY <2>1, <2>3, <2>4
<1> QED
  BY <1>1, <1>2

(* Claiming and executing a job.                                            *)
LEMMA NextExecute ==
  ASSUME IInv, NEW r \in Run,
         Claim(r) \/ Start(r) \/ (\E o \in Outcome : Finish(r, o)) \/ Conclude(r) \/ CancelTask(r)
  PROVE  IInv'
<1> USE DEF IInv, callVars, taskVars, procVars, rowVars
<1>0. {"none", "created", "running", "unwinding", "returned"} \subseteq TaskState
  BY DEF TaskState
<1>1. CASE Claim(r)
  <2>1. /\ site' \in [Run -> SiteStatus]
        /\ final' \in [Run -> SiteStatus \cup {""}]
        /\ batch' \in BatchStatus \ {"absent"}
    BY <1>1, SiteRunningEffect DEF Claim
  <2>2. /\ job[r] \in {"queued", "retrying"} /\ up = "up"
        /\ job' = [job EXCEPT ![r] = "running"]
        /\ attempts' = [attempts EXCEPT ![r] = @ + 1]
        /\ exec' = [exec EXCEPT ![r] = "created"]
        /\ UNCHANGED <<outcome, flag, callVars, procVars>>
    BY <1>1 DEF Claim, ClaimRow, Claimable
  <2>3. "running" \in JobStatus
    BY DEF JobStatus, JobActive
  <2>4. TypeOK'
    <3>1. job' \in [Run -> JobStatus] /\ exec' \in [Run -> TaskState]
      BY <1>0, <2>2, <2>3 DEF TypeOK
    <3>2. attempts[r] + 1 \in Nat
      <4>1. attempts[r] \in Nat
        BY DEF TypeOK
      <4> QED
        BY <4>1
    <3>3. attempts' \in [Run -> Nat]
      BY <2>2, <3>2 DEF TypeOK
    <3> QED
      BY <2>1, <2>2, <3>1, <3>3 DEF TypeOK
  <2>5. Held'
    BY <2>1, <2>2 DEF Held, TypeOK
  <2>6. Bounded'
    <3>1. attempts[r] \in Nat /\ MaxAttempts \in Nat /\ attempts[r] < MaxAttempts
      BY <2>2, JobQueueAssumption DEF Bounded, TypeOK, Claimable
    <3>2. attempts[r] + 1 <= MaxAttempts
      BY <3>1
    <3> QED
      BY <2>2, <3>1, <3>2 DEF Bounded, TypeOK, Claimable
  <2> QED
    BY <2>4, <2>5, <2>6
<1>2. CASE Start(r)
  <2>1. TypeOK'
    BY <1>0, <1>2 DEF Start, TypeOK
  <2>2. Held' /\ Bounded'
    BY <1>2 DEF Start, Held, Bounded, TypeOK
  <2> QED
    BY <2>1, <2>2
<1>3. ASSUME NEW o \in Outcome, Finish(r, o) PROVE IInv'
  <2>1. TypeOK'
    BY <1>0, <1>3 DEF Finish, TypeOK
  <2>2. o # ""
    BY <1>3, JobQueueAssumption DEF Finish
  <2>3. Held' /\ Bounded'
    BY <1>3, <2>2 DEF Finish, Held, Bounded, TypeOK
  <2> QED
    BY <2>1, <2>3
<1>4. CASE Conclude(r)
  <2>1. /\ site' \in [Run -> SiteStatus]
        /\ final' \in [Run -> SiteStatus \cup {""}]
        /\ batch' \in BatchStatus \ {"absent"}
    BY <1>4, ConcludeEffect
  <2>2. exec[r] = "returned" /\ job[r] \in {"running", "cancelled"} /\ r \notin creating
    BY <1>4 DEF Conclude, Held
  <2>3. PICK j : /\ j \in {"cancelled", "succeeded", "dead_letter", "retrying"}
                 /\ j = "retrying" => attempts[r] < MaxAttempts
                 /\ job' = [job EXCEPT ![r] = j]
    BY <1>4, <2>2, JobAfterEffect DEF Conclude
  <2>4. /\ exec' = [exec EXCEPT ![r] = "none"]
        /\ outcome' = [outcome EXCEPT ![r] = ""]
        /\ flag' = [flag EXCEPT ![r] = FALSE]
        /\ UNCHANGED <<attempts, callVars, procVars>>
    BY <1>4 DEF Conclude
  <2>5. "" \in Outcome /\ j \in JobStatus
    BY <2>3 DEF Outcome, JobStatus, JobActive, JobTerminal
  <2>6. TypeOK'
    BY <1>0, <2>1, <2>3, <2>4, <2>5 DEF TypeOK
  <2>7. Held'
    BY <2>1, <2>2, <2>3, <2>4 DEF Held, TypeOK
  <2>8. Bounded'
    BY <2>2, <2>3, <2>4 DEF Bounded, TypeOK, Claimable
  <2> QED
    BY <2>6, <2>7, <2>8
<1>5. CASE CancelTask(r)
  <2>1. TypeOK'
    BY <1>0, <1>5 DEF CancelTask, TypeOK
  <2>2. Held' /\ Bounded'
    BY <1>5 DEF CancelTask, Held, Bounded, TypeOK
  <2> QED
    BY <2>1, <2>2
<1> QED
  BY <1>1, <1>2, <1>3, <1>4, <1>5

(* A step in which tasks only end and jobs only become cancelled.           *)
LEMMA NextWind ==
  ASSUME IInv, TypeOK',
         \A q \in Run : job'[q] = Cancelled(job[q]) \/ job'[q] = job[q],
         \A q \in Run : exec'[q] \in {exec[q], "none"},
         \A q \in Run : exec'[q] # "none" => outcome'[q] = outcome[q],
         batch' = "absent" => batch = "absent",
         attempts' = attempts, creating' \subseteq creating,
         up' = up \/ \A q \in Run : exec'[q] = "none"
  PROVE  IInv'
<1>1. \A q \in Run : job'[q] = job[q] \/ (job[q] # "absent" /\ job'[q] = "cancelled")
  BY DEF Cancelled, JobActive
<1>2. Held'
  <2>1. \A q \in Run : exec'[q] # "none" => job'[q] \in {"running", "cancelled"}
    BY <1>1 DEF IInv, Held
  <2>2. \A q \in Run : exec'[q] = "returned" => outcome'[q] # ""
    BY DEF IInv, Held
  <2>3. \A q \in creating' : job'[q] = "absent"
    BY <1>1, ZenonT(40) DEF IInv, Held, TypeOK
  <2>4. batch' = "absent" => creating' = {} /\ \A q \in Run : job'[q] = "absent"
    BY <1>1 DEF IInv, Held
  <2>5. up' = "down" => \A q \in Run : exec'[q] = "none"
    BY DEF IInv, Held
  <2> QED
    BY <2>1, <2>2, <2>3, <2>4, <2>5 DEF Held
<1>3. Bounded'
  BY <1>1 DEF IInv, Bounded, Claimable
<1> QED
  BY <1>2, <1>3 DEF IInv

(* The cancel endpoints.                                                    *)
LEMMA NextCancel ==
  ASSUME IInv,
         \/ \E r \in Run : CancelIdle(r) \/ CancelRun(r) \/ CancelRows(r)
         \/ CancelActive \/ CancelBatch \/ SweepNext
  PROVE  IInv'
<1> USE DEF IInv, callVars, taskVars, procVars, rowVars
<1>1. ASSUME NEW r \in Run, CancelIdle(r) \/ CancelRows(r) PROVE IInv'
  <2>1. CancelRowsOf(r) /\ UNCHANGED <<taskVars, creating, at, sweep, procVars>>
        /\ single' \in SUBSET Run
    BY <1>1 DEF CancelIdle, CancelRows, TypeOK
  <2>2. /\ site' \in [Run -> SiteStatus]
        /\ final' \in [Run -> SiteStatus \cup {""}]
        /\ batch' \in BatchStatus
        /\ batch' = "absent" => batch = "absent"
        /\ attempts' = attempts
        /\ \A q \in Run : job'[q] = Cancelled(job[q]) \/ job'[q] = job[q]
        /\ job' \in [Run -> JobStatus]
    BY <2>1, CancelRowsEffect
  <2>3. TypeOK'
    BY <2>1, <2>2 DEF TypeOK
  <2> QED
    BY <2>1, <2>2, <2>3, NextWind
<1>2. ASSUME NEW r \in Run, CancelRun(r) PROVE IInv'
  <2>1. /\ exec' \in [Run -> TaskState] /\ flag' \in [Run -> BOOLEAN]
        /\ outcome' = outcome
        /\ \A q \in Run : exec'[q] = exec[q] \/ exec'[q] = "none"
    BY <1>2, RaiseFlagEffect DEF CancelRun
  <2>2. UNCHANGED <<rowVars, creating, at, sweep, procVars>> /\ single' \in SUBSET Run
    BY <1>2 DEF CancelRun, TypeOK
  <2>3. TypeOK'
    BY <2>1, <2>2 DEF TypeOK
  <2> QED
    BY <2>1, <2>2, <2>3, NextWind
<1>3. ASSUME NEW rs \in SUBSET Run, SweepOn(rs), UNCHANGED <<attempts, creating, single, procVars>>,
             job' \in [Run -> JobStatus],
             \A q \in Run : job'[q] = Cancelled(job[q]) \/ job'[q] = job[q],
             site' \in [Run -> SiteStatus], final' \in [Run -> SiteStatus \cup {""}],
             batch' \in BatchStatus, batch' = "absent" => batch = "absent"
      PROVE  IInv'
  <2>1. /\ exec' \in [Run -> TaskState] /\ flag' \in [Run -> BOOLEAN]
        /\ outcome' = outcome
        /\ at' \in Run \cup {None} /\ sweep' \in SUBSET Run
        /\ \A q \in Run : exec'[q] = exec[q] \/ exec'[q] = "none"
    BY <1>3, SweepEffect
  <2>2. TypeOK'
    BY <1>3, <2>1 DEF TypeOK
  <2> QED
    BY <1>3, <2>1, <2>2, NextWind
<1>4. "cancelled" \in SiteStatus /\ \A q \in Run : Cancelled(job[q]) \in JobStatus
  BY DEF SiteStatus, SiteTerminal, Cancelled, JobStatus, JobTerminal, TypeOK
<1>5. CASE CancelActive
  <2>1. /\ SweepOn(Active \cup {r \in Run : ~TaskEnded(r)})
        /\ Active \cup {r \in Run : ~TaskEnded(r)} \in SUBSET Run
        /\ job' = [r \in Run |-> Cancelled(job[r])]
        /\ UNCHANGED <<attempts, creating, single, procVars>>
    BY <1>5 DEF CancelActive, Active
  <2>2. /\ site' \in [Run -> SiteStatus] /\ final' \in [Run -> SiteStatus \cup {""}]
        /\ batch' \in BatchStatus /\ (batch' = "absent" => batch = "absent")
    <3>1. CASE Active = {}
      BY <1>5, <3>1 DEF CancelActive, TypeOK
    <3>2. CASE Active # {}
      BY <1>4, <1>5, <3>2, SitesBecomeEffect DEF CancelActive
    <3> QED
      BY <3>1, <3>2
  <2> QED
    BY <1>3, <1>4, <2>1, <2>2
<1>6. CASE CancelBatch
  <2>1. /\ SweepOn(Open) /\ Open \in SUBSET Run
        /\ job' = [r \in Run |-> IF r \in Open THEN Cancelled(job[r]) ELSE job[r]]
        /\ UNCHANGED <<attempts, creating, single, procVars>>
    BY <1>6 DEF CancelBatch, Open
  <2>2. job' \in [Run -> JobStatus] /\ \A q \in Run : job'[q] = Cancelled(job[q]) \/ job'[q] = job[q]
    BY <1>4, <2>1 DEF TypeOK
  <2>3. /\ site' \in [Run -> SiteStatus] /\ final' \in [Run -> SiteStatus \cup {""}]
        /\ batch' \in BatchStatus \ {"absent"}
    BY <1>4, <1>6, SitesBecomeEffect DEF CancelBatch
  <2> QED
    BY <1>3, <2>1, <2>2, <2>3
<1>7. CASE SweepNext
  <2>1. SweepOn(sweep) /\ sweep \in SUBSET Run /\ UNCHANGED <<rowVars, creating, single, procVars>>
    BY <1>7 DEF SweepNext, TypeOK
  <2> QED
    BY <1>3, <2>1 DEF TypeOK
<1> QED
  BY <1>1, <1>2, <1>5, <1>6, <1>7

(* Crash, shutdown and restart of the process.                              *)
LEMMA NextProcess ==
  ASSUME IInv,
         \/ Crash \/ CrashInCancel \/ Shutdown \/ Stopped
         \/ \E r \in Run : CrashInClaim(r) \/ CrashInConclude(r)
         \/ \E stale \in SUBSET Run : Restart(stale)
  PROVE  IInv'
<1> USE DEF IInv, callVars, taskVars, procVars, rowVars
<1>1. "none" \in TaskState /\ "unwinding" \in TaskState /\ "" \in Outcome
        /\ "cancelled" \in SiteStatus
  BY DEF TaskState, Outcome, SiteStatus, SiteTerminal
<1>2. ASSUME crashes < MaxCrashes PROVE crashes + 1 \in 0 .. MaxCrashes
  <2>1. crashes \in 0 .. MaxCrashes /\ MaxCrashes \in Nat
    <3>1. crashes \in 0 .. MaxCrashes
      BY DEF TypeOK
    <3> QED
      BY <3>1, JobQueueAssumption
  <2> QED
    BY <1>2, <2>1
<1>3. ASSUME GoDown, crashes' \in 0 .. MaxCrashes,
             job' \in [Run -> JobStatus], attempts' \in [Run -> Nat],
             site' \in [Run -> SiteStatus], final' \in [Run -> SiteStatus \cup {""}],
             batch' \in BatchStatus
      PROVE  TypeOK'
  BY <1>1, <1>3 DEF GoDown, TypeOK
<1>4. CASE Crash
  <2>1. TypeOK'
    BY <1>2, <1>3, <1>4 DEF Crash, TypeOK
  <2> QED
    BY <1>4, <2>1, NextWind DEF Crash, GoDown
<1>5. CASE CrashInCancel
  <2>1. PICK js \in SUBSET Run, ss \in SUBSET Run :
          /\ job' = [r \in Run |-> IF r \in js THEN Cancelled(job[r]) ELSE job[r]]
          /\ IF ss = {} THEN UNCHANGED <<site, final, batch>> ELSE SitesBecome(ss, "cancelled")
    BY <1>5 DEF CrashInCancel
  <2>2. /\ site' \in [Run -> SiteStatus] /\ final' \in [Run -> SiteStatus \cup {""}]
        /\ batch' \in BatchStatus /\ (batch' = "absent" => batch = "absent")
    BY <1>1, <2>1, SitesBecomeEffect DEF TypeOK
  <2>3. \A q \in Run : Cancelled(job[q]) \in JobStatus
    BY DEF Cancelled, JobStatus, JobTerminal, TypeOK
  <2>4. job' \in [Run -> JobStatus] /\ \A q \in Run : job'[q] = Cancelled(job[q]) \/ job'[q] = job[q]
    BY <2>1, <2>3 DEF TypeOK
  <2>5. GoDown /\ UNCHANGED attempts /\ crashes' \in 0 .. MaxCrashes
    BY <1>2, <1>5 DEF CrashInCancel
  <2>6. TypeOK'
    BY <1>3, <2>2, <2>4, <2>5 DEF TypeOK
  <2> QED
    BY <2>2, <2>4, <2>5, <2>6, NextWind DEF GoDown
<1>6. CASE Shutdown
  <2>1. exec' \in [Run -> TaskState] /\ outcome' \in [Run -> Outcome]
    <3>1. PICK kept \in SUBSET {r \in Run : exec[r] = "returned"} :
            /\ exec' = [r \in Run |-> IF exec[r] \in {"running", "unwinding"} THEN "unwinding"
                                      ELSE IF r \in kept THEN "returned" ELSE "none"]
            /\ outcome' = [r \in Run |-> IF r \in kept THEN outcome[r] ELSE ""]
      BY <1>6 DEF Shutdown
    <3>2. "returned" \in TaskState
      BY DEF TaskState
    <3> QED
      BY <1>1, <3>1, <3>2 DEF TypeOK
  <2>2. TypeOK'
    BY <1>1, <1>2, <1>6, <2>1 DEF Shutdown, TypeOK
  <2>3. Held' /\ Bounded'
    BY <1>6 DEF Shutdown, Held, Bounded, TypeOK
  <2> QED
    BY <2>2, <2>3
<1>7. CASE Stopped
  <2>1. TypeOK'
    BY <1>3, <1>7 DEF Stopped, TypeOK
  <2> QED
    BY <1>7, <2>1, NextWind DEF Stopped, GoDown
<1>8. ASSUME NEW r \in Run, CrashInClaim(r) PROVE IInv'
  <2>1. /\ job[r] \in {"queued", "retrying"}
        /\ job' = [job EXCEPT ![r] = "running"]
        /\ attempts' = [attempts EXCEPT ![r] = @ + 1]
        /\ UNCHANGED <<site, final, batch>>
        /\ GoDown /\ crashes' \in 0 .. MaxCrashes
    BY <1>2, <1>8 DEF CrashInClaim, ClaimRow, Claimable
  <2>2. "running" \in JobStatus
    BY DEF JobStatus, JobActive
  <2>3. job' \in [Run -> JobStatus]
    BY <2>1, <2>2 DEF TypeOK
  <2>4. attempts' \in [Run -> Nat]
    <3>1. attempts[r] + 1 \in Nat
      <4>1. attempts[r] \in Nat
        BY DEF TypeOK
      <4> QED
        BY <4>1
    <3> QED
      BY <2>1, <3>1 DEF TypeOK
  <2>5. TypeOK'
    BY <1>3, <2>1, <2>3, <2>4 DEF TypeOK
  <2>6. Held'
    BY <2>1 DEF Held, TypeOK, GoDown
  <2>7. Bounded'
    <3>1. attempts[r] \in Nat /\ MaxAttempts \in Nat /\ attempts[r] < MaxAttempts
      BY <2>1, JobQueueAssumption DEF Bounded, TypeOK, Claimable
    <3>2. attempts[r] + 1 <= MaxAttempts
      BY <3>1
    <3> QED
      BY <2>1, <3>1, <3>2 DEF Bounded, TypeOK, Claimable
  <2> QED
    BY <2>5, <2>6, <2>7
<1>9. ASSUME NEW r \in Run, CrashInConclude(r) PROVE IInv'
  <2>1. exec[r] = "returned" /\ job[r] \in {"running", "cancelled"}
    BY <1>9 DEF CrashInConclude, Held
  <2>2. PICK j : /\ j \in {"cancelled", "succeeded", "dead_letter", "retrying"}
                 /\ j = "retrying" => attempts[r] < MaxAttempts
                 /\ job' = [job EXCEPT ![r] = j]
    BY <1>9, <2>1, JobAfterEffect DEF CrashInConclude
  <2>3. GoDown /\ UNCHANGED <<attempts, site, final, batch>> /\ crashes' \in 0 .. MaxCrashes
    BY <1>2, <1>9 DEF CrashInConclude
  <2>4. j \in JobStatus
    BY <2>2 DEF JobStatus, JobActive, JobTerminal
  <2>5. job' \in [Run -> JobStatus]
    BY <2>2, <2>4 DEF TypeOK
  <2>6. TypeOK'
    BY <1>3, <2>3, <2>5 DEF TypeOK
  <2>7. Held'
    BY <2>1, <2>2, <2>3 DEF Held, TypeOK, GoDown
  <2>8. Bounded'
    BY <2>1, <2>2, <2>3 DEF Bounded, TypeOK, Claimable
  <2> QED
    BY <2>6, <2>7, <2>8
<1>10. ASSUME NEW stale \in SUBSET Run, Restart(stale) PROVE IInv'
  <2>1. /\ up = "down" /\ up' = "up"
        /\ UNCHANGED <<attempts, site, final, batch, taskVars, callVars, crashes>>
        /\ job' = [r \in Run |-> IF r \in stale /\ job[r] = "running"
                                  THEN Failed(job[r], attempts[r]) ELSE job[r]]
    BY <1>10 DEF Restart, Recovered
  <2>2. \A r \in Run : \/ job'[r] = job[r]
                       \/ job'[r] = "dead_letter" /\ job[r] = "running"
                       \/ job'[r] = "retrying" /\ job[r] = "running" /\ attempts[r] < MaxAttempts
    <3> SUFFICES ASSUME NEW r \in Run, job[r] = "running"
                 PROVE  \/ Failed(job[r], attempts[r]) = "dead_letter"
                        \/ Failed(job[r], attempts[r]) = "retrying" /\ attempts[r] < MaxAttempts
      BY <2>1
    <3>1. attempts[r] \in Nat /\ MaxAttempts \in Nat
      BY JobQueueAssumption DEF TypeOK
    <3> QED
      BY <3>1 DEF Failed, Exhausted
  <2>3. job' \in [Run -> JobStatus]
    <3>1. "dead_letter" \in JobStatus /\ "retrying" \in JobStatus
      BY DEF JobStatus, JobActive, JobTerminal
    <3> QED
      BY <2>1, <2>2, <3>1 DEF TypeOK
  <2>4. TypeOK'
    BY <2>1, <2>3 DEF TypeOK
  <2>5. Held'
    BY <2>1, <2>2 DEF Held, TypeOK
  <2>6. Bounded'
    BY <2>1, <2>2 DEF Bounded, Claimable
  <2> QED
    BY <2>4, <2>5, <2>6
<1> QED
  BY <1>4, <1>5, <1>6, <1>7, <1>8, <1>9, <1>10

(* Every step keeps the inductive invariant.                                *)
LEMMA NextIInv == IInv /\ [Next]_vars => IInv'
<1> SUFFICES ASSUME IInv, [Next]_vars PROVE IInv'
  OBVIOUS
<1>1. ASSUME NEW r \in Run, WorkerStep(r) PROVE IInv'
  BY <1>1, NextExecute, NextCancel DEF WorkerStep
<1>2. CASE UNCHANGED vars
  BY <1>2 DEF vars, rowVars, taskVars, callVars, procVars, IInv, TypeOK, Held, Bounded
<1> QED
  BY <1>1, <1>2, NextCreate, NextExecute, NextCancel, NextProcess DEF Next

(* The inductive invariant holds in every state.                            *)
THEOREM IInvHolds == Spec => []IInv
BY InitIInv, NextIInv, PTL DEF Spec

(* Type correctness.                                                        *)
THEOREM TypeCorrect == Spec => []TypeOK
<1>1. IInv => TypeOK
  BY DEF IInv
<1> QED
  BY <1>1, IInvHolds, PTL

(* No job is ever attempted more than max_attempts times: claim_next does   *)
(* not look at the counter, so mark_failed, the restart sweep and every     *)
(* crash in between have to leave an attempt for whoever claims next.       *)
THEOREM AttemptsAreBounded == Spec => []AttemptsBounded
<1>1. IInv => AttemptsBounded
  BY DEF IInv, Bounded, AttemptsBounded
<1> QED
  BY <1>1, IInvHolds, PTL

(* No run that still has a task is claimed a second time.                   *)
THEOREM NeverClaimedTwice == Spec => NotClaimedTwice
<1>1. ASSUME IInv, [Next]_vars, NEW r \in Run, attempts'[r] # attempts[r]
      PROVE  exec[r] = "none"
  <2>1. PICK q \in Run : ClaimRow(q)
    <3>1. UNCHANGED attempts \/ \E q \in Run : ClaimRow(q)
      <4> USE DEF vars, rowVars, taskVars, callVars, procVars
      <4>1. CASE CreateBatch \/ \E q \in Run : Enqueue(q)
        BY <4>1 DEF CreateBatch, Enqueue
      <4>2. CASE \E q \in Run : Claim(q) \/ CrashInClaim(q)
        BY <4>2 DEF Claim, CrashInClaim
      <4>3. ASSUME NEW q \in Run, WorkerStep(q) \/ CancelIdle(q) \/ CancelRun(q)
            PROVE  UNCHANGED attempts
        BY <4>3 DEF WorkerStep, Start, Finish, Conclude, CancelTask, CancelRows, CancelIdle,
                    CancelRun, CancelRowsOf
      <4>4. CASE CancelActive \/ CancelBatch \/ SweepNext
        BY <4>4 DEF CancelActive, CancelBatch, SweepNext
      <4>5. CASE Crash \/ CrashInCancel \/ Shutdown \/ Stopped
        BY <4>5 DEF Crash, CrashInCancel, Shutdown, Stopped
      <4>6. CASE \E q \in Run : CrashInConclude(q)
        BY <4>6 DEF CrashInConclude
      <4>7. CASE \E stale \in SUBSET Run : Restart(stale)
        BY <4>7 DEF Restart, Recovered
      <4>8. CASE UNCHANGED vars
        BY <4>8
      <4> QED
        BY <1>1, <4>1, <4>2, <4>3, <4>4, <4>5, <4>6, <4>7, <4>8 DEF Next
    <3> QED
      BY <1>1, <3>1
  <2>2. q = r
    BY <1>1, <2>1 DEF ClaimRow, IInv, TypeOK
  <2> QED
    BY <1>1, <2>1, <2>2 DEF ClaimRow, Claimable, IInv, Held
<1>2. IInv /\ [Next]_vars
        => [\A r \in Run : attempts'[r] # attempts[r] => exec[r] = "none"]_vars
  BY <1>1
<1> QED
  BY <1>2, IInvHolds, PTL DEF Spec, NotClaimedTwice

-----------------------------------------------------------------------------
(* The batch, and the jobs that ended.                                      *)

(* Every step that writes a row of the batch refreshes the batch.           *)
LEMMA RowsRefresh ==
  ASSUME IInv, [Next]_vars
  PROVE  UNCHANGED <<site, final, batch>> \/ batch' = Refreshed(site', final')
<1> USE DEF vars, rowVars, taskVars, callVars, procVars
<1>0. TypeOK /\ Held /\ "cancelled" \in SiteStatus
  BY DEF IInv, SiteStatus, SiteTerminal
<1>1. CASE CreateBatch
  <2>1. batch' = "queued" /\ \A r \in Run : site'[r] = "queued"
    BY <1>1 DEF CreateBatch
  <2>2. Refreshed(site', final') = "queued"
    BY <2>1, JobQueueAssumption DEF Refreshed
  <2> QED
    BY <2>1, <2>2
<1>2. ASSUME NEW r \in Run, Enqueue(r) \/ CancelRun(r) \/ CrashInClaim(r) \/ CrashInConclude(r)
      PROVE  UNCHANGED <<site, final, batch>>
  BY <1>2 DEF Enqueue, CancelRun, CrashInClaim, CrashInConclude
<1>3. ASSUME NEW r \in Run, Claim(r) PROVE batch' = Refreshed(site', final')
  BY <1>0, <1>3, SiteRunningEffect DEF Claim
<1>4. ASSUME NEW r \in Run, Conclude(r) PROVE batch' = Refreshed(site', final')
  BY <1>0, <1>4, ConcludeEffect
<1>5. ASSUME NEW r \in Run, CancelRows(r) \/ CancelIdle(r)
      PROVE  UNCHANGED <<site, final, batch>> \/ batch' = Refreshed(site', final')
  BY <1>0, <1>5, CancelRowsEffect DEF CancelRows, CancelIdle
<1>6. ASSUME NEW r \in Run, Start(r) \/ (\E o \in Outcome : Finish(r, o)) \/ CancelTask(r)
      PROVE  UNCHANGED <<site, final, batch>>
  BY <1>6 DEF Start, Finish, CancelTask
<1>7. CASE CancelActive
  BY <1>0, <1>7, SitesBecomeEffect DEF CancelActive
<1>8. CASE CancelBatch
  BY <1>0, <1>8, SitesBecomeEffect DEF CancelBatch
<1>9. CASE SweepNext \/ Crash \/ Shutdown \/ Stopped \/ \E stale \in SUBSET Run : Restart(stale)
  BY <1>9 DEF SweepNext, Crash, Shutdown, Stopped, Restart, Recovered
<1>10. CASE CrashInCancel
  <2>1. PICK ss \in SUBSET Run :
          IF ss = {} THEN UNCHANGED <<site, final, batch>> ELSE SitesBecome(ss, "cancelled")
    BY <1>10 DEF CrashInCancel
  <2> QED
    BY <1>0, <2>1, SitesBecomeEffect
<1> QED
  BY <1>1, <1>2, <1>3, <1>4, <1>5, <1>6, <1>7, <1>8, <1>9, <1>10 DEF Next, WorkerStep

(* A batch always shows the status its rows have: every writer of           *)
(* dataset_site_runs, and a crash between any two commits, keep it in step. *)
THEOREM BatchStaysInStep == Spec => []BatchInStep
<1>1. Init => BatchInStep
  BY DEF Init, BatchInStep
<1>2. IInv /\ BatchInStep /\ [Next]_vars => BatchInStep'
  BY RowsRefresh DEF BatchInStep
<1> QED
  BY <1>1, <1>2, IInvHolds, PTL DEF Spec

(* Together: rows of their types, attempts within their bound, and a batch  *)
(* in step with its rows, through retries, cancellations and crashes.       *)
THEOREM QueueIsSafe == Spec => []QueueSafe
<1>1. TypeOK /\ AttemptsBounded /\ BatchInStep => QueueSafe
  BY DEF QueueSafe
<1> QED
  BY <1>1, TypeCorrect, AttemptsAreBounded, BatchStaysInStep, PTL

(* An ended job never changes its status again: not by the task that still  *)
(* runs it, a second cancel or the restart sweep.                           *)
THEOREM EndedJobsStay == Spec => TerminalIsFinal
<1> DEFINE Kept == \A r \in Run : job[r] \in JobTerminal => job'[r] = job[r]
<1>1. ASSUME IInv, [Next]_vars PROVE Kept
  <2> USE DEF vars, rowVars, taskVars, callVars, procVars
  <2>1. \A r \in Run : job[r] \in JobTerminal => Cancelled(job[r]) = job[r]
    BY DEF Cancelled, JobTerminal, JobActive
  <2>2. ASSUME NEW q \in Run, Enqueue(q) PROVE Kept
    <3>1. job[q] \notin JobTerminal
      BY <1>1, <2>2 DEF Enqueue, IInv, Held, JobTerminal
    <3> QED
      BY <1>1, <2>2, <3>1 DEF Enqueue, IInv, TypeOK
  <2>3. ASSUME NEW q \in Run, Claim(q) \/ CrashInClaim(q) PROVE Kept
    <3>1. ClaimRow(q) /\ job[q] \notin JobTerminal
      BY <2>3 DEF Claim, CrashInClaim, ClaimRow, Claimable, JobTerminal
    <3> QED
      BY <1>1, <3>1 DEF ClaimRow, IInv, TypeOK
  <2>4. ASSUME NEW q \in Run, Conclude(q) \/ CrashInConclude(q) PROVE Kept
    <3>1. exec[q] = "returned" /\ job' = [job EXCEPT ![q] = JobAfter(q)]
      BY <2>4 DEF Conclude, CrashInConclude
    <3>2. job[q] \in JobTerminal => job[q] = "cancelled" /\ JobAfter(q) = "cancelled"
      BY <1>1, <3>1, JobAfterEffect DEF IInv, Held, JobTerminal
    <3> QED
      BY <1>1, <3>1, <3>2 DEF IInv, TypeOK
  <2>5. ASSUME NEW q \in Run, CancelRows(q) \/ CancelIdle(q) PROVE Kept
    BY <1>1, <2>1, <2>5, CancelRowsEffect DEF CancelRows, CancelIdle, IInv
  <2>6. ASSUME NEW q \in Run,
               CancelRun(q) \/ Start(q) \/ (\E o \in Outcome : Finish(q, o)) \/ CancelTask(q)
        PROVE  Kept
    BY <2>6 DEF CancelRun, Start, Finish, CancelTask
  <2>7. CASE CreateBatch \/ SweepNext \/ Crash \/ Shutdown \/ Stopped
    BY <2>7 DEF CreateBatch, SweepNext, Crash, Shutdown, Stopped
  <2>8. CASE CancelActive \/ CancelBatch \/ CrashInCancel
    BY <2>1, <2>8 DEF CancelActive, CancelBatch, CrashInCancel
  <2>9. CASE \E stale \in SUBSET Run : Restart(stale)
    BY <2>9 DEF Restart, Recovered, JobTerminal
  <2>10. CASE UNCHANGED vars
    BY <2>10
  <2> QED
    BY <1>1, <2>2, <2>3, <2>4, <2>5, <2>6, <2>7, <2>8, <2>9, <2>10 DEF Next, WorkerStep
<1>2. IInv /\ [Next]_vars => [Kept]_vars
  BY <1>1
<1> QED
  BY <1>2, IInvHolds, PTL DEF Spec, TerminalIsFinal

-----------------------------------------------------------------------------
(* The trace of a run.  TraceSafe is not inductive: that the flag is the   *)
(* trace's holds because a new attempt finds it down, and a list is whole  *)
(* because a first attempt finds no trace.  TraceHeld says when the flag   *)
(* of a trace can be up, TraceOnce what has not happened yet as long as a  *)
(* run is executed once.                                                   *)

\* Of the run that is followed: its task's trace, when its flag is up, when it
\* can still begin.
TraceHeld ==
  /\ exec[Followed] = "returned" => trace = "completed"
  /\ trace = "open" /\ asked /\ exec[Followed] \notin {"running", "unwinding"} =>
       exec[Followed] = "none" /\ ~Claimable(job[Followed])
  /\ job[Followed] \in JobTerminal => exec[Followed] # "created"
  /\ exec[Followed] # "none" \/ disk # <<>> \/ trace # "absent" => attempts[Followed] >= 1
  /\ job[Followed] = "absent" => attempts[Followed] = 0
  /\ up # "up" => crashes > 0
  /\ up = "down" => trace = "absent"
  /\ stream = "open" => up = "up"

\* As long as a run is executed once by a process that stays up.
TraceOnce ==
  attempts[Followed] <= 1 /\ crashes = 0 =>
    /\ exec[Followed] = "created" => trace = "absent"
    /\ trace = "absent" => disk = <<>>
    /\ trace = "absent" /\ (told \/ shown # <<>>) => job[Followed] \in JobTerminal
    /\ trace # "absent" /\ told => trace = "completed"

TraceInv == IInv /\ TraceTypeOK /\ ShownWhole /\ TraceHeld /\ TraceOnce

\* A step of the run and its trace is a step of the queue, or none.
LEMMA TraceStepsQueue == TraceNext => [Next]_vars
<1> SUFFICES ASSUME TraceNext PROVE [Next]_vars
  OBVIOUS
<1>1. Followed \in Run
  BY RunTraceAssumption
<1>2. CASE RunStep
  BY <1>1, <1>2 DEF RunStep, TraceStart, TraceFinish, Next, WorkerStep
<1>3. CASE TraceCancel
  BY <1>1, <1>3 DEF TraceCancel, Next
<1>4. CASE QueueStep
  BY <1>1, <1>4 DEF QueueStep, Next, WorkerStep
<1>5. CASE TraceDown
  BY <1>1, <1>5 DEF TraceDown, Next
<1>6. CASE TraceCreateBatch \/ TraceShutdown
  BY <1>6 DEF TraceCreateBatch, TraceShutdown, Next
<1>7. CASE Emit \/ Persist \/ Connect \/ Disconnect \/ Tick
  BY <1>7 DEF Emit, Persist, Connect, Disconnect, Tick, TickTrace, TickRestore, TickRows, TickJob
<1> QED
  BY <1>2, <1>3, <1>4, <1>5, <1>6, <1>7 DEF TraceNext

-----------------------------------------------------------------------------
(* What the steps of the queue do to the run that is followed.             *)

\* A teardown loop reaches it or passes over it.
LEMMA SweepAlone ==
  ASSUME IInv, NEW rs \in SUBSET Run, SweepOn(rs)
  PROVE  /\ exec'[Followed] = IF Followed \in rs /\ exec[Followed] = "created" THEN "none"
                              ELSE exec[Followed]
         /\ Followed \in rs /\ exec[Followed] \in {"running", "unwinding"} => flag'[Followed] = TRUE
         /\ exec[Followed] \notin {"running", "unwinding"} => flag'[Followed] = flag[Followed]
<1>1. /\ Run = {Followed} /\ exec \in [Run -> TaskState] /\ flag \in [Run -> BOOLEAN]
  BY RunTraceAssumption DEF IInv, TypeOK
<1>2. CASE {r \in rs : ~TaskEnded(r)} = {}
  BY <1>1, <1>2 DEF SweepOn, taskVars, TaskEnded
<1>3. CASE {r \in rs : ~TaskEnded(r)} # {}
  <2>1. PICK r \in rs : RaiseFlag(r)
    BY <1>3 DEF SweepOn
  <2>2. r = Followed
    BY <1>1
  <2> QED
    BY <1>1, <2>1, <2>2 DEF RaiseFlag
<1> QED
  BY <1>2, <1>3

\* A cancel endpoint ends a task that had not begun, raises the flag of one that has,
\* and without a task ends the job.
LEMMA CancelAlone ==
  ASSUME IInv, TraceCancel
  PROVE  /\ exec'[Followed] = IF exec[Followed] = "created" THEN "none" ELSE exec[Followed]
         /\ exec[Followed] \in {"running", "unwinding"} => flag'[Followed] = TRUE
         /\ exec[Followed] = "none" => job'[Followed] \notin JobActive
         /\ job'[Followed] \in {job[Followed], Cancelled(job[Followed])}
         /\ attempts' = attempts /\ up' = up /\ crashes' = crashes
<1>1. /\ Run = {Followed} /\ exec \in [Run -> TaskState] /\ flag \in [Run -> BOOLEAN]
      /\ job \in [Run -> JobStatus]
  BY RunTraceAssumption DEF IInv, TypeOK
<1>2. Cancelled(job[Followed]) \notin JobActive
  BY DEF Cancelled, JobActive
<1>3. CASE CancelIdle(Followed)
  <2>1. CancelRowsOf(Followed) /\ UNCHANGED taskVars /\ UNCHANGED procVars /\ TaskEnded(Followed)
    BY <1>3 DEF CancelIdle
  <2>2. job'[Followed] = Cancelled(job[Followed]) /\ attempts' = attempts
    BY <1>1, <2>1 DEF CancelRowsOf, rowVars, Cancelled
  <2> QED
    BY <1>2, <2>1, <2>2 DEF taskVars, procVars, TaskEnded
<1>4. CASE CancelRun(Followed)
  BY <1>1, <1>4 DEF CancelRun, RaiseFlag, TaskEnded, rowVars, procVars
<1>5. CASE CancelActive /\ (Active # {} \/ ~TaskEnded(Followed))
  <2> DEFINE rs == Active \cup {r \in Run : ~TaskEnded(r)}
  <2>1. /\ SweepOn(rs) /\ rs \in SUBSET Run /\ job'[Followed] = Cancelled(job[Followed])
        /\ UNCHANGED attempts /\ UNCHANGED procVars
    BY <1>1, <1>5 DEF CancelActive, Active
  <2>2. exec[Followed] \in {"created", "running", "unwinding"} => Followed \in rs
    BY <1>1 DEF TaskEnded
  <2> HIDE DEF rs
  <2>3. /\ exec'[Followed] = IF Followed \in rs /\ exec[Followed] = "created" THEN "none"
                             ELSE exec[Followed]
        /\ Followed \in rs /\ exec[Followed] \in {"running", "unwinding"} => flag'[Followed] = TRUE
    BY <2>1, SweepAlone
  <2> QED
    BY <1>2, <2>1, <2>2, <2>3 DEF procVars
<1>6. CASE CancelBatch /\ Open # {}
  <2>1. Open = {Followed}
    BY <1>1, <1>6 DEF Open
  <2>2. /\ SweepOn(Open) /\ Open \in SUBSET Run /\ job'[Followed] = Cancelled(job[Followed])
        /\ UNCHANGED attempts /\ UNCHANGED procVars
    BY <1>1, <1>6, <2>1 DEF CancelBatch
  <2>3. /\ exec'[Followed] = IF Followed \in Open /\ exec[Followed] = "created" THEN "none"
                             ELSE exec[Followed]
        /\ Followed \in Open /\ exec[Followed] \in {"running", "unwinding"} => flag'[Followed] = TRUE
    BY <2>2, SweepAlone
  <2> QED
    BY <1>2, <2>1, <2>2, <2>3 DEF procVars
<1> QED
  BY <1>3, <1>4, <1>5, <1>6 DEF TraceCancel

\* The other steps of the queue claim its job, conclude or unwind its task, or write
\* rows of a job without one.
LEMMA QueueAlone ==
  ASSUME IInv, QueueStep
  PROVE  LET f == Followed
         IN  \/ /\ job[f] = "absent" /\ job'[f] = "queued" /\ exec'[f] = exec[f]
                /\ flag'[f] = flag[f] /\ UNCHANGED <<attempts, procVars>>
             \/ /\ Claimable(job[f]) /\ exec[f] = "none" /\ job'[f] = "running" /\ exec'[f] = "created"
                /\ attempts'[f] = attempts[f] + 1 /\ UNCHANGED procVars
             \/ /\ exec[f] = "returned" /\ exec'[f] = "none" /\ job'[f] # "absent"
                /\ job[f] \in JobTerminal => job'[f] \in JobTerminal
                /\ UNCHANGED <<attempts, procVars>>
             \/ /\ exec[f] = "running" /\ exec'[f] = "unwinding" /\ flag' = flag /\ job' = job
                /\ UNCHANGED <<attempts, procVars>>
             \/ /\ job'[f] \in {job[f], Cancelled(job[f])} /\ exec[f] \in {"none", "returned"}
                /\ exec' = exec /\ flag' = flag /\ UNCHANGED <<attempts, procVars>>
             \/ /\ exec' = exec /\ flag' = flag /\ job' = job /\ UNCHANGED <<attempts, procVars>>
             \/ /\ up = "down" /\ up' = "up" /\ exec[f] = "none" /\ exec' = exec /\ flag' = flag
                /\ job'[f] = "absent" <=> job[f] = "absent"
                /\ job[f] \in JobTerminal => job'[f] = job[f]
                /\ crashes' = crashes /\ attempts' = attempts
<1>1. /\ Run = {Followed} /\ exec \in [Run -> TaskState] /\ flag \in [Run -> BOOLEAN]
      /\ job \in [Run -> JobStatus] /\ attempts \in [Run -> Nat]
  BY RunTraceAssumption DEF IInv, TypeOK
<1>2. /\ exec[Followed] # "none" => job[Followed] \in {"running", "cancelled"}
      /\ up = "down" => exec[Followed] = "none"
  BY <1>1 DEF IInv, Held
<1>3. CASE Enqueue(Followed)
  <2>1. job[Followed] = "absent"
    BY <1>3 DEF Enqueue, IInv, Held
  <2> QED
    BY <1>1, <1>3, <2>1 DEF Enqueue, taskVars, procVars
<1>4. CASE Claim(Followed)
  BY <1>1, <1>2, <1>4 DEF Claim, ClaimRow, Claimable, procVars
<1>5. CASE Conclude(Followed)
  <2>1. /\ exec[Followed] = "returned" /\ exec'[Followed] = "none"
        /\ job'[Followed] = JobAfter(Followed) /\ UNCHANGED <<attempts, procVars>>
    BY <1>1, <1>5 DEF Conclude
  <2>2. /\ JobAfter(Followed) \in {"cancelled", "succeeded", "dead_letter", "retrying"}
        /\ job[Followed] = "cancelled" => JobAfter(Followed) = "cancelled"
    BY <1>1, <2>1, JobAfterEffect DEF IInv
  <2> QED
    BY <1>2, <2>1, <2>2 DEF JobTerminal
<1>6. CASE CancelTask(Followed)
  BY <1>1, <1>6 DEF CancelTask, rowVars, procVars
<1>7. CASE CancelRows(Followed)
  <2>1. CancelRowsOf(Followed) /\ UNCHANGED taskVars /\ UNCHANGED procVars /\ TaskEnded(Followed)
    BY <1>7 DEF CancelRows
  <2>2. job'[Followed] = Cancelled(job[Followed]) /\ attempts' = attempts
    BY <1>1, <2>1 DEF CancelRowsOf, rowVars, Cancelled
  <2> QED
    BY <2>1, <2>2 DEF taskVars, procVars, TaskEnded
<1>8. CASE SweepNext
  <2>1. at = Followed
    BY <1>1, <1>8 DEF SweepNext, IInv, TypeOK
  <2>2. {r \in sweep : ~TaskEnded(r)} = {}
    BY <1>1, <1>8, <2>1 DEF SweepNext, IInv, TypeOK
  <2>3. UNCHANGED taskVars /\ UNCHANGED rowVars /\ UNCHANGED procVars
    BY <1>8, <2>2 DEF SweepNext, SweepOn
  <2> QED
    BY <2>3 DEF taskVars, rowVars, procVars
<1>9. ASSUME NEW stale \in SUBSET Run, Restart(stale) PROVE
        /\ up = "down" /\ up' = "up" /\ exec[Followed] = "none" /\ exec' = exec /\ flag' = flag
        /\ job'[Followed] = "absent" <=> job[Followed] = "absent"
        /\ job[Followed] \in JobTerminal => job'[Followed] = job[Followed]
        /\ crashes' = crashes /\ attempts' = attempts
  BY <1>1, <1>2, <1>9 DEF Restart, Recovered, Failed, taskVars, JobTerminal
<1> QED
  BY <1>3, <1>4, <1>5, <1>6, <1>7, <1>8, <1>9 DEF QueueStep

-----------------------------------------------------------------------------
(* The run's task, its trace and its flag.                                 *)

\* What the queue acts on is the flag of the trace.
TraceFlag == exec[Followed] \in {"running", "unwinding"} => trace = "open" /\ flag[Followed] = asked

TraceControlled == IInv /\ TraceFlag /\ TraceHeld /\ asked \in BOOLEAN

\* The types of what the control of the trace reads.
LEMMA TraceReads ==
  ASSUME IInv
  PROVE  /\ Run = {Followed} /\ exec \in [Run -> TaskState] /\ flag \in [Run -> BOOLEAN]
         /\ job \in [Run -> JobStatus] /\ attempts \in [Run -> Nat] /\ crashes \in Nat
         /\ exec[Followed] # "none" => job[Followed] \in {"running", "cancelled"}
         /\ up = "down" => exec[Followed] = "none"
<1>1. Run = {Followed} /\ MaxCrashes \in Nat
  BY RunTraceAssumption, JobQueueAssumption
<1>2. /\ exec \in [Run -> TaskState] /\ flag \in [Run -> BOOLEAN] /\ job \in [Run -> JobStatus]
      /\ attempts \in [Run -> Nat] /\ crashes \in 0 .. MaxCrashes
  BY DEF IInv, TypeOK
<1>3. crashes \in Nat
  BY <1>1, <1>2
<1>4. /\ exec[Followed] # "none" => job[Followed] \in {"running", "cancelled"}
      /\ up = "down" => exec[Followed] = "none"
  BY <1>1 DEF IInv, Held
<1> QED
  BY <1>1, <1>2, <1>3, <1>4

\* A run begins, works, persists and ends.
LEMMA ControlRuns ==
  ASSUME TraceControlled, RunStep \/ Emit \/ Persist
  PROVE  TraceFlag' /\ TraceHeld'
<1>1. /\ Run = {Followed} /\ exec \in [Run -> TaskState] /\ flag \in [Run -> BOOLEAN]
      /\ attempts \in [Run -> Nat]
      /\ exec[Followed] # "none" => job[Followed] \in {"running", "cancelled"}
  BY TraceReads DEF TraceControlled
<1>2. CASE TraceStart
  <2>1. /\ exec[Followed] = "created" /\ exec'[Followed] = "running" /\ flag'[Followed] = FALSE
        /\ UNCHANGED <<rowVars, procVars, disk, stream>>
    BY <1>1, <1>2 DEF TraceStart, Start, streamVars
  <2>2. trace' = "open" /\ asked' = FALSE
    <3>1. trace = "open" => asked = FALSE
      BY <2>1 DEF TraceControlled, TraceHeld
    <3> QED
      BY <1>2, <3>1 DEF TraceStart, Create, Restore, logVars
  <2>3. up # "down"
    BY <2>1, TraceReads DEF TraceControlled
  <2>4. job' = job /\ attempts' = attempts /\ up' = up /\ crashes' = crashes
    BY <2>1 DEF rowVars, procVars
  <2> QED
    BY <1>1, <2>1, <2>2, <2>3, <2>4 DEF TraceControlled, TraceHeld, TraceFlag, JobTerminal
<1>3. ASSUME NEW o \in Outcome, TraceFinish(o) PROVE TraceFlag' /\ TraceHeld'
  <2>1. /\ exec[Followed] \in {"running", "unwinding"} /\ exec'[Followed] = "returned"
        /\ UNCHANGED <<rowVars, procVars, stream>> /\ trace' = "completed"
    BY <1>1, <1>3 DEF TraceFinish, Finish, streamVars
  <2>2. up # "down"
    BY <2>1, TraceReads DEF TraceControlled
  <2> QED
    BY <1>1, <2>1, <2>2 DEF TraceControlled, TraceHeld, TraceFlag, rowVars, procVars
<1>4. CASE Emit
  BY <1>4 DEF Emit, TraceControlled, TraceHeld, TraceFlag, vars, rowVars, taskVars, procVars, streamVars
<1>5. CASE Persist
  BY <1>1, <1>5 DEF Persist, TraceControlled, TraceHeld, TraceFlag, vars, rowVars, taskVars, procVars, logVars, streamVars
<1> QED
  BY <1>2, <1>3, <1>4, <1>5 DEF RunStep

\* A run is asked to stop.
LEMMA ControlCancels ==
  ASSUME TraceControlled, TraceCancel
  PROVE  TraceFlag' /\ TraceHeld'
<1>1. /\ Run = {Followed} /\ exec \in [Run -> TaskState] /\ flag \in [Run -> BOOLEAN]
      /\ attempts \in [Run -> Nat]
      /\ exec[Followed] # "none" => job[Followed] \in {"running", "cancelled"}
      /\ job[Followed] \in JobStatus
  BY TraceReads DEF TraceControlled
<1>2. /\ exec'[Followed] = IF exec[Followed] = "created" THEN "none" ELSE exec[Followed]
      /\ exec[Followed] \in {"running", "unwinding"} => flag'[Followed] = TRUE
      /\ exec[Followed] = "none" => job'[Followed] \notin JobActive
      /\ job'[Followed] \in {job[Followed], Cancelled(job[Followed])}
      /\ attempts' = attempts /\ up' = up /\ crashes' = crashes
  BY CancelAlone DEF TraceControlled
<1>3. trace' = trace /\ disk' = disk /\ stream' = stream /\ (trace = "open" => asked' = TRUE) /\ (trace # "open" => asked' = asked)
  BY <1>2 DEF TraceControlled, TraceCancel, RequestCancel, logVars, streamVars
<1>4. job'[Followed] = "absent" <=> job[Followed] = "absent"
  BY <1>1, <1>2 DEF Cancelled, JobActive
<1>5. TraceFlag'
  BY <1>2, <1>3 DEF TraceControlled, TraceFlag
<1>6. trace = "open" => exec'[Followed] \in {"none", "running", "unwinding"}
  BY <1>1, <1>2 DEF TraceControlled, TraceHeld, TaskState
<1>7. exec'[Followed] = "none" => ~Claimable(job'[Followed])
  <2>1. exec[Followed] \in {"none", "created"} => job'[Followed] \in {"running", "cancelled"} \/ job'[Followed] \notin JobActive
    <3>1. Cancelled("running") = "cancelled" /\ Cancelled("cancelled") = "cancelled"
      BY DEF Cancelled, JobActive
    <3>2. exec[Followed] = "created" => job[Followed] \in {"running", "cancelled"}
      BY <1>1
    <3> QED
      BY <1>2, <3>1, <3>2
  <2>2. exec'[Followed] = "none" => exec[Followed] \in {"none", "created"}
    BY <1>2
  <2> QED
    BY <2>1, <2>2 DEF Claimable, JobActive
<1> QED
  BY <1>1, <1>2, <1>3, <1>4, <1>5, <1>6, <1>7 DEF TraceControlled, TraceHeld

\* The queue's own steps.
LEMMA ControlQueues ==
  ASSUME TraceControlled, QueueStep
  PROVE  TraceFlag' /\ TraceHeld'
<1>1. /\ Run = {Followed} /\ exec \in [Run -> TaskState] /\ flag \in [Run -> BOOLEAN]
      /\ attempts \in [Run -> Nat]
      /\ exec[Followed] # "none" => job[Followed] \in {"running", "cancelled"}
      /\ job[Followed] \in JobStatus /\ attempts[Followed] \in Nat
  BY TraceReads DEF TraceControlled
<1>2. trace' = trace /\ disk' = disk /\ asked' = asked /\ stream' = stream
  BY DEF QueueStep, traceVars, logVars, streamVars
<1> DEFINE f == Followed
<1>3. CASE /\ job[f] = "absent" /\ job'[f] = "queued" /\ exec'[f] = exec[f]
           /\ flag'[f] = flag[f] /\ UNCHANGED <<attempts, procVars>>
  <2>1. attempts[f] = 0
    BY <1>3 DEF TraceControlled, TraceHeld
  <2>2. trace = "absent" /\ exec[f] = "none"
    BY <2>1 DEF TraceControlled, TraceHeld
  <2> QED
    BY <1>1, <1>2, <1>3, <2>1, <2>2 DEF TraceControlled, TraceHeld, TraceFlag, procVars
<1>4. CASE /\ Claimable(job[f]) /\ exec[f] = "none" /\ job'[f] = "running" /\ exec'[f] = "created"
           /\ attempts'[f] = attempts[f] + 1 /\ UNCHANGED procVars
  <2>1. attempts'[f] >= 1 /\ ~(trace = "open" /\ asked)
    BY <1>1, <1>4 DEF TraceControlled, TraceHeld
  <2> QED
    BY <1>1, <1>2, <1>4, <2>1 DEF TraceControlled, TraceHeld, TraceFlag, procVars, JobTerminal
<1>5. CASE /\ exec[f] = "returned" /\ exec'[f] = "none" /\ job'[f] # "absent"
           /\ job[f] \in JobTerminal => job'[f] \in JobTerminal
           /\ UNCHANGED <<attempts, procVars>>
  BY <1>1, <1>2, <1>5 DEF TraceControlled, TraceHeld, TraceFlag, procVars
<1>6. CASE /\ exec[f] = "running" /\ exec'[f] = "unwinding" /\ flag' = flag /\ job' = job
           /\ UNCHANGED <<attempts, procVars>>
  BY <1>1, <1>2, <1>6 DEF TraceControlled, TraceHeld, TraceFlag, procVars
<1>7. CASE /\ job'[f] \in {job[f], Cancelled(job[f])} /\ exec[f] \in {"none", "returned"}
           /\ exec' = exec /\ flag' = flag /\ UNCHANGED <<attempts, procVars>>
  <2>1. job'[f] = "absent" <=> job[f] = "absent"
    BY <1>7 DEF Cancelled, JobActive
  <2>2. ~Claimable(job[f]) => ~Claimable(job'[f])
    BY <1>7 DEF Cancelled, Claimable, JobActive
  <2> QED
    BY <1>1, <1>2, <1>7, <2>1, <2>2 DEF TraceControlled, TraceHeld, TraceFlag, procVars
<1>8. CASE exec' = exec /\ flag' = flag /\ job' = job /\ UNCHANGED <<attempts, procVars>>
  BY <1>1, <1>2, <1>8 DEF TraceControlled, TraceHeld, TraceFlag, procVars
<1>9. CASE /\ up = "down" /\ up' = "up" /\ exec[f] = "none" /\ exec' = exec /\ flag' = flag
           /\ job'[f] = "absent" <=> job[f] = "absent"
           /\ job[f] \in JobTerminal => job'[f] = job[f]
           /\ crashes' = crashes /\ attempts' = attempts
  BY <1>1, <1>2, <1>9 DEF TraceControlled, TraceHeld, TraceFlag
<1> QED
  BY <1>3, <1>4, <1>5, <1>6, <1>7, <1>8, <1>9, QueueAlone DEF TraceControlled

\* The batch is created, the process goes down, the console reads.
LEMMA ControlRest ==
  ASSUME TraceControlled,
         TraceCreateBatch \/ TraceShutdown \/ TraceDown \/ Connect \/ Disconnect \/ Tick
  PROVE  TraceFlag' /\ TraceHeld'
<1>1. /\ Run = {Followed} /\ exec \in [Run -> TaskState] /\ flag \in [Run -> BOOLEAN]
      /\ attempts \in [Run -> Nat]
      /\ exec[Followed] # "none" => job[Followed] \in {"running", "cancelled"}
      /\ job \in [Run -> JobStatus] /\ attempts[Followed] \in Nat /\ crashes \in Nat
      /\ up = "down" => exec[Followed] = "none"
  BY TraceReads DEF TraceControlled
<1>2. CASE TraceCreateBatch
  BY <1>2 DEF TraceCreateBatch, CreateBatch, TraceControlled, TraceHeld, TraceFlag,
              traceVars, logVars, streamVars, taskVars, procVars
<1>3. CASE TraceShutdown
  <2>1. /\ up = "up" /\ up' = "stopping" /\ crashes' = crashes + 1 /\ UNCHANGED <<rowVars, flag>>
        /\ exec'[Followed] \in {"none", "returned", "unwinding"}
        /\ exec'[Followed] = "unwinding" => exec[Followed] \in {"running", "unwinding"}
        /\ exec'[Followed] = "returned" => exec[Followed] = "returned"
    BY <1>1, <1>3 DEF TraceShutdown, Shutdown
  <2>2. trace' = trace /\ asked' = asked /\ disk' = disk
    BY <1>3 DEF TraceShutdown, logVars
  <2>3. exec[Followed] = "created" => ~(trace = "open" /\ asked)
    BY <1>1 DEF TraceControlled, TraceHeld
  <2>5. exec[Followed] \in {"running", "unwinding"} => exec'[Followed] = "unwinding"
    BY <1>1, <1>3 DEF TraceShutdown, Shutdown
  <2>6. stream' = "closed"
    BY <1>3 DEF TraceShutdown
  <2> QED
    BY <1>1, <2>1, <2>2, <2>3, <2>5, <2>6 DEF TraceControlled, TraceHeld, TraceFlag, rowVars
<1>4. CASE TraceDown
  <2>1. /\ trace' = "absent" /\ asked' = FALSE /\ disk' = disk /\ stream' = "closed"
    BY <1>4 DEF TraceDown
  <2>2. /\ exec'[Followed] = "none" /\ up' = "down"
    BY <1>1, <1>4 DEF TraceDown, Crash, CrashInClaim, CrashInConclude, CrashInCancel, Stopped, GoDown
  <2>3. crashes' > 0
    <3>1. CASE Stopped
      BY <3>1 DEF Stopped, TraceControlled, TraceHeld
    <3>2. CASE Crash \/ CrashInClaim(Followed) \/ CrashInConclude(Followed) \/ CrashInCancel
      BY <1>1, <3>2 DEF Crash, CrashInClaim, CrashInConclude, CrashInCancel
    <3> QED
      BY <1>4, <3>1, <3>2 DEF TraceDown
  <2>4. /\ attempts'[Followed] = attempts[Followed] \/ attempts'[Followed] = attempts[Followed] + 1
        /\ job'[Followed] = "absent" => job[Followed] = "absent" /\ attempts' = attempts
    <3>1. CASE Stopped \/ Crash
      BY <3>1 DEF Stopped, Crash, rowVars
    <3>2. CASE CrashInClaim(Followed)
      BY <1>1, <3>2 DEF CrashInClaim, ClaimRow
    <3>3. CASE CrashInConclude(Followed)
      <4>1. JobAfter(Followed) # "absent"
        BY <3>3, <1>1, JobAfterEffect DEF CrashInConclude, TraceControlled, IInv
      <4> QED
        BY <1>1, <3>3, <4>1 DEF CrashInConclude
    <3>4. CASE CrashInCancel
      BY <1>1, <3>4 DEF CrashInCancel, Cancelled
    <3> QED
      BY <1>4, <3>1, <3>2, <3>3, <3>4 DEF TraceDown
  <2> QED
    BY <1>1, <2>1, <2>2, <2>3, <2>4 DEF TraceControlled, TraceHeld, TraceFlag
<1>5. CASE Connect \/ Disconnect \/ TickTrace \/ TickRows \/ TickJob
  BY <1>5 DEF Deliver, Connect, Disconnect, TickTrace, TickRows, TickJob, TraceControlled, TraceHeld, TraceFlag,
              vars, rowVars, taskVars, procVars, logVars
<1>6. CASE TickRestore
  <2>1. trace = "absent" /\ disk # <<>> /\ trace' = "open" /\ asked' = FALSE /\ disk' = disk
        /\ exec' = exec /\ flag' = flag /\ job' = job /\ attempts' = attempts
        /\ up' = up /\ crashes' = crashes /\ stream = "open" /\ stream' = stream
    BY <1>6 DEF streamVars, TickRestore, Restorable, Restore, vars, rowVars, taskVars, procVars
  <2> QED
    BY <1>1, <2>1 DEF TraceControlled, TraceHeld, TraceFlag
<1> QED
  BY <1>2, <1>3, <1>4, <1>5, <1>6 DEF Tick

-----------------------------------------------------------------------------
(* Lists: the beginning of a longer list, and what the console folds in.   *)

LEMMA PrefixOf ==
  ASSUME NEW S, NEW s \in Seq(S), NEW t \in Seq(S)
  PROVE  IsPrefix(s, t) <=> Len(s) <= Len(t) /\ \A i \in 1 .. Len(s) : s[i] = t[i]
<1>1. SubSeq(s, 1, Len(s)) = s /\ Len(s) \in Nat /\ Len(t) \in Nat
  BY SubSeqFull, LenProperties
<1>2. CASE Len(s) <= Len(t)
  <2>1. \A i \in 1 .. Len(s) : t[i] \in S
    <3> SUFFICES ASSUME NEW i \in 1 .. Len(s) PROVE t[i] \in S
      OBVIOUS
    <3>1. i \in 1 .. Len(t)
      BY <1>1, <1>2
    <3> QED
      BY <3>1, ElementOfSeq
  <2>2. 1 \in Int /\ Len(s) \in Int
    BY <1>1
  <2>3. /\ SubSeq(t, 1, Len(s)) \in Seq(S)
        /\ Len(SubSeq(t, 1, Len(s))) = IF 1 <= Len(s) THEN Len(s) - 1 + 1 ELSE 0
        /\ \A i \in 1 .. Len(s) - 1 + 1 : SubSeq(t, 1, Len(s))[i] = t[1 + i - 1]
    BY <2>1, <2>2, SubSeqProperties
  <2> PICK u : u = SubSeq(t, 1, Len(s))
    OBVIOUS
  <2>4. /\ u \in Seq(S) /\ Len(u) = Len(s)
        /\ \A i \in 1 .. Len(s) : u[i] = t[i]
    <3>1. Len(s) - 1 + 1 = Len(s) /\ \A i \in 1 .. Len(s) : 1 + i - 1 = i
      BY <1>1
    <3>2. u \in Seq(S) /\ Len(u) = Len(s)
      BY <1>1, <2>3
    <3>3. ASSUME NEW i \in 1 .. Len(s) PROVE u[i] = t[i]
      BY <2>3, <3>1
    <3> QED
      BY <3>2, <3>3
  <2>5. s = u <=> \A i \in 1 .. Len(s) : s[i] = u[i]
    BY <2>4, SeqEqual
  <2> QED
    BY <1>1, <1>2, <2>4, <2>5 DEF IsPrefix
<1>3. CASE ~(Len(s) <= Len(t))
  BY <1>3 DEF IsPrefix
<1> QED
  BY <1>2, <1>3

LEMMA PrefixOfLonger ==
  ASSUME NEW S, NEW s \in Seq(S), NEW t \in Seq(S), NEW u \in Seq(S), IsPrefix(s, t)
  PROVE  t \o u \in Seq(S) /\ IsPrefix(s, t \o u)
<1>1. /\ t \o u \in Seq(S) /\ Len(t \o u) = Len(t) + Len(u)
      /\ \A i \in 1 .. Len(t) + Len(u) : (t \o u)[i] = IF i <= Len(t) THEN t[i] ELSE u[i - Len(t)]
  BY ConcatProperties
<1>2. Len(s) <= Len(t) /\ \A i \in 1 .. Len(s) : s[i] = t[i]
  BY PrefixOf
<1>3. Len(s) \in Nat /\ Len(t) \in Nat /\ Len(u) \in Nat
  BY LenProperties
<1> PICK v : v = t \o u
  OBVIOUS
<1>4. Len(s) <= Len(v) /\ \A i \in 1 .. Len(s) : s[i] = v[i]
  <2>1. Len(s) <= Len(v)
    BY <1>1, <1>2, <1>3
  <2>2. ASSUME NEW i \in 1 .. Len(s) PROVE s[i] = v[i]
    <3>1. i \in 1 .. Len(t) + Len(u) /\ i <= Len(t)
      BY <1>2, <1>3
    <3> QED
      BY <1>1, <1>2, <3>1
  <2> QED
    BY <2>1, <2>2
<1>5. IsPrefix(s, v)
  BY <1>1, <1>4, PrefixOf
<1> QED
  BY <1>1, <1>5

\* Folding adds what is missing, and nothing twice.
LEMMA Folded ==
  ASSUME NEW S, shown \in Seq(S), NEW events \in Seq(S), NEW from \in 0 .. Len(shown)
  PROVE  /\ Fold(events, from) \in Seq(S)
         /\ Len(events) <= Len(Fold(events, from)) /\ Len(shown) <= Len(Fold(events, from))
         /\ IsPrefix(shown, events) => Fold(events, from) = events
<1>1. Len(shown) \in Nat /\ Len(events) \in Nat
  BY LenProperties
<1> PICK n : n = Len(shown)
  OBVIOUS
<1>2. Larger(from, Len(shown)) = n /\ n \in Nat
  BY <1>1 DEF Larger
<1> PICK rest : rest = SubSeq(events, n + 1, Len(events))
  OBVIOUS
<1>3. Fold(events, from) = shown \o rest
  BY <1>2 DEF Fold, Later
<1>4. rest \in Seq(S) /\ Len(rest) = IF n + 1 <= Len(events) THEN Len(events) - n ELSE 0
  <2>1. n + 1 \in Int /\ Len(events) \in Int /\ Len(events) - (n + 1) + 1 = Len(events) - n
    BY <1>1, <1>2
  <2>2. \A i \in n + 1 .. Len(events) : events[i] \in S
    <3> SUFFICES ASSUME NEW i \in n + 1 .. Len(events) PROVE events[i] \in S
      OBVIOUS
    <3>1. i \in 1 .. Len(events)
      BY <1>1, <1>2
    <3> QED
      BY <3>1, ElementOfSeq
  <2>3. rest \in Seq(S) /\ Len(rest) = IF n + 1 <= Len(events) THEN Len(events) - (n + 1) + 1 ELSE 0
    BY <2>1, <2>2, SubSeqProperties
  <2> QED
    BY <2>1, <2>3
<1>5. shown \o rest \in Seq(S) /\ Len(shown \o rest) = Len(shown) + Len(rest)
  BY <1>4, ConcatProperties
<1>6. Len(events) <= Len(shown \o rest) /\ Len(shown) <= Len(shown \o rest)
  BY <1>1, <1>2, <1>4, <1>5
<1>7. ASSUME IsPrefix(shown, events) PROVE shown \o rest = events
  <2>1. n <= Len(events) /\ SubSeq(shown, 1, n) = SubSeq(events, 1, n)
    BY <1>7 DEF IsPrefix
  <2>2. shown = SubSeq(events, 1, n)
    BY <2>1, SubSeqFull
  <2>3. 1 \in 1 .. Len(events) + 1 /\ n \in 1 - 1 .. Len(events) /\ Len(events) \in n .. Len(events)
    BY <1>1, <1>2, <2>1
  <2>4. SubSeq(events, 1, n) \o SubSeq(events, n + 1, Len(events)) = SubSeq(events, 1, Len(events))
    BY <2>3, ConcatAdjacentSubSeq
  <2>5. SubSeq(events, 1, Len(events)) = events
    BY SubSeqFull
  <2> QED
    BY <2>2, <2>4, <2>5
<1> QED
  BY <1>3, <1>5, <1>6, <1>7

-----------------------------------------------------------------------------
(* The log, its copy and the list.                                         *)

LogsTyped ==
  /\ trace \in {"absent", "open", "completed"}
  /\ log \in Seq(EpochOf) /\ disk \in Seq(EpochOf) /\ shown \in Seq(EpochOf)
  /\ asked \in BOOLEAN /\ told \in BOOLEAN
  /\ stream \in {"closed", "open"} /\ sent \in 0 .. Len(shown)

LEMMA TypeParts == TraceTypeOK <=> LogsTyped /\ TraceFlag
BY DEF TraceTypeOK, LogsTyped, TraceFlag

\* All that the steps below read.
LEMMA TraceParts ==
  ASSUME TraceInv
  PROVE  /\ TraceControlled /\ LogsTyped /\ ShownWhole /\ TraceOnce
         /\ Epoch \in EpochOf /\ attempts[Followed] \in Nat /\ crashes \in Nat
         /\ Run = {Followed} /\ exec \in [Run -> TaskState]
         /\ job \in [Run -> JobStatus] /\ attempts \in [Run -> Nat]
<1>1. TraceControlled /\ LogsTyped /\ ShownWhole /\ TraceOnce
  BY TypeParts DEF TraceInv, TraceControlled, LogsTyped
<1>2. /\ Run = {Followed} /\ exec \in [Run -> TaskState]
      /\ job \in [Run -> JobStatus] /\ attempts \in [Run -> Nat] /\ crashes \in Nat
  BY <1>1, TraceReads DEF TraceControlled
<1>3. Epoch \in EpochOf
  <2>1. crashes \in 0 .. MaxCrashes
    BY <1>1 DEF TraceControlled, IInv, TypeOK
  <2>2. attempts[Followed] <= MaxAttempts /\ attempts[Followed] \in Nat
    BY <1>1, <1>2 DEF TraceControlled, IInv, Bounded
  <2>3. MaxAttempts \in Nat /\ MaxCrashes \in Nat
    BY JobQueueAssumption
  <2> QED
    BY <2>1, <2>2, <2>3 DEF Epoch, EpochOf
<1> QED
  BY <1>1, <1>2, <1>3

LEMMA NoEvents == <<>> \in Seq(EpochOf) /\ Len(<<>>) = 0 /\ \A s \in Seq(EpochOf) : IsPrefix(<<>>, s)
<1>1. <<>> \in Seq(EpochOf) /\ Len(<<>>) = 0
  BY EmptySeq
<1>2. ASSUME NEW s \in Seq(EpochOf) PROVE IsPrefix(<<>>, s)
  <2>1. Len(s) \in Nat
    BY LenProperties
  <2>2. 0 <= Len(s) /\ 1 .. 0 = {}
    BY <2>1
  <2> PICK e \in Seq(EpochOf) : e = <<>>
    BY <1>1
  <2>3. IsPrefix(e, s)
    BY <1>1, <2>2, PrefixOf
  <2> QED
    BY <2>3
<1> QED
  BY <1>1, <1>2

\* An epoch is an epoch.
LEMMA OneEvent == ASSUME NEW e \in EpochOf PROVE <<e>> \in Seq(EpochOf)
OBVIOUS

Whole == LogsTyped /\ ShownWhole /\ TraceOnce

\* What a step must keep: types, and the list while the run is executed once.
LEMMA WholeKept ==
  ASSUME LogsTyped',
         attempts'[Followed] <= 1 /\ crashes' = 0 =>
           /\ trace' # "absent" => IsPrefix(shown', log')
           /\ trace' # "absent" /\ told' => shown' = log' /\ trace' = "completed"
           /\ exec'[Followed] = "created" => trace' = "absent"
           /\ trace' = "absent" => disk' = <<>>
           /\ trace' = "absent" /\ (told' \/ shown' # <<>>) => job'[Followed] \in JobTerminal
  PROVE  Whole'
BY DEF Whole, ShownWhole, TraceOnce

LEMMA WholeStart ==
  ASSUME TraceInv, TraceStart
  PROVE  Whole'
<1>1. /\ TraceControlled /\ LogsTyped /\ ShownWhole /\ TraceOnce /\ Run = {Followed}
      /\ exec \in [Run -> TaskState] /\ job \in [Run -> JobStatus]
  BY TraceParts
<1>2. /\ exec[Followed] = "created" /\ exec'[Followed] = "running"
      /\ UNCHANGED <<rowVars, procVars, disk, stream, sent, shown, told>>
  BY <1>1 DEF TraceStart, Start, streamVars
<1>3. job' = job /\ attempts' = attempts /\ crashes' = crashes
  BY <1>2 DEF rowVars, procVars
<1>4. job[Followed] \notin JobTerminal
  BY <1>1, <1>2 DEF TraceControlled, TraceHeld
<1>5. trace' = "open" /\ log' \in {log, disk, <<>>} /\ asked' \in {asked, FALSE}
  BY DEF TraceStart, Create, Restore, logVars
<1>6. LogsTyped'
  BY <1>1, <1>2, <1>5, NoEvents DEF LogsTyped
<1>7. ASSUME attempts'[Followed] <= 1, crashes' = 0
      PROVE  shown = <<>> /\ told = FALSE
  BY <1>1, <1>2, <1>3, <1>4, <1>7 DEF LogsTyped, TraceOnce
<1>8. attempts'[Followed] <= 1 /\ crashes' = 0 => IsPrefix(shown', log') /\ ~told'
  <2> SUFFICES ASSUME attempts'[Followed] <= 1, crashes' = 0 PROVE IsPrefix(shown', log') /\ ~told'
    OBVIOUS
  <2>1. log' \in Seq(EpochOf)
    BY <1>6 DEF LogsTyped
  <2> QED
    BY <1>2, <1>7, <2>1, NoEvents
<1> QED
  BY <1>2, <1>5, <1>6, <1>8, WholeKept

\* The log of an open trace grows; it may be completed with it.
LEMMA WholeGrows ==
  ASSUME TraceInv, NEW more \in Seq(EpochOf), log' = log \o more,
         trace = "open", trace' \in {"open", "completed"}, asked' \in BOOLEAN,
         disk' \in {disk, log'}, attempts' = attempts, crashes' = crashes,
         UNCHANGED streamVars,
         exec[Followed] # "created" => exec'[Followed] # "created"
  PROVE  Whole'
<1>1. LogsTyped /\ ShownWhole /\ TraceOnce
  BY TraceParts
<1>2. stream' = stream /\ sent' = sent /\ shown' = shown /\ told' = told
  BY DEF streamVars
<1>3. log \in Seq(EpochOf) /\ shown \in Seq(EpochOf)
  BY <1>1 DEF LogsTyped
<1>4. log' \in Seq(EpochOf)
  BY <1>3, ConcatProperties
<1>5. LogsTyped'
  BY <1>1, <1>2, <1>4 DEF LogsTyped
<1>6. ASSUME attempts'[Followed] <= 1, crashes' = 0
      PROVE  IsPrefix(shown, log') /\ ~told /\ exec'[Followed] # "created"
  <2>1. IsPrefix(shown, log) /\ ~told /\ exec[Followed] # "created"
    BY <1>1, <1>6 DEF ShownWhole, TraceOnce
  <2>2. IsPrefix(shown, log \o more)
    BY <1>3, <2>1, PrefixOfLonger
  <2> QED
    BY <2>1, <2>2
<1> QED
  BY <1>2, <1>5, <1>6, WholeKept

LEMMA WholeRuns ==
  ASSUME TraceInv, Emit \/ Persist \/ \E o \in Outcome : TraceFinish(o)
  PROVE  Whole'
<1>1. /\ TraceControlled /\ LogsTyped /\ ShownWhole /\ TraceOnce /\ Run = {Followed}
      /\ exec \in [Run -> TaskState] /\ Epoch \in EpochOf
  BY TraceParts
<1>2. exec[Followed] \in {"running", "unwinding"}
  BY DEF Emit, Persist, TraceFinish, Finish
<1>3. trace = "open" /\ asked \in BOOLEAN /\ log \in Seq(EpochOf)
  BY <1>1, <1>2 DEF TraceControlled, TraceFlag, LogsTyped
<1>4. CASE Emit
  <2>1. log' = Append(log, Epoch) /\ UNCHANGED <<trace, asked, disk, streamVars>>
        /\ attempts' = attempts /\ crashes' = crashes /\ exec' = exec
    BY <1>4 DEF Emit, vars, rowVars, procVars, taskVars
  <2>2. log' = log \o <<Epoch>> /\ <<Epoch>> \in Seq(EpochOf)
    BY <1>1, <1>3, <2>1, AppendIsConcat, OneEvent
  <2> QED
    BY <1>3, <2>1, <2>2, WholeGrows
<1>5. CASE Persist
  <2>1. disk' = log /\ UNCHANGED <<trace, log, asked, streamVars>>
        /\ attempts' = attempts /\ crashes' = crashes /\ exec' = exec
    BY <1>5 DEF Persist, vars, rowVars, procVars, taskVars, logVars
  <2>2. log' = log \o <<>> /\ <<>> \in Seq(EpochOf)
    BY <1>3, <2>1, ConcatEmptySeq, NoEvents
  <2> QED
    BY <1>3, <2>1, <2>2, WholeGrows
<1>6. ASSUME NEW o \in Outcome, TraceFinish(o) PROVE Whole'
  <2>1. PICK k \in 1 .. 2 : log' = log \o [i \in 1 .. k |-> Epoch]
    BY <1>6 DEF TraceFinish
  <2>2. [i \in 1 .. k |-> Epoch] \in Seq(EpochOf)
    BY <1>1
  <2>3. /\ trace' = "completed" /\ disk' = log' /\ asked' = asked /\ UNCHANGED streamVars
        /\ attempts' = attempts /\ crashes' = crashes /\ exec'[Followed] = "returned"
    BY <1>1, <1>6 DEF TraceFinish, Finish, rowVars, procVars
  <2> QED
    BY <1>3, <2>1, <2>2, <2>3, WholeGrows
<1> QED
  BY <1>4, <1>5, <1>6

LEMMA WholeCancels ==
  ASSUME TraceInv, TraceCancel
  PROVE  Whole'
<1>1. /\ TraceControlled /\ LogsTyped /\ ShownWhole /\ TraceOnce /\ Epoch \in EpochOf
      /\ Run = {Followed} /\ exec \in [Run -> TaskState] /\ job \in [Run -> JobStatus]
  BY TraceParts
<1>2. /\ exec'[Followed] = IF exec[Followed] = "created" THEN "none" ELSE exec[Followed]
      /\ job'[Followed] \in {job[Followed], Cancelled(job[Followed])}
      /\ attempts' = attempts /\ crashes' = crashes
  BY <1>1, CancelAlone DEF TraceControlled
<1>3. RequestCancel /\ UNCHANGED streamVars /\ disk' = disk
  BY DEF TraceCancel
<1>4. CASE trace = "open" /\ ~asked
  <2>1. trace' = "open" /\ asked' = TRUE /\ log' = Append(log, Epoch) /\ log \in Seq(EpochOf)
    BY <1>1, <1>3, <1>4 DEF RequestCancel, LogsTyped
  <2>2. log' = log \o <<Epoch>> /\ <<Epoch>> \in Seq(EpochOf)
    BY <1>1, <2>1, AppendIsConcat, OneEvent
  <2>3. exec[Followed] # "created" => exec'[Followed] # "created"
    BY <1>2
  <2> QED
    BY <1>2, <1>3, <1>4, <2>1, <2>2, <2>3, WholeGrows
<1>5. CASE ~(trace = "open" /\ ~asked)
  <2>1. trace' = trace /\ asked' = asked /\ log' = log
    BY <1>3, <1>5 DEF RequestCancel, logVars
  <2>2. stream' = stream /\ sent' = sent /\ shown' = shown /\ told' = told /\ disk' = disk
    BY <1>3 DEF streamVars
  <2>3. job[Followed] \in JobTerminal => job'[Followed] \in JobTerminal
    BY <1>2 DEF Cancelled, JobTerminal
  <2>4. LogsTyped'
    BY <1>1, <2>1, <2>2 DEF LogsTyped
  <2> QED
    BY <1>1, <1>2, <2>1, <2>2, <2>3, <2>4, WholeKept DEF ShownWhole, TraceOnce
<1> QED
  BY <1>4, <1>5

\* The queue's own steps leave the trace alone.
LEMMA WholeQueues ==
  ASSUME TraceInv, QueueStep \/ TraceCreateBatch
  PROVE  Whole'
<1>1. /\ TraceControlled /\ LogsTyped /\ ShownWhole /\ TraceOnce
      /\ Run = {Followed} /\ exec \in [Run -> TaskState] /\ job \in [Run -> JobStatus]
      /\ attempts[Followed] \in Nat
  BY TraceParts
<1>2. /\ trace' = trace /\ asked' = asked /\ log' = log /\ disk' = disk
      /\ stream' = stream /\ sent' = sent /\ shown' = shown /\ told' = told
  BY DEF QueueStep, TraceCreateBatch, traceVars, logVars, streamVars
<1>3. LogsTyped'
  BY <1>1, <1>2 DEF LogsTyped
<1>4. /\ attempts'[Followed] >= attempts[Followed] /\ crashes' = crashes
      /\ job[Followed] \in JobTerminal => job'[Followed] \in JobTerminal
      /\ exec'[Followed] = "created" /\ attempts'[Followed] <= 1 => trace = "absent" \/ exec[Followed] = "created"
  <2>1. CASE TraceCreateBatch
    BY <1>1, <2>1 DEF TraceCreateBatch, CreateBatch, taskVars, procVars
  <2>2. CASE QueueStep
    <3>1. trace # "absent" => attempts[Followed] >= 1
      BY <1>1 DEF TraceControlled, TraceHeld
    <3>2. \/ attempts' = attempts /\ crashes' = crashes
             /\ (exec'[Followed] = "created" => exec[Followed] = "created")
             /\ (job[Followed] \in JobTerminal => job'[Followed] \in JobTerminal)
          \/ attempts'[Followed] = attempts[Followed] + 1 /\ crashes' = crashes /\ Claimable(job[Followed])
      <4>1. Cancelled(job[Followed]) \in {job[Followed], "cancelled"} /\ "absent" \notin JobTerminal
        BY DEF Cancelled, JobTerminal
      <4> QED
        BY <1>1, <2>2, <4>1, QueueAlone DEF TraceControlled, procVars, JobTerminal
    <3>3. Claimable(job[Followed]) => job[Followed] \notin JobTerminal
      BY DEF Claimable, JobTerminal
    <3> QED
      BY <1>1, <3>1, <3>2, <3>3
  <2> QED
    BY <2>1, <2>2
<1>5. attempts'[Followed] <= 1 => attempts[Followed] <= 1
  <2>1. attempts'[Followed] \in Nat
    <3>1. CASE TraceCreateBatch
      BY <1>1, <3>1 DEF TraceCreateBatch, CreateBatch
    <3>2. CASE QueueStep
      BY <1>1, <3>2, QueueAlone DEF TraceControlled
    <3> QED
      BY <3>1, <3>2
  <2> QED
    BY <1>1, <1>4, <2>1
<1> QED
  BY <1>1, <1>2, <1>3, <1>4, <1>5, WholeKept DEF ShownWhole, TraceOnce

\* Once the process has gone down, ShownWhole says nothing.
LEMMA WholeDown ==
  ASSUME TraceInv, TraceShutdown \/ TraceDown
  PROVE  Whole'
<1>1. /\ TraceControlled /\ LogsTyped /\ Run = {Followed} /\ crashes \in Nat
  BY TraceParts
<1>2. crashes' # 0
  <2>1. CASE Stopped
    BY <1>1, <2>1 DEF Stopped, TraceControlled, TraceHeld
  <2>2. CASE Shutdown \/ Crash \/ CrashInClaim(Followed) \/ CrashInConclude(Followed) \/ CrashInCancel
    <3>1. crashes' = crashes + 1
      BY <2>2 DEF Shutdown, Crash, CrashInClaim, CrashInConclude, CrashInCancel
    <3> QED
      BY <1>1, <3>1
  <2> QED
    BY <2>1, <2>2 DEF TraceShutdown, TraceDown
<1>3. LogsTyped'
  <2>1. /\ stream' = "closed" /\ sent' = 0 /\ shown' = shown /\ told' = told /\ disk' = disk
        /\ (trace' = trace /\ log' = log /\ asked' = asked) \/ (trace' = "absent" /\ log' = <<>> /\ asked' = FALSE)
    BY DEF TraceShutdown, TraceDown, logVars
  <2>2. Len(shown) \in Nat
    BY <1>1, LenProperties DEF LogsTyped
  <2>3. sent' \in 0 .. Len(shown')
    BY <2>1, <2>2
  <2> QED
    BY <1>1, <2>1, <2>3, NoEvents DEF LogsTyped
<1> QED
  BY <1>2, <1>3, WholeKept

\* The console.
LEMMA WholeReads ==
  ASSUME TraceInv, Connect \/ Disconnect \/ Tick
  PROVE  Whole'
<1>1. /\ TraceControlled /\ LogsTyped /\ ShownWhole /\ TraceOnce /\ Run = {Followed}
  BY TraceParts
<1>2. /\ job' = job /\ exec' = exec /\ attempts' = attempts /\ crashes' = crashes /\ disk' = disk
  BY DEF Connect, Disconnect, Tick, TickTrace, TickRestore, TickRows, TickJob,
         vars, rowVars, taskVars, procVars
<1>3. log \in Seq(EpochOf) /\ shown \in Seq(EpochOf) /\ Len(shown) \in Nat /\ Len(log) \in Nat
      /\ disk \in Seq(EpochOf) /\ sent \in 0 .. Len(shown)
  BY <1>1, LenProperties DEF LogsTyped
<1>4. CASE Connect \/ Disconnect
  <2>1. /\ trace' = trace /\ asked' = asked /\ log' = log /\ sent' = 0 /\ shown' = shown /\ told' = told
        /\ stream' \in {"open", "closed"}
    BY <1>4 DEF Connect, Disconnect, logVars
  <2>2. sent' \in 0 .. Len(shown')
    BY <1>3, <2>1
  <2>3. LogsTyped'
    BY <1>1, <1>2, <2>1, <2>2 DEF LogsTyped
  <2> QED
    BY <1>1, <1>2, <2>1, <2>3, WholeKept DEF ShownWhole, TraceOnce
<1>5. ASSUME NEW events \in Seq(EpochOf), NEW completed \in BOOLEAN, Deliver(events, completed),
             UNCHANGED logVars
      PROVE  /\ LogsTyped' /\ shown' = Fold(events, sent) /\ told' = completed
             /\ trace' = trace /\ log' = log
             /\ IsPrefix(shown, events) => shown' = events
  <2>1. trace' = trace /\ asked' = asked /\ log' = log
    BY <1>5 DEF logVars
  <2>2. /\ shown' = Fold(events, sent) /\ sent' \in {0, sent, Len(events)} /\ told' = completed
        /\ stream' \in {"open", "closed"}
    BY <1>5 DEF Deliver, Larger
  <2>3. /\ shown' \in Seq(EpochOf) /\ Len(events) <= Len(shown') /\ Len(shown) <= Len(shown')
        /\ IsPrefix(shown, events) => shown' = events
    BY <1>3, <2>2, Folded
  <2>4. Len(shown') \in Nat /\ Len(events) \in Nat
    BY <2>3, LenProperties
  <2>5. sent' \in 0 .. Len(shown')
    BY <1>3, <2>2, <2>3, <2>4
  <2>6. LogsTyped'
    BY <1>1, <1>2, <2>1, <2>2, <2>3, <2>5 DEF LogsTyped
  <2> QED
    BY <2>1, <2>2, <2>3, <2>6
<1>6. CASE TickTrace
  <2>1. trace # "absent" /\ Deliver(log, trace = "completed") /\ UNCHANGED logVars
    BY <1>6 DEF TickTrace
  <2> PICK completed \in BOOLEAN : completed = (trace = "completed")
    OBVIOUS
  <2>2. Deliver(log, completed)
    BY <2>1
  <2>3. /\ LogsTyped' /\ told' = completed /\ trace' = trace /\ log' = log
        /\ IsPrefix(shown, log) => shown' = log
    BY <1>3, <1>5, <2>1, <2>2
  <2>4. ASSUME attempts' [Followed] <= 1, crashes' = 0
        PROVE  shown' = log' /\ exec'[Followed] # "created" /\ IsPrefix(shown', log')
    <3>1. IsPrefix(shown, log) /\ exec[Followed] # "created"
      BY <1>1, <1>2, <2>1, <2>4 DEF ShownWhole, TraceOnce
    <3>2. IsPrefix(log, log)
      BY <1>3 DEF IsPrefix
    <3> QED
      BY <1>2, <2>3, <3>1, <3>2
  <2> QED
    BY <2>1, <2>3, <2>4, WholeKept
<1>7. CASE TickRestore
  <2>1. /\ trace = "absent" /\ disk # <<>> /\ trace' = "open" /\ log' = disk /\ asked' = FALSE
        /\ stream' = stream /\ sent' = sent /\ shown' = shown /\ told' = told
    BY <1>7 DEF TickRestore, Restorable, Restore, streamVars
  <2>2. LogsTyped'
    BY <1>1, <1>2, <1>3, <2>1 DEF LogsTyped
  <2>3. ~(attempts'[Followed] <= 1 /\ crashes' = 0)
    BY <1>1, <1>2, <2>1 DEF TraceOnce
  <2> QED
    BY <2>2, <2>3, WholeKept
<1>8. CASE TickRows
  <2>1. trace = "absent" /\ disk # <<>> /\ Deliver(disk, TRUE) /\ UNCHANGED logVars
    BY <1>8 DEF TickRows
  <2>2. LogsTyped'
    BY <1>3, <1>5, <2>1
  <2>3. ~(attempts'[Followed] <= 1 /\ crashes' = 0)
    BY <1>1, <1>2, <2>1 DEF TraceOnce
  <2> QED
    BY <2>2, <2>3, WholeKept
<1>9. CASE TickJob
  <2>1. trace = "absent" /\ job[Followed] \in JobTerminal /\ Deliver(<<Synthetic>>, TRUE) /\ UNCHANGED logVars
    BY <1>9 DEF TickJob
  <2>2. <<Synthetic>> \in Seq(EpochOf)
    <3>1. Synthetic \in EpochOf
      BY JobQueueAssumption DEF Synthetic, EpochOf
    <3> QED
      BY <3>1, OneEvent
  <2>3. LogsTyped' /\ trace' = trace
    BY <1>5, <2>1, <2>2
  <2> QED
    BY <1>1, <1>2, <2>1, <2>3, WholeKept DEF TraceOnce
<1> QED
  BY <1>4, <1>6, <1>7, <1>8, <1>9 DEF Tick

-----------------------------------------------------------------------------
LEMMA TraceStarts == TraceInit => TraceInv
<1> SUFFICES ASSUME TraceInit PROVE TraceInv
  OBVIOUS
<1>1. IInv
  BY InitIInv DEF TraceInit
<1>2. Followed \in Run
  BY RunTraceAssumption
<1>3. TraceFlag /\ TraceHeld /\ TraceOnce /\ ShownWhole
  BY <1>2 DEF TraceInit, Init, TraceFlag, TraceHeld, TraceOnce, ShownWhole, JobTerminal
<1>4. LogsTyped
  <2>1. 0 \in 0 .. Len(shown)
    BY NoEvents DEF TraceInit
  <2> QED
    BY <2>1, NoEvents DEF TraceInit, LogsTyped
<1> QED
  BY <1>1, <1>3, <1>4, TypeParts DEF TraceInv

LEMMA TraceKept == TraceInv /\ [TraceNext]_allVars => TraceInv'
<1> SUFFICES ASSUME TraceInv, [TraceNext]_allVars PROVE TraceInv'
  OBVIOUS
<1>1. CASE TraceNext
  <2>1. IInv'
    BY <1>1, TraceStepsQueue, NextIInv DEF TraceInv
  <2>2. TraceControlled
    BY TraceParts
  <2>3. TraceFlag' /\ TraceHeld'
    BY <1>1, <2>2, ControlRuns, ControlCancels, ControlQueues, ControlRest DEF TraceNext
  <2>4. Whole'
    BY <1>1, WholeStart, WholeRuns, WholeCancels, WholeQueues, WholeDown, WholeReads
       DEF TraceNext, RunStep
  <2>5. TraceTypeOK'
    BY <2>3, <2>4 DEF Whole, LogsTyped, TraceFlag, TraceTypeOK
  <2> QED
    BY <2>1, <2>3, <2>4, <2>5 DEF TraceInv, Whole
<1>2. CASE UNCHANGED allVars
  <2>1. UNCHANGED vars /\ UNCHANGED traceVars
    BY <1>2 DEF allVars
  <2>2. IInv'
    BY <2>1, NextIInv DEF TraceInv
  <2>3. TraceTypeOK' /\ ShownWhole' /\ TraceHeld' /\ TraceOnce'
    BY <2>1 DEF TraceInv, TraceTypeOK, ShownWhole, TraceHeld, TraceOnce, EpochOf,
                vars, rowVars, taskVars, procVars, traceVars, logVars, streamVars
  <2> QED
    BY <2>2, <2>3 DEF TraceInv
<1> QED
  BY <1>1, <1>2

\* For any number of attempts, events, crashes and reconnections: the queue cancels by
\* the flag of the run's own trace, and the console shows a run that is executed once by
\* a process that stays up whole, and nothing else (observability.py, app.py, use-run-stream.ts).
THEOREM TraceIsSafe == TraceSpec => []TraceSafe
<1>1. TraceInv => TraceSafe
  BY DEF TraceInv, TraceSafe
<1> QED
  BY <1>1, TraceStarts, TraceKept, PTL DEF TraceSpec
=============================================================================
