----------------------------- MODULE UrlLedger -----------------------------
(***************************************************************************)
(* What the worker pools promise about each target URL, whatever the        *)
(* interleaving: it is queued at most once, handed to at most one page      *)
(* agent, its result is folded into the pipeline at most once, and it is    *)
(* lost only in a run that is being cancelled.                              *)
(***************************************************************************)
CONSTANT Url

VARIABLES
  stage,     \* [Url -> Stage]
  stopped    \* the run's pools were cancelled

vars == <<stage, stopped>>

Stage == {"unseen", "queued", "running", "reported", "folded", "lost"}

Init ==
  /\ stage = [u \in Url |-> "unseen"]
  /\ stopped = FALSE

All(S, from) == \A u \in S : stage[u] = from
Move(S, to)  == [u \in Url |-> IF u \in S THEN to ELSE stage[u]]

(* Unseen URLs are queued; a stopped run queues nothing. *)
Submit(S) ==
  /\ ~stopped /\ All(S, "unseen")
  /\ stage' = Move(S, "queued")
  /\ UNCHANGED stopped

Start(u) ==
  /\ stage[u] = "queued"
  /\ stage' = [stage EXCEPT ![u] = "running"]
  /\ UNCHANGED stopped

(* An agent's result is recorded, and what it discovered is queued. *)
Report(u, S) ==
  /\ stage[u] = "running"
  /\ All(S, "unseen") /\ (stopped => S = {})
  /\ stage' = [Move(S, "queued") EXCEPT ![u] = "reported"]
  /\ UNCHANGED stopped

Fold(S) ==
  /\ ~stopped /\ All(S, "reported")
  /\ stage' = Move(S, "folded")
  /\ UNCHANGED stopped

(* An agent that is torn down leaves no result, and only then. *)
Lose(u) ==
  /\ stage[u] = "running"
  /\ stage' = [stage EXCEPT ![u] = "lost"]
  /\ stopped' = TRUE

Stop ==
  /\ stopped' = TRUE
  /\ UNCHANGED stage

Next ==
  \/ \E S \in SUBSET Url : Submit(S) \/ Fold(S)
  \/ \E u \in Url : Start(u) \/ Lose(u)
  \/ \E u \in Url, S \in SUBSET Url : Report(u, S)
  \/ Stop

Spec == Init /\ [][Next]_vars
=============================================================================
