---------------------------- MODULE UsageLedger ----------------------------
(***************************************************************************)
(* What model calls cost.  Every answer of the model is priced and added   *)
(* to the metrics of its run, and logged as an event; the metrics can hit  *)
(* the run's cost cap, which cancels it.  When a run ends, its metrics and *)
(* its events become rows, and the overview page merges both.              *)
(*                                                                         *)
(* Agents of a run are coroutines of one event loop: an answer is priced,  *)
(* added and logged without an await in between.  Costs are integers, in   *)
(* units in which nothing is rounded.  One model, several price rows.      *)
(***************************************************************************)
EXTENDS Integers, FiniteSets

CONSTANTS
  Runs, Agents,
  Answers,        \* BOUND: the usage payloads the model may report
  Prices,         \* rows of the price catalogue for the model, and Unpriced
  Unpriced,
  Cap,            \* max_cost_usd
  MaxCalls        \* BOUND: model calls of attempts stored or under way

Amounts == [in: Nat, cached: Nat, write: Nat, out: Nat, think: Nat, billed: Nat]

ASSUME UsageAssumption ==
  /\ IsFiniteSet(Runs) /\ IsFiniteSet(Agents) /\ IsFiniteSet(Answers) /\ IsFiniteSet(Prices)
  /\ Answers \subseteq Amounts /\ Answers # {}
  /\ \A p \in Prices \ {Unpriced} :
       p \in [provider: STRING, in: Nat, cached: Nat, write: Nat, out: Nat]
  /\ Cap \in Nat \ {0} /\ MaxCalls \in Nat

VARIABLES
  price,      \* the catalogue's row now
  agent,      \* agent[r][a]: "idle", "asking"
  paid,       \* paid[r][a]: the row agent a resolved when its loop began
  metrics,    \* metrics[r]: totals of the attempt, and its usage per provider name
  logged,     \* logged[r]: sums over the llm_response events of the attempt
  told,       \* told[r]: cost_threshold_exceeded events
  warned,     \* warned[r]: pricing_missing events
  cancelled,  \* cancelled[r]: cancellation is requested
  ended,      \* runs whose attempt ended
  usageRows,  \* usageRows[r]: run_model_usage rows of run r, calls by provider name
  eventCalls, \* eventCalls[r]: llm_response rows of run r
  totalCalls  \* totalCalls[r]: total_llm_calls of the row of run r

usageVars == <<price, agent, paid, metrics, logged, told, warned, cancelled, ended,
               usageRows, eventCalls, totalCalls>>

\* The names one model goes by: the price row's, and the runtime's own.
RuntimeName == "google_genai"
Names == {RuntimeName} \cup {p.provider : p \in Prices \ {Unpriced}}

NoCalls == [n \in Names |-> 0]
Nothing == [calls |-> 0, in |-> 0, cached |-> 0, new |-> 0, out |-> 0,
            inCost |-> 0, cachedCost |-> 0, writeCost |-> 0, outCost |-> 0,
            total |-> 0, unsplit |-> 0, by |-> NoCalls]
NoEvents == [calls |-> 0, in |-> 0, cached |-> 0, out |-> 0, total |-> 0]

UsageInit ==
  /\ price \in Prices
  /\ agent = [r \in Runs |-> [a \in Agents |-> "idle"]]
  /\ paid = [r \in Runs |-> [a \in Agents |-> price]]
  /\ metrics = [r \in Runs |-> Nothing]
  /\ logged = [r \in Runs |-> NoEvents]
  /\ told = [r \in Runs |-> 0] /\ warned = [r \in Runs |-> 0]
  /\ cancelled = [r \in Runs |-> FALSE]
  /\ ended = {}
  /\ usageRows = [r \in Runs |-> NoCalls]
  /\ eventCalls = [r \in Runs |-> 0] /\ totalCalls = [r \in Runs |-> 0]

UMax(x, y) == IF x >= y THEN x ELSE y

\* estimate_usage_cost.  A resolved row says nothing of the meaning of cached
\* tokens (instrumentation.py:217-224), so they are always part of the input.
BilledInput(u) == UMax(u.in - u.cached - u.write, 0)

OutputCost(u, p) == (u.out + u.think) * p.out

NoCost == [inCost |-> 0, cachedCost |-> 0, writeCost |-> 0, outCost |-> 0, total |-> 0]

Estimated(u, p) ==
  LET lines == [inCost |-> BilledInput(u) * p.in, cachedCost |-> u.cached * p.cached,
                writeCost |-> u.write * p.write, outCost |-> OutputCost(u, p)]
  IN  [inCost |-> lines.inCost, cachedCost |-> lines.cachedCost,
       writeCost |-> lines.writeCost, outCost |-> lines.outCost,
       total |-> lines.inCost + lines.cachedCost + lines.writeCost + (u.out + u.think) * p.out]

\* The providers' reports are taken as one total without its parts.
Billed(u) == [NoCost EXCEPT !.total = u.billed]

\* What the provider reports wins over the catalogue; a model of neither is free.
Reported(u) == u.billed > 0

Cost(u, p) ==
  IF Reported(u) THEN Billed(u)
  ELSE IF p = Unpriced THEN NoCost ELSE Estimated(u, p)

NameOf(p) == IF p = Unpriced THEN RuntimeName ELSE p.provider

Free(u, p) == ~Reported(u) /\ p = Unpriced

ByName(by, p) == [by EXCEPT ![NameOf(p)] = @ + 1]

\* add_llm_usage, under the lock of the run.
Rolled(m, u, p) ==
  LET c == Cost(u, p)
  IN  [calls |-> m.calls + 1, in |-> m.in + u.in, cached |-> m.cached + u.cached,
       new |-> m.new + BilledInput(u), out |-> m.out + u.out,
       inCost |-> m.inCost + c.inCost, cachedCost |-> m.cachedCost + c.cachedCost,
       writeCost |-> m.writeCost + c.writeCost, outCost |-> m.outCost + c.outCost,
       total |-> m.total + c.total, unsplit |-> m.unsplit + u.billed,
       by |-> ByName(m.by, p)]

\* The llm_response event, whose details feed llm_calls and the agent's row.
Logged(e, u, p) ==
  [calls |-> e.calls + 1, in |-> e.in + u.in, cached |-> e.cached + u.cached,
   out |-> e.out + u.out, total |-> e.total + Cost(u, p).total]

\* An agent's loop resolves its prices once, when it begins.
Begin(r, a) ==
  /\ r \notin ended /\ agent[r][a] = "idle" /\ paid[r][a] # price
  /\ paid' = [paid EXCEPT ![r][a] = price]
  /\ UNCHANGED <<price, agent, metrics, logged, told, warned, cancelled, ended,
                 usageRows, eventCalls, totalCalls>>

MayAsk(r) == ~cancelled[r]

Asking(r) == Cardinality({a \in Agents : agent[r][a] = "asking"})

\* The sum of a function to naturals, counted.
Units(f) == UNION {{x} \X (1..f[x]) : x \in DOMAIN f}
USum(f) == Cardinality(Units(f))

\* Calls of the attempts stored and of those under way.
Calls == USum([r \in Runs |-> metrics[r].calls + Asking(r) + IF r \in ended THEN 0 ELSE totalCalls[r]])

Ask(r, a) ==
  /\ r \notin ended /\ agent[r][a] = "idle" /\ MayAsk(r)
  /\ Calls < MaxCalls
  /\ agent' = [agent EXCEPT ![r][a] = "asking"]
  /\ UNCHANGED <<price, paid, metrics, logged, told, warned, cancelled, ended,
                 usageRows, eventCalls, totalCalls>>

ReachedLate(total) == total > Cap              \* mutant of Reached
Reached(total) == total >= Cap

\* An answer: priced, added, perhaps a warning, perhaps the cap, logged.
AnswerPaid(r, a) ==
  /\ agent[r][a] = "asking"
  /\ agent' = [agent EXCEPT ![r][a] = "idle"]
  /\ \E u \in Answers :
       LET p == paid[r][a]
           after == Rolled(metrics[r], u, p)
           first == Reached(after.total) /\ told[r] = 0
       IN  /\ metrics' = [metrics EXCEPT ![r] = after]
           /\ logged' = [logged EXCEPT ![r] = Logged(@, u, p)]
           /\ warned' = [warned EXCEPT ![r] = IF Free(u, p) THEN 1 ELSE @]
           /\ told' = [told EXCEPT ![r] = IF first THEN @ + 1 ELSE @]
           /\ cancelled' = [cancelled EXCEPT ![r] = @ \/ first]
  /\ UNCHANGED <<price, paid, ended, usageRows, eventCalls, totalCalls>>

\* A call that fails reports no usage.
CallFails(r, a) ==
  /\ agent[r][a] = "asking"
  /\ agent' = [agent EXCEPT ![r][a] = "idle"]
  /\ UNCHANGED <<price, paid, metrics, logged, told, warned, cancelled, ended,
                 usageRows, eventCalls, totalCalls>>

CancelUsage(r) ==
  /\ r \notin ended /\ ~cancelled[r]
  /\ cancelled' = [cancelled EXCEPT ![r] = TRUE]
  /\ UNCHANGED <<price, agent, paid, metrics, logged, told, warned, ended,
                 usageRows, eventCalls, totalCalls>>

\* The end of an attempt replaces the rows the run had.
EndUsage(r) ==
  /\ r \notin ended /\ Asking(r) = 0
  /\ ended' = ended \cup {r}
  /\ usageRows' = [usageRows EXCEPT ![r] = metrics[r].by]
  /\ eventCalls' = [eventCalls EXCEPT ![r] = logged[r].calls]
  /\ totalCalls' = [totalCalls EXCEPT ![r] = metrics[r].calls]
  /\ UNCHANGED <<price, agent, paid, metrics, logged, told, warned, cancelled>>

\* A retried job runs under a new observer, which counts from zero; a retry
\* follows a failure, not a cancellation.
Retry(r) ==
  /\ r \in ended /\ ~cancelled[r] /\ totalCalls[r] > 0
  /\ ended' = ended \ {r}
  /\ metrics' = [metrics EXCEPT ![r] = Nothing]
  /\ logged' = [logged EXCEPT ![r] = NoEvents]
  /\ told' = [told EXCEPT ![r] = 0] /\ warned' = [warned EXCEPT ![r] = 0]
  /\ paid' = [paid EXCEPT ![r] = [a \in Agents |-> price]]
  /\ UNCHANGED <<price, agent, cancelled, usageRows, eventCalls, totalCalls>>

\* The catalogue is synchronised, or an operator edits it.
Reprice ==
  /\ \E p \in Prices \ {price} : price' = p
  /\ UNCHANGED <<agent, paid, metrics, logged, told, warned, cancelled, ended,
                 usageRows, eventCalls, totalCalls>>

UsageNext ==
  \/ Reprice
  \/ \E r \in Runs :
       \/ CancelUsage(r)
       \/ EndUsage(r)
       \/ Retry(r)
       \/ \E a \in Agents : Begin(r, a) \/ Ask(r, a) \/ AnswerPaid(r, a) \/ CallFails(r, a)

UsageSpec == UsageInit /\ [][UsageNext]_usageVars

-----------------------------------------------------------------------------
\* _merged_model_usage_rows: calls by name from the usage rows of all runs, and
\* from the events those of a name that no usage row has.
FromRows(n) == USum([r \in Runs |-> usageRows[r][n]])
FromEvents(n) == IF n = RuntimeName THEN USum(eventCalls) ELSE 0

Merged(n) == IF FromRows(n) > 0 THEN FromRows(n) ELSE FromEvents(n)

PageCalls == USum([n \in Names |-> Merged(n)])

(* Types and the split of the metrics: the usage per provider name adds up *)
(* to the calls of the run, in every run and attempt, and so do the rows.  *)
UsageTypeOK ==
  /\ price \in Prices /\ paid \in [Runs -> [Agents -> Prices]]
  /\ agent \in [Runs -> [Agents -> {"idle", "asking"}]]
  /\ \A r \in Runs :
       /\ metrics[r].calls \in 0..MaxCalls
       /\ told[r] \in 0..1 /\ warned[r] \in 0..1
       /\ USum(metrics[r].by) = metrics[r].calls
       /\ USum(usageRows[r]) = totalCalls[r]

(* "keep total == sum(stored line items)" (observability.py:500-501): the  *)
(* cost lines of a run's metrics add up to its total cost, but for answers *)
(* whose provider reports no more than one total.                          *)
TotalIsLines ==
  \A r \in Runs : metrics[r].total =
    metrics[r].inCost + metrics[r].cachedCost + metrics[r].writeCost
      + metrics[r].outCost + metrics[r].unsplit

(* The events of a run, from which the rows of its agents and calls are    *)
(* made, add up to its metrics, which make the row of the run: calls,      *)
(* tokens and cost (observability.py:381-596, loop.py:1005-1072).          *)
EventsAgree ==
  \A r \in Runs :
    /\ logged[r].calls = metrics[r].calls /\ logged[r].in = metrics[r].in
    /\ logged[r].cached = metrics[r].cached /\ logged[r].out = metrics[r].out
    /\ logged[r].total = metrics[r].total
    /\ totalCalls[r] = eventCalls[r]

(* The cap cancels the run with the answer that reaches it and is told     *)
(* once.  Answers that were asked for before are still paid: the cost      *)
(* stays below the cap and one answer per agent (observability.py:526-535).*)
DearestAnswer ==
  LET costs == {Cost(u, p).total : u \in Answers, p \in Prices}
  IN  CHOOSE c \in costs : \A d \in costs : d <= c

CapHolds ==
  \A r \in Runs :
    /\ metrics[r].total < Cap + Cardinality(Agents) * DearestAnswer
    /\ (told[r] = 1) = (metrics[r].total >= Cap)
    /\ told[r] = 1 => cancelled[r]

(* Every call of every stored run is on the overview page, whatever name   *)
(* its model had when it was paid and when another run was stored.         *)
PageMissesNone == PageCalls >= USum(totalCalls)

(* What a run cost is split, logged, capped and shown without a difference. *)
CostsTrue == UsageTypeOK /\ TotalIsLines /\ EventsAgree /\ CapHolds /\ PageMissesNone
=============================================================================
